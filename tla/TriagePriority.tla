--------------------------- MODULE TriagePriority ---------------------------
(***************************************************************************)
(* How a judgment becomes what the inbox shows:                            *)
(* packages/triage-contract (which judgments are accepted) and             *)
(* packages/triage-priority (the band, the lane and the clamps).           *)
(*                                                                         *)
(* A band is its BAND_RANK: 0 to 3 for P0 to P3, 4 for noise.  Texts,      *)
(* evidence and the list of the clamps applied are left out.               *)
(***************************************************************************)
EXTENDS Naturals

Statuses == {"open", "in_progress", "resolved", "expired", "superseded"}
Severities == {"none", "minor", "moderate", "major", "severe"}
Times == {"expired", "now", "today", "this_week", "this_month", "none"}
Harms == {"active", "latent", "none"}
Noise == 4
Bands == 0..Noise

(* Of the judgment's fields those that are read; "action" says that the    *)
(* judgment asks the user to act and names the action.                     *)
Judgment == [status : Statuses, severity : Severities, time : Times, harm : Harms,
             marketing : BOOLEAN, action : BOOLEAN, briefing : BOOLEAN]

(* Of the facts of an event those the clamps read. *)
Facts == [expiredCredential : BOOLEAN, failedPayment : BOOLEAN, security : BOOLEAN,
          expiry : BOOLEAN, bulk : BOOLEAN, authFailed : BOOLEAN]
NoFacts == [expiredCredential |-> FALSE, failedPayment |-> FALSE, security |-> FALSE,
            expiry |-> FALSE, bulk |-> FALSE, authFailed |-> FALSE]

Terminal(j) == j.status \in {"resolved", "expired", "superseded"}
Grave(j) == j.severity \in {"major", "severe"}
Imminent(j) == j.time \in {"now", "today"}

(* superRefine of externalTriageDecisionSchema. *)
Accepted(j) == ~(Terminal(j) /\ j.action)

-----------------------------------------------------------------------------
(* BASE_BANDS and HARM_ADJUSTMENTS. *)
BaseBand(severity, time) ==
  IF severity = "none" \/ time = "expired" THEN Noise
  ELSE IF severity = "minor" THEN (IF time \in {"now", "today"} THEN 2 ELSE 3)
  ELSE IF severity = "moderate" THEN (IF time \in {"now", "today", "this_week"} THEN 2 ELSE 3)
  ELSE IF severity = "major" THEN (IF time \in {"now", "today"} THEN 1 ELSE 2)
  ELSE IF time = "now" THEN 0
  ELSE IF time \in {"today", "this_week"} THEN 1 ELSE 2

Harmed(band, harm) == IF harm = "active" /\ band \in 1..3 THEN band - 1 ELSE band

(* derivePriority: the table is total, so it is a function here. *)
Derived(j) == IF Terminal(j) THEN Noise ELSE Harmed(BaseBand(j.severity, j.time), j.harm)

Floor(band, minimum) == IF band > minimum THEN minimum ELSE band
Ceiling(band, maximum) == IF band < maximum THEN maximum ELSE band

-----------------------------------------------------------------------------
(* applyPolicyClamps, in the order of the code. *)
AfterCredential(j, f) == IF f.expiredCredential THEN Noise ELSE Derived(j)

MustSurface(j, f) ==
  \/ Grave(j) /\ (f.failedPayment \/ f.security)
  \/ f.expiry /\ Imminent(j)
AfterFloors(j, f) ==
  IF MustSurface(j, f) THEN Floor(AfterCredential(j, f), 1) ELSE AfterCredential(j, f)

AfterMarketing(j, f) ==
  IF j.marketing /\ f.bulk THEN Ceiling(AfterFloors(j, f), 3) ELSE AfterFloors(j, f)

BandBeforeState(j, f, observed) ==         \* the resolved ceiling ahead of the floors
  IF observed = "resolved" /\ ~MustSurface(j, f) THEN Noise ELSE AfterMarketing(j, f)
Band(j, f, observed) == IF observed = "resolved" THEN Noise ELSE AfterMarketing(j, f)

Lane(j, band) ==
  CASE band = Noise -> "suppressed"
    [] band # Noise /\ j.action -> "action"
    [] band # Noise /\ ~j.action /\ j.briefing -> "briefing"
    [] OTHER -> "record"

SafeTarget(f) == ~f.expiredCredential /\ ~(f.authFailed /\ f.security)

Presentation(j, f, observed) ==
  [band |-> Band(j, f, observed), lane |-> Lane(j, Band(j, f, observed)), safe |-> SafeTarget(f)]
=============================================================================
