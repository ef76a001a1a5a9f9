----------------------------- MODULE Enrolment -----------------------------
(***************************************************************************)
(* What relay provisioning promises, with no polls, tables or faults: a    *)
(* code is approved by an admin at most once, and an approved code yields  *)
(* one credential, which no other code yields.  Only a code that was given *)
(* back may yield another.                                                 *)
(***************************************************************************)
CONSTANTS Codes, Credentials

VARIABLES
  approved,    \* the codes an admin has authorized
  enrolled,    \* pairs <<code, credential>> handed to a device
  reopened     \* the codes given back

evars == <<approved, enrolled, reopened>>

EInit == approved = {} /\ enrolled = {} /\ reopened = {}

Approve(p) == /\ p \notin approved
              /\ approved' = approved \union {p}
              /\ UNCHANGED <<enrolled, reopened>>

Reopen(p) == /\ p \in approved
             /\ reopened' = reopened \union {p}
             /\ UNCHANGED <<approved, enrolled>>

Enrol(p, k) == /\ p \in approved
               /\ \A e \in enrolled : e[2] # k /\ (e[1] = p => p \in reopened)
               /\ enrolled' = enrolled \union {<<p, k>>}
               /\ UNCHANGED <<approved, reopened>>

ENext == \/ \E p \in Codes : Approve(p) \/ Reopen(p)
         \/ \E p \in Codes, k \in Credentials : Enrol(p, k)

ESpec == EInit /\ [][ENext]_evars
=============================================================================
