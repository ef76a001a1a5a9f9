---------------------------- MODULE RelayDevices ----------------------------
(***************************************************************************)
(* Relay devices in Mailwarden Cloud: src/services/relay-devices.ts.       *)
(* A device starts provisioning with a code, an admin authorizes the code, *)
(* the device's next poll registers it and answers with its credential;    *)
(* credentials are then renewed by the device, rotated by an admin, and    *)
(* revoked with the device.                                                *)
(*                                                                         *)
(* As in the send guard no transaction spans two statements: a call is a   *)
(* record whose pc names the statement it will run next.  A call that has  *)
(* ended is idle again, so a few slots make a history of any length.  One  *)
(* organization; tunnels are left out here.                                *)
(***************************************************************************)
EXTENDS Integers, FiniteSets

CONSTANTS
  Codes,       \* provisioning sessions, each with its device and user code
  Devices,     \* ids the device table may hand out
  Creds,       \* ids the credential table may hand out
  Calls,       \* calls in flight at a time
  Kinds,       \* which of AllKinds are made
  MaxDevices,  \* the plan's maxRelayDevices
  Faults,      \* which of RelayFaults may happen
  NoRow        \* an absent row or id

AllKinds == {"authorize", "poll", "rotate", "renew", "revoke"}
RelayFaults == {"crash", "db", "expiry"}

ASSUME KindsAssumption == Kinds \subseteq AllKinds
ASSUME MaxDevicesAssumption == MaxDevices \in Nat
ASSUME NoIdAssumption == NoRow \notin Codes \union Devices \union Creds

VARIABLES
  sessions,    \* table relay_provisioning_sessions
  devices,     \* table relay_devices
  creds,       \* table relay_device_credentials
  calls,       \* the calls in flight
  delivered,   \* history: the credentials Cloud has answered with
  reopened     \* history: the codes a failing poll has given back

history == <<delivered, reopened>>
relayVars == <<sessions, devices, creds, calls, history>>

-----------------------------------------------------------------------------
(* Rows.  late: expiresAt has passed.  owned: tenantId, authorizedByUserId *)
(* and authorizedAt are set.                                               *)
SessionRow == [state : {"pending", "authorized", "expired", "purged"},
               late : BOOLEAN, owned : BOOLEAN, consumed : BOOLEAN,
               device : Devices \union {NoRow}]
DeviceStatus == {"unused", "active", "revoked", "deleted"}
CredRow == [device : Devices, generation : Nat,
            status : {"live", "expired", "revoked", "deleted"}]
ASSUME NoRowAssumption == NoRow \notin SessionRow \union CredRow

Idle == "idle"
Issuing == {"read", "insert", "retire", "unissue", "answer"}
CallState == [kind : AllKinds \union {Idle},
              pc : {Idle, "authorize", "expire", "device", "claim", "discard", "again",
                    "undoDevice", "undoSession", "creds"} \union Issuing,
              code : Codes \union {NoRow}, device : Devices \union {NoRow},
              by : Creds \union {NoRow}, cred : Creds \union {NoRow}, generation : Nat]
IdleCall == [kind |-> Idle, pc |-> Idle, code |-> NoRow, device |-> NoRow,
             by |-> NoRow, cred |-> NoRow, generation |-> 0]

Delivery == [code : Codes \union {NoRow}, by : Creds \union {NoRow}, cred : Creds]

RelayInit ==
  /\ sessions = [p \in Codes |-> NoRow]
  /\ devices = [d \in Devices |-> "unused"]
  /\ creds = [k \in Creds |-> NoRow]
  /\ calls = [c \in Calls |-> IdleCall]
  /\ delivered = {}
  /\ reopened = {}

Begin(c, call) == /\ call.kind \in Kinds
                  /\ calls[c].pc = Idle
                  /\ calls' = [calls EXCEPT ![c] = call]

(* Bound: a call that will issue a credential begins while an id is left   *)
(* for it, and a registration while one is left for the device.            *)
Spare(ids, used, pending) == Cardinality(ids \ used) > Cardinality(pending)
CredLeft == Spare(Creds, {k \in Creds : creds[k] # NoRow},
                  {c \in Calls : calls[c].kind \in {"poll", "rotate", "renew"}
                                  /\ calls[c].cred = NoRow})
DeviceLeft == Spare(Devices, {d \in Devices : devices[d] # "unused"},
                    {c \in Calls : calls[c].kind = "poll" /\ calls[c].device = NoRow})

Goto(c, pc) == calls' = [calls EXCEPT ![c].pc = pc]
End(c) == calls' = [calls EXCEPT ![c] = IdleCall]
At(c, pc) == calls[c].pc = pc
OnlyCalls == UNCHANGED <<sessions, devices, creds, history>>

CredsOf(d) == {k \in Creds : creds[k] # NoRow /\ creds[k].device = d}
LiveOf(d) == {k \in CredsOf(d) : creds[k].status = "live"}

-----------------------------------------------------------------------------
(* startProvisioning purges the rows long past their expiry, whoever       *)
(* starts, and inserts a new one.  The rate limit only refuses.            *)
NewSession == [state |-> "pending", late |-> FALSE, owned |-> FALSE,
               consumed |-> FALSE, device |-> NoRow]
LateCodes == {p \in Codes : sessions[p] # NoRow /\ sessions[p].late}
Purged(gone) ==                  \* of a row that is gone only `owned` is remembered
  [p \in Codes |-> IF p \in gone
     THEN [NewSession EXCEPT !.state = "purged", !.late = TRUE, !.owned = sessions[p].owned]
     ELSE sessions[p]]

Start(p) ==
  /\ sessions[p] = NoRow
  /\ \E gone \in SUBSET LateCodes : sessions' = [Purged(gone) EXCEPT ![p] = NewSession]
  /\ UNCHANGED <<devices, creds, calls, history>>

(* A device of another organization starts. *)
StartElsewhere ==
  /\ \E gone \in SUBSET LateCodes : sessions' = Purged(gone)
  /\ UNCHANGED <<devices, creds, calls, history>>

Lapse(p) ==
  /\ sessions[p] # NoRow
  /\ ~sessions[p].late
  /\ sessions' = [sessions EXCEPT ![p].late = TRUE]
  /\ UNCHANGED <<devices, creds, calls, history>>

(* authorizeProvisioning: the plan's limit against the devices there are,  *)
(* then a compare-and-set on the session.                                  *)
ActiveDevices == {d \in Devices : devices[d] = "active"}

AuthorizeRead(c, p) ==
  /\ Cardinality(ActiveDevices) < MaxDevices
  /\ Begin(c, [IdleCall EXCEPT !.kind = "authorize", !.pc = "authorize", !.code = p])
  /\ OnlyCalls

CodeOpenOrLate(p) == sessions[p] # NoRow   \* the code's expiry not compared
                     /\ sessions[p].state \in {"pending", "authorized"}
CodeOpen(p) == /\ sessions[p] # NoRow
               /\ sessions[p].state = "pending"
               /\ ~sessions[p].consumed
               /\ ~sessions[p].late

Authorize(c) ==
  LET p == calls[c].code IN
  /\ At(c, "authorize")
  /\ sessions' = IF CodeOpen(p)
                   THEN [sessions EXCEPT ![p].state = "authorized", ![p].owned = TRUE]
                   ELSE sessions
  /\ End(c)
  /\ UNCHANGED <<devices, creds, history>>

-----------------------------------------------------------------------------
(* pollProvisioning.  A poll that only reports a state changes nothing and *)
(* is no step, except that a loser that reads again must end.              *)
Claimable(p) == /\ sessions[p].state = "authorized"
                /\ sessions[p].owned
                /\ ~sessions[p].consumed
                /\ ~sessions[p].late

Expirable(p) == sessions[p].late /\ sessions[p].state # "purged"

PollRead(c, p) ==
  /\ sessions[p] # NoRow
  /\ (Claimable(p) /\ CredLeft /\ DeviceLeft) \/ Expirable(p)
  /\ Begin(c, [IdleCall EXCEPT !.kind = "poll", !.code = p,
                 !.pc = IF Claimable(p) THEN "device" ELSE "expire"])
  /\ OnlyCalls

PollAgain(c) ==
  LET p == calls[c].code IN
  /\ At(c, "again")
  /\ CASE Claimable(p) -> Goto(c, "device")
       [] Expirable(p) -> Goto(c, "expire")
       [] OTHER -> End(c)
  /\ OnlyCalls

PollExpire(c) ==
  LET p == calls[c].code IN
  /\ At(c, "expire")
  /\ sessions' = IF sessions[p].state = "purged" THEN sessions
                 ELSE [sessions EXCEPT ![p].state = "expired"]
  /\ End(c)
  /\ UNCHANGED <<devices, creds, history>>

PollDevice(c, d) ==
  /\ At(c, "device")
  /\ devices[d] = "unused"
  /\ devices' = [devices EXCEPT ![d] = "active"]
  /\ calls' = [calls EXCEPT ![c].pc = "claim", ![c].device = d]
  /\ UNCHANGED <<sessions, creds, history>>

(* The claim looks at consumedAt only, not again at state or expiry. *)
UnclaimedUnchecked(p) == TRUE    \* the update without its condition
Unclaimed(p) == sessions[p].state # "purged" /\ ~sessions[p].consumed

ClaimantSwapped(c) == calls[c].code   \* the wrong id in relayDeviceId
Claimant(c) == calls[c].device

PollClaim(c) ==
  LET p == calls[c].code IN
  /\ At(c, "claim")
  /\ IF Unclaimed(p)
       THEN /\ sessions' = [sessions EXCEPT ![p].consumed = TRUE,
                                            ![p].device = Claimant(c)]
            /\ Goto(c, "read")
       ELSE sessions' = sessions /\ Goto(c, "discard")
  /\ UNCHANGED <<devices, creds, history>>

(* Deleting a device row deletes its credentials with it. *)
DeleteDevice(d) ==
  /\ devices' = [devices EXCEPT ![d] = "deleted"]
  /\ creds' = [k \in Creds |-> IF k \in CredsOf(d)
                                 THEN [creds[k] EXCEPT !.status = "deleted"] ELSE creds[k]]

DiscardWinner(c) ==              \* deletes the device the session names
  /\ At(c, "discard")
  /\ DeleteDevice(sessions[calls[c].code].device)
  /\ Goto(c, "again")
  /\ UNCHANGED <<sessions, history>>

PollDiscard(c) ==
  /\ At(c, "discard")
  /\ DeleteDevice(calls[c].device)
  /\ calls' = [calls EXCEPT ![c].pc = "again", ![c].device = NoRow]
  /\ UNCHANGED <<sessions, history>>

(* The catch block: the device goes, and the session is opened again.      *)
UndoDevice(c) ==
  /\ At(c, "undoDevice")
  /\ IF calls[c].device = NoRow THEN UNCHANGED <<devices, creds>>
                                ELSE DeleteDevice(calls[c].device)
  /\ Goto(c, "undoSession")
  /\ UNCHANGED <<sessions, history>>

UndoSession(c) ==
  /\ At(c, "undoSession")
  /\ sessions' = [sessions EXCEPT ![calls[c].code].consumed = FALSE,    \* as in a purged row
                                  ![calls[c].code].device = NoRow]
  /\ reopened' = reopened \union {calls[c].code}
  /\ End(c)
  /\ UNCHANGED <<devices, creds, delivered>>

-----------------------------------------------------------------------------
(* rotateCredential by an admin, renewDeviceCredential by the device.      *)
RotateRead(c, d) ==
  /\ devices[d] = "active"
  /\ CredLeft
  /\ Begin(c, [IdleCall EXCEPT !.kind = "rotate", !.pc = "read", !.device = d])
  /\ OnlyCalls

(* requireActiveCredential, and the test of the heartbeat.  A device sends *)
(* the id and generation of the credential it presents.                    *)
AuthenticatesAnyDevice(k) == creds[k] # NoRow   \* the device row not looked at
                             /\ creds[k].status = "live"
Authenticates(k) == /\ creds[k] # NoRow
                    /\ creds[k].status = "live"
                    /\ devices[creds[k].device] = "active"

RenewRead(c, k) ==
  /\ Authenticates(k)
  /\ CredLeft
  /\ Begin(c, [IdleCall EXCEPT !.kind = "renew", !.pc = "read",
                               !.device = creds[k].device, !.by = k])
  /\ OnlyCalls

(* issueCredential: the highest generation, ... *)
IssueRead(c) ==
  LET rows == {k \in CredsOf(calls[c].device) : creds[k].status # "deleted"} IN
  /\ At(c, "read")
  /\ \E g \in 0..Cardinality(Creds) :
       /\ \A k \in rows : creds[k].generation <= g
       /\ g = 0 \/ \E k \in rows : creds[k].generation = g
       /\ calls' = [calls EXCEPT ![c].pc = "insert", ![c].generation = g + 1]
  /\ OnlyCalls

(* ... the new row, ... *)
IssueInsert(c, k) ==
  /\ At(c, "insert")
  /\ creds[k] = NoRow
  /\ devices[calls[c].device] # "deleted"
  /\ creds' = [creds EXCEPT ![k] = [device |-> calls[c].device,
                                    generation |-> calls[c].generation, status |-> "live"]]
  /\ calls' = [calls EXCEPT ![c].cred = k, ![c].generation = 0,
                 ![c].pc = IF calls[c].kind = "poll" THEN "answer" ELSE "retire"]
  /\ UNCHANGED <<sessions, devices, history>>

(* A device deleted meanwhile: the foreign key refuses the row.            *)
IssueOrphaned(c) ==
  /\ At(c, "insert")
  /\ devices[calls[c].device] = "deleted"
  /\ End(c)
  /\ OnlyCalls

(* ... and, unless the device is new, the end of every other one.          *)
Revocable(k) == creds[k].status \in {"live", "expired"}
RevokeAll(ks) == creds' = [k \in Creds |-> IF k \in ks /\ Revocable(k)
                             THEN [creds[k] EXCEPT !.status = "revoked"] ELSE creds[k]]

RetireNewer(c) ==                \* revokes the new row, keeps the others
  /\ At(c, "retire")
  /\ RevokeAll({calls[c].cred})
  /\ Goto(c, "answer")
  /\ UNCHANGED <<sessions, devices, history>>

IssueRetire(c) ==
  /\ At(c, "retire")
  /\ RevokeAll(CredsOf(calls[c].device) \ {calls[c].cred})
  /\ Goto(c, "answer")
  /\ UNCHANGED <<sessions, devices, history>>

IssueUndo(c) ==
  /\ At(c, "unissue")
  /\ creds' = [creds EXCEPT ![calls[c].cred].status = "deleted"]
  /\ End(c)
  /\ UNCHANGED <<sessions, devices, history>>

Answer(c) ==
  /\ At(c, "answer")
  /\ delivered' = delivered \union {[code |-> calls[c].code, by |-> calls[c].by,
                                     cred |-> calls[c].cred]}
  /\ End(c)
  /\ UNCHANGED <<sessions, devices, creds, reopened>>

-----------------------------------------------------------------------------
(* revokeDevice: the device first, its credentials a statement later.      *)
RevokeDevice(c, d) ==
  /\ devices[d] = "active"
  /\ Begin(c, [IdleCall EXCEPT !.kind = "revoke", !.pc = "creds", !.device = d])
  /\ devices' = [devices EXCEPT ![d] = "revoked"]
  /\ UNCHANGED <<sessions, creds, history>>

RevokeCreds(c) ==
  /\ At(c, "creds")
  /\ RevokeAll(CredsOf(calls[c].device))
  /\ End(c)
  /\ UNCHANGED <<sessions, devices, history>>

-----------------------------------------------------------------------------
(* The isolate goes between two statements. *)
Crash(c) ==
  /\ "crash" \in Faults
  /\ calls[c].pc # Idle
  /\ End(c)
  /\ OnlyCalls

(* The database refuses the next statement, which throws.  After a renewal *)
(* or rotation only the audit entry is left, whose failure is swallowed.   *)
Refused(c) ==
  /\ "db" \in Faults
  /\ calls[c].pc # Idle
  /\ calls[c].kind = "poll" \/ ~At(c, "answer")
  /\ CASE calls[c].kind = "poll" /\ calls[c].pc \in Issuing \union {"device", "claim", "discard"}
            -> Goto(c, "undoDevice")
       [] calls[c].kind # "poll" /\ At(c, "retire") -> Goto(c, "unissue")
       [] OTHER -> End(c)
  /\ OnlyCalls

Expire(k) ==
  /\ "expiry" \in Faults
  /\ creds[k] # NoRow
  /\ creds[k].status = "live"
  /\ creds' = [creds EXCEPT ![k].status = "expired"]
  /\ UNCHANGED <<sessions, devices, calls, history>>

(* What a call does once it has begun, up to its answer. *)
CallStep(c) == \/ Authorize(c)
               \/ PollAgain(c) \/ PollExpire(c) \/ PollClaim(c) \/ PollDiscard(c)
               \/ UndoDevice(c) \/ UndoSession(c)
               \/ IssueRead(c) \/ IssueOrphaned(c) \/ IssueRetire(c) \/ IssueUndo(c)
               \/ RevokeCreds(c)
               \/ \E d \in Devices : PollDevice(c, d)
               \/ \E k \in Creds : IssueInsert(c, k)

CallFails(c) == Crash(c) \/ Refused(c)

(* What happens with or without anybody at the other end. *)
Environment == \/ \E p \in Codes : Start(p) \/ Lapse(p)
               \/ StartElsewhere
               \/ \E k \in Creds : Expire(k)

(* Cloud's endpoints: a human approves a code; an admin revokes a device   *)
(* in the portal or through the API, which also rotates its credential; a  *)
(* device polls and renews.  Who may is in Membership and AccessTokens.    *)
HumanAuthorizes(c) == \E p \in Codes : AuthorizeRead(c, p)
RevokeForm(c) == \E d \in Devices : RevokeDevice(c, d)
AdminBegins(c) == \/ HumanAuthorizes(c) \/ RevokeForm(c)
                  \/ \E d \in Devices : RotateRead(c, d)

DeviceBegins(c) == \/ \E p \in Codes : PollRead(c, p)
                   \/ \E k \in Creds : RenewRead(c, k)

RelayNext == \/ Environment
             \/ \E c \in Calls : \/ AdminBegins(c) \/ DeviceBegins(c)
                                 \/ CallStep(c) \/ Answer(c) \/ CallFails(c)

RelaySpec == RelayInit /\ [][RelayNext]_relayVars

-----------------------------------------------------------------------------
(* Type invariant of the three tables, the calls and the answers. *)
RelayTypeOK ==
  /\ sessions \in [Codes -> SessionRow \union {NoRow}]
  /\ devices \in [Devices -> DeviceStatus]
  /\ creds \in [Creds -> CredRow \union {NoRow}]
  /\ calls \in [Calls -> CallState]
  /\ delivered \subseteq Delivery
  /\ reopened \subseteq Codes

(* The handlers implement Enrolment: a code is approved once, and of any   *)
(* number of concurrent polls one delivers a credential for it, unless a   *)
(* poll that fails gives the code back.                                    *)
OneCode == INSTANCE Enrolment WITH
  Codes <- Codes, Credentials <- Creds,
  approved <- {p \in Codes : sessions[p] # NoRow /\ sessions[p].owned},
  enrolled <- {<<r.code, r.cred>> : r \in {x \in delivered : x.code # NoRow}}

(* Refinement of Enrolment by the polls, authorizations and their races. *)
KeepsEnrolment == OneCode!ESpec

(* No code is authorized after its expiry. *)
AuthorizedInTime ==
  [][\A p \in Codes : sessions[p] # NoRow /\ sessions[p].late /\ ~sessions[p].owned
                        => ~sessions'[p].owned]_relayVars

(* A credential a poll has answered with is never undone: no loser of the  *)
(* claim and no catch block deletes it or its device.                      *)
DeliveredIsKept ==
  \A r \in delivered : r.code # NoRow =>
                       /\ creds[r.cred].status # "deleted"
                       /\ devices[creds[r.cred].device] # "deleted"

(* A renewal that was answered has ended the credential it was made with.  *)
RenewalRetires == \A r \in delivered : r.by # NoRow => creds[r.by].status # "live"

(* Once a device is revoked and no call begun before is still at work for  *)
(* it, no credential of it comes to life and no call sets to issuing one.  *)
InUse(d) == \E c \in Calls : calls[c].device = d /\ calls[c].kind # "revoke"
RevokedStaysDark ==
  [][\A d \in Devices : devices[d] = "revoked" /\ ~InUse(d)
       => LiveOf(d)' \subseteq LiveOf(d) /\ ~InUse(d)']_relayVars

(* A code is single-use: it is answered with one credential, ever. *)
OneCredentialPerCode ==
  \A r1, r2 \in delivered : r1.code # NoRow /\ r1.code = r2.code => r1 = r2

(* The plan's limit on relay devices. *)
WithinPlan == Cardinality(ActiveDevices) <= MaxDevices
=============================================================================
