------------------------- MODULE RelayDevicesProofs -------------------------
(***************************************************************************)
(* Proofs about RelayDevices, for any number of codes, devices,            *)
(* credentials and calls in flight, any plan, and every set of faults; and *)
(* about BridgeIdentity, the bridge beside it.                             *)
(***************************************************************************)
EXTENDS BridgeIdentity, TLAPS

USE DEF Idle, Issuing, history


(* The steps at which a poll holds a device of its own, and those at which *)
(* it has won its code.                                                    *)
Holding == {"claim", "discard", "read", "insert", "answer"}
Winning == {"read", "insert", "answer"}
PollPcs == Holding \union {"device", "expire", "again", "undoDevice", "undoSession"}
RenewPcs == Winning \union {"retire", "unissue"}

(* Each kind of call goes through its own steps, and what it has read or   *)
(* made is still there: rows lose neither their owner nor their device.    *)
PollInStep(call) == call.kind = "poll" =>
  /\ call.pc \in PollPcs /\ call.code \in Codes /\ call.by = NoRow
  /\ sessions[call.code] # NoRow
  /\ call.pc \notin {"expire", "again"} => sessions[call.code].owned
  /\ call.pc \in Holding => call.device \in Devices
  /\ call.pc \in {"device", "expire", "again"} => call.device = NoRow
  /\ call.pc \in PollPcs \ {"answer", "undoDevice", "undoSession"} => call.cred = NoRow
RenewInStep(call) == call.kind \in {"rotate", "renew"} =>
  /\ call.pc \in RenewPcs /\ call.code = NoRow /\ call.device \in Devices
  /\ call.pc \in {"read", "insert"} => call.cred = NoRow
  /\ call.kind = "rotate" => call.by = NoRow
  /\ call.kind = "renew" => /\ call.by \in Creds
                            /\ creds[call.by] # NoRow
                            /\ creds[call.by].device = call.device
                            /\ call.by # call.cred
                            /\ call.pc = "answer" => creds[call.by].status # "live"
OtherInStep(call) ==
  /\ call.pc = Idle => call = IdleCall
  /\ call.kind = Idle => call.pc = Idle
  /\ call.kind = "authorize" => /\ call.pc = "authorize" /\ call.code \in Codes
                                /\ call.device = NoRow /\ call.cred = NoRow
  /\ call.kind = "revoke" => call.pc = "creds" /\ call.device \in Devices /\ call.cred = NoRow
HasRows(call) ==
  /\ call.pc \in {"retire", "unissue", "answer"} => call.cred \in Creds
  /\ call.device # NoRow => devices[call.device] # "unused"
  /\ call.cred # NoRow => creds[call.cred] # NoRow /\ creds[call.cred].device = call.device
InStep(call) == PollInStep(call) /\ RenewInStep(call) /\ OtherInStep(call) /\ HasRows(call)

(* A code waits unowned; a credential belongs to a device there is.        *)
RowsInStep ==
  /\ \A p \in Codes : sessions[p] # NoRow /\ sessions[p].state = "pending" => ~sessions[p].owned
  /\ \A k \in Creds : creds[k] # NoRow => devices[creds[k].device] # "unused"

StepInv == RelayTypeOK /\ RowsInStep /\ \A c \in Calls : InStep(calls[c])

(* No two polls hold one device, and no two calls have issued one          *)
(* credential; those delivered have been let go by everybody.              *)
OneHolder ==
  \A c1, c2 \in Calls : c1 # c2 =>
    /\ calls[c1].kind = "poll" /\ calls[c2].kind = "poll" /\ calls[c1].device # NoRow
         => calls[c1].device # calls[c2].device
    /\ calls[c1].cred # NoRow => calls[c1].cred # calls[c2].cred
Alive(k) == creds[k].status # "deleted" /\ devices[creds[k].device] # "deleted"
LetGo(r) ==
  /\ creds[r.cred] # NoRow
  /\ \A c \in Calls : calls[c].cred # r.cred
  /\ r.by # NoRow => creds[r.by] # NoRow /\ creds[r.by].status # "live"
  /\ r.code # NoRow =>
       /\ Alive(r.cred)
       /\ \A c \in Calls : calls[c].kind = "poll" => calls[c].device # creds[r.cred].device
OwnedInv ==
  /\ OneHolder
  /\ \A c \in Calls : calls[c].kind = "poll" /\ calls[c].pc = "answer" => Alive(calls[c].cred)
  /\ \A r \in delivered : LetGo(r)

(* A code that nobody gave back is claimed by one poll, which answers once. *)
Winner(c, p) == calls[c].kind = "poll" /\ calls[c].code = p /\ calls[c].pc \in Winning
Taken(p) == sessions[p] # NoRow /\ ~Unclaimed(p)
ClaimInv ==
  \A p \in Codes \ reopened :
    /\ \A c \in Calls : Winner(c, p) => Taken(p)
    /\ \A c1, c2 \in Calls : Winner(c1, p) /\ Winner(c2, p) => c1 = c2
    /\ \A r \in delivered : r.code = p => Taken(p) /\ \A c \in Calls : ~Winner(c, p)

(* What a step may do to rows that others rely on.                         *)
TablesAdvance ==
  /\ \A p \in Codes : sessions[p] # NoRow =>
       sessions'[p] # NoRow /\ (sessions[p].owned => sessions'[p].owned)
  /\ \A d \in Devices : devices[d] # "unused" => devices'[d] # "unused"
  /\ \A k \in Creds : creds[k] # NoRow =>
       /\ creds'[k] # NoRow
       /\ creds'[k].device = creds[k].device
       /\ creds[k].status # "live" => creds'[k].status # "live"

-----------------------------------------------------------------------------
(* The records a step writes, field by field.                              *)
LEMMA GotoFields ==
  ASSUME calls \in [Calls -> CallState], NEW c \in Calls,
         NEW pc \in PollPcs \union RenewPcs, Goto(c, pc)
  PROVE  /\ calls' \in [Calls -> CallState]
         /\ \A x \in Calls : x # c => calls'[x] = calls[x]
         /\ calls'[c].pc = pc
         /\ calls'[c].kind = calls[c].kind
         /\ calls'[c].code = calls[c].code
         /\ calls'[c].device = calls[c].device
         /\ calls'[c].by = calls[c].by
         /\ calls'[c].cred = calls[c].cred
<1> DEFINE new == [calls[c] EXCEPT !.pc = pc]
<1>1. calls[c] \in CallState
  OBVIOUS
<1>2. new \in CallState
  BY <1>1 DEF CallState, PollPcs, RenewPcs, Holding, Winning
<1>3. /\ new.pc = pc /\ new.kind = calls[c].kind /\ new.code = calls[c].code
      /\ new.device = calls[c].device /\ new.by = calls[c].by /\ new.cred = calls[c].cred
  BY <1>1 DEF CallState
<1>4. calls' = [calls EXCEPT ![c] = new]
  BY DEF Goto
<1> HIDE DEF new
<1> QED  BY <1>2, <1>3, <1>4

LEMMA IdleFields ==
  /\ IdleCall \in CallState
  /\ IdleCall.kind = Idle /\ IdleCall.pc = Idle /\ IdleCall.code = NoRow
  /\ IdleCall.device = NoRow /\ IdleCall.by = NoRow /\ IdleCall.cred = NoRow
BY DEF IdleCall, CallState

LEMMA EndFields ==
  ASSUME calls \in [Calls -> CallState], NEW c \in Calls, End(c)
  PROVE  /\ calls' \in [Calls -> CallState]
         /\ \A x \in Calls : x # c => calls'[x] = calls[x]
         /\ calls'[c] = IdleCall
BY IdleFields DEF End

LEMMA BeginFields ==
  ASSUME calls \in [Calls -> CallState], NEW c \in Calls, NEW call \in CallState, Begin(c, call)
  PROVE  /\ calls' \in [Calls -> CallState]
         /\ \A x \in Calls : x # c => calls'[x] = calls[x]
         /\ calls'[c] = call
         /\ calls[c].pc = Idle
BY DEF Begin

(* Calls that a step leaves alone stay in step.                            *)
LEMMA OthersKeep ==
  ASSUME StepInv, TablesAdvance, NEW x \in Calls, calls'[x] = calls[x]
  PROVE  InStep(calls[x])'
<1> DEFINE call == calls[x]
<1>1. call \in CallState /\ InStep(call) /\ call' = call
  BY DEF StepInv, RelayTypeOK
<1>2. call.code \in Codes \union {NoRow} /\ call.device \in Devices \union {NoRow}
      /\ call.by \in Creds \union {NoRow} /\ call.cred \in Creds \union {NoRow}
  BY <1>1 DEF CallState
<1> HIDE DEF call
<1>3. PollInStep(call)'
  BY <1>1 DEF InStep, PollInStep, TablesAdvance
<1>4. RenewInStep(call)'
  BY <1>1 DEF InStep, RenewInStep, TablesAdvance
<1>5. OtherInStep(call)'
  BY <1>1 DEF InStep, OtherInStep
<1>6. HasRows(call)'
  BY <1>1, <1>2 DEF InStep, HasRows, TablesAdvance
<1>7. InStep(call)'
  BY <1>3, <1>4, <1>5, <1>6 DEF InStep
<1> QED  BY <1>7 DEF call

LEMMA StepKeeps ==
  ASSUME StepInv, RelayTypeOK', RowsInStep', TablesAdvance, NEW c \in Calls,
         \A x \in Calls : x # c => calls'[x] = calls[x], InStep(calls[c])'
  PROVE  StepInv' /\ TablesAdvance
<1>1. ASSUME NEW x \in Calls  PROVE InStep(calls[x])'
  <2>1. CASE x = c
    BY <2>1
  <2>2. CASE x # c
    BY <2>2, OthersKeep
  <2> QED  BY <2>1, <2>2
<1> QED  BY <1>1 DEF StepInv

LEMMA EnvironmentKeeps ==
  ASSUME StepInv, RelayTypeOK', RowsInStep', TablesAdvance, UNCHANGED calls
  PROVE  StepInv' /\ TablesAdvance
<1>1. ASSUME NEW x \in Calls  PROVE InStep(calls[x])'
  BY OthersKeep
<1> QED  BY <1>1 DEF StepInv

LEMMA IdleInStep ==
  ASSUME NEW call, call = IdleCall
  PROVE  InStep(call)
BY IdleFields DEF InStep, PollInStep, RenewInStep, OtherInStep, HasRows

(* A call that does nothing but end, or move on, leaves the tables.        *)
LEMMA EndKeeps ==
  ASSUME StepInv, NEW c \in Calls, End(c), OnlyCalls
  PROVE  StepInv' /\ TablesAdvance
<1>1. /\ calls' \in [Calls -> CallState] /\ calls'[c] = IdleCall
      /\ \A x \in Calls : x # c => calls'[x] = calls[x]
  BY EndFields DEF StepInv, RelayTypeOK
<1>2. RelayTypeOK' /\ RowsInStep' /\ TablesAdvance
  BY <1>1 DEF StepInv, RelayTypeOK, RowsInStep, OnlyCalls, TablesAdvance
<1>3. InStep(calls[c])'
  BY <1>1, IdleFields DEF InStep, PollInStep, RenewInStep, OtherInStep, HasRows
<1> QED  BY <1>1, <1>2, <1>3, StepKeeps
-----------------------------------------------------------------------------
(* The tables: a session's row is written, credentials are revoked, and a  *)
(* device goes with its credentials.                                       *)
LEMMA SessionWrite ==
  ASSUME StepInv, NEW p \in Codes, NEW row \in SessionRow,
         sessions' = [sessions EXCEPT ![p] = row],
         sessions[p] # NoRow /\ sessions[p].owned => row.owned,
         row.state = "pending" => ~row.owned,
         UNCHANGED <<devices, creds>>
  PROVE  /\ sessions' \in [Codes -> SessionRow \union {NoRow}]
         /\ RowsInStep' /\ TablesAdvance
<1>1. row # NoRow
  BY NoRowAssumption
<1>2. /\ sessions' \in [Codes -> SessionRow \union {NoRow}] /\ sessions'[p] = row
      /\ \A x \in Codes : x # p => sessions'[x] = sessions[x]
  BY DEF StepInv, RelayTypeOK
<1> QED  BY <1>1, <1>2 DEF StepInv, RowsInStep, TablesAdvance

LEMMA RevokeFields ==
  ASSUME StepInv, NEW ks, \A k \in ks : k \in Creds /\ creds[k] # NoRow, RevokeAll(ks)
  PROVE  /\ creds' \in [Creds -> CredRow \union {NoRow}]
         /\ \A k \in Creds : creds[k] = NoRow => creds'[k] = NoRow
         /\ \A k \in Creds : creds[k] # NoRow =>
              /\ creds'[k] # NoRow
              /\ creds'[k].device = creds[k].device
              /\ creds'[k].status = "live" => creds[k].status = "live" /\ k \notin ks
              /\ creds'[k].status = "deleted" => creds[k].status = "deleted"
<1>1. creds \in [Creds -> CredRow \union {NoRow}]
  BY DEF StepInv, RelayTypeOK
<1>2. ASSUME NEW k \in Creds, creds[k] # NoRow
      PROVE  /\ creds'[k] \in CredRow
             /\ creds'[k].device = creds[k].device
             /\ creds'[k].status = "live" => creds[k].status = "live" /\ k \notin ks
             /\ creds'[k].status = "deleted" => creds[k].status = "deleted"
  <2>1. CASE k \in ks /\ Revocable(k)
    <3> DEFINE row == [creds[k] EXCEPT !.status = "revoked"]
    <3>1. creds[k] \in CredRow
      BY <1>1, <1>2
    <3>2. row \in CredRow /\ row.device = creds[k].device /\ row.status = "revoked"
      BY <3>1 DEF CredRow
    <3>3. creds'[k] = row
      BY <2>1 DEF RevokeAll
    <3> QED  BY <3>2, <3>3
  <2>2. CASE ~(k \in ks /\ Revocable(k))
    BY <1>1, <1>2, <2>2 DEF RevokeAll, Revocable
  <2> QED  BY <2>1, <2>2
<1>3. \A k \in Creds : creds[k] = NoRow => creds'[k] = NoRow
  BY DEF RevokeAll
<1>4. DOMAIN creds' = Creds /\ creds' = [k \in Creds |-> creds'[k]]
  BY DEF RevokeAll
<1> QED  BY <1>2, <1>3, <1>4, NoRowAssumption

LEMMA DeleteFields ==
  ASSUME StepInv, NEW d \in Devices, DeleteDevice(d)
  PROVE  /\ creds' \in [Creds -> CredRow \union {NoRow}]
         /\ \A k \in Creds : creds[k] = NoRow => creds'[k] = NoRow
         /\ \A k \in Creds : creds[k] # NoRow =>
              /\ creds'[k] # NoRow
              /\ creds'[k].device = creds[k].device
              /\ creds'[k].status = "live" => creds[k].status = "live"
              /\ creds[k].device # d => creds'[k] = creds[k]
         /\ devices' \in [Devices -> DeviceStatus]
         /\ devices'[d] = "deleted"
         /\ \A x \in Devices : x # d => devices'[x] = devices[x]
<1>1. creds \in [Creds -> CredRow \union {NoRow}] /\ devices \in [Devices -> DeviceStatus]
  BY DEF StepInv, RelayTypeOK
<1>2. ASSUME NEW k \in Creds, creds[k] # NoRow
      PROVE  /\ creds'[k] \in CredRow
             /\ creds'[k].device = creds[k].device
             /\ creds'[k].status = "live" => creds[k].status = "live"
             /\ creds[k].device # d => creds'[k] = creds[k]
  <2>1. CASE creds[k].device = d
    <3> DEFINE row == [creds[k] EXCEPT !.status = "deleted"]
    <3>1. creds[k] \in CredRow
      BY <1>1, <1>2
    <3>2. row \in CredRow /\ row.device = creds[k].device /\ row.status = "deleted"
      BY <3>1 DEF CredRow
    <3>3. creds'[k] = row
      BY <1>2, <2>1 DEF DeleteDevice, CredsOf
    <3> QED  BY <2>1, <3>2, <3>3
  <2>2. CASE creds[k].device # d
    BY <1>1, <1>2, <2>2 DEF DeleteDevice, CredsOf
  <2> QED  BY <2>1, <2>2
<1>3. \A k \in Creds : creds[k] = NoRow => creds'[k] = NoRow
  BY DEF DeleteDevice, CredsOf
<1>4. DOMAIN creds' = Creds /\ creds' = [k \in Creds |-> creds'[k]]
  BY DEF DeleteDevice
<1>5. /\ devices' \in [Devices -> DeviceStatus] /\ devices'[d] = "deleted"
      /\ \A x \in Devices : x # d => devices'[x] = devices[x]
  BY <1>1 DEF DeleteDevice, DeviceStatus
<1> QED  BY <1>2, <1>3, <1>4, <1>5, NoRowAssumption

LEMMA PurgeKeeps ==
  ASSUME StepInv, NEW gone \in SUBSET LateCodes
  PROVE  /\ Purged(gone) \in [Codes -> SessionRow \union {NoRow}]
         /\ \A p \in Codes : sessions[p] = NoRow => Purged(gone)[p] = NoRow
         /\ \A p \in Codes : sessions[p] # NoRow =>
              /\ Purged(gone)[p] # NoRow
              /\ Purged(gone)[p].owned = sessions[p].owned
              /\ Purged(gone)[p].state = "pending" => sessions[p].state = "pending"
              /\ Purged(gone)[p].late = sessions[p].late
              /\ Purged(gone)[p].state = "purged" \/ Purged(gone)[p] = sessions[p]
<1>1. sessions \in [Codes -> SessionRow \union {NoRow}]
  BY DEF StepInv, RelayTypeOK
<1>2. ASSUME NEW p \in Codes, sessions[p] # NoRow
      PROVE  /\ Purged(gone)[p] \in SessionRow
             /\ Purged(gone)[p].owned = sessions[p].owned
             /\ Purged(gone)[p].state = "pending" => sessions[p].state = "pending"
             /\ Purged(gone)[p].late = sessions[p].late
             /\ Purged(gone)[p].state = "purged" \/ Purged(gone)[p] = sessions[p]
  <2>1. CASE p \in gone
    <3> DEFINE row == [NewSession EXCEPT !.state = "purged", !.late = TRUE,
                                         !.owned = sessions[p].owned]
    <3>1. sessions[p] \in SessionRow /\ sessions[p].late
      BY <1>1, <1>2, <2>1 DEF LateCodes
    <3>2. row \in SessionRow /\ row.state = "purged" /\ row.late /\ row.owned = sessions[p].owned
      BY <3>1 DEF SessionRow, NewSession
    <3>3. Purged(gone)[p] = row
      BY <2>1 DEF Purged
    <3>4. sessions[p].late = TRUE /\ row.late = TRUE
      BY <3>1, <3>2 DEF SessionRow
    <3> QED  BY <3>2, <3>3, <3>4
  <2>2. CASE p \notin gone
    BY <1>1, <1>2, <2>2 DEF Purged
  <2> QED  BY <2>1, <2>2
<1>3. \A p \in Codes : sessions[p] = NoRow => Purged(gone)[p] = NoRow
  BY DEF Purged, LateCodes
<1>4. Purged(gone) = [p \in Codes |-> Purged(gone)[p]]
  BY DEF Purged
<1> QED  BY <1>2, <1>3, <1>4, NoRowAssumption
-----------------------------------------------------------------------------
(* Every step keeps StepInv.                                               *)
LEMMA EnvironmentInStep ==
  ASSUME StepInv, Environment
  PROVE  StepInv' /\ TablesAdvance
<1>0. NewSession \in SessionRow /\ NewSession.state = "pending" /\ NewSession.owned = FALSE
  BY DEF SessionRow, NewSession
<1>1. ASSUME NEW p \in Codes, Start(p)  PROVE StepInv' /\ TablesAdvance
  <2>1. PICK gone \in SUBSET LateCodes : sessions' = [Purged(gone) EXCEPT ![p] = NewSession]
    BY <1>1 DEF Start
  <2>2. sessions[p] = NoRow /\ UNCHANGED <<devices, creds, calls, history>>
    BY <1>1 DEF Start
  <2>3. /\ sessions' \in [Codes -> SessionRow \union {NoRow}]
        /\ sessions'[p] = NewSession
        /\ \A x \in Codes : x # p => sessions'[x] = Purged(gone)[x]
    BY <1>0, <2>1, PurgeKeeps
  <2>4. RelayTypeOK' /\ RowsInStep' /\ TablesAdvance
    BY <1>0, <2>2, <2>3, PurgeKeeps DEF StepInv, RelayTypeOK, RowsInStep, TablesAdvance
  <2> QED  BY <2>2, <2>4, EnvironmentKeeps
<1>2. ASSUME StartElsewhere  PROVE StepInv' /\ TablesAdvance
  <2>1. PICK gone \in SUBSET LateCodes : sessions' = Purged(gone)
    BY <1>2 DEF StartElsewhere
  <2>2. UNCHANGED <<devices, creds, calls, history>>
    BY <1>2 DEF StartElsewhere
  <2>3. RelayTypeOK' /\ RowsInStep' /\ TablesAdvance
    BY <2>1, <2>2, PurgeKeeps DEF StepInv, RelayTypeOK, RowsInStep, TablesAdvance
  <2> QED  BY <2>2, <2>3, EnvironmentKeeps
<1>3. ASSUME NEW p \in Codes, Lapse(p)  PROVE StepInv' /\ TablesAdvance
  <2> DEFINE row == [sessions[p] EXCEPT !.late = TRUE]
  <2>1. sessions[p] \in SessionRow /\ sessions' = [sessions EXCEPT ![p] = row]
    BY <1>3 DEF Lapse, StepInv, RelayTypeOK
  <2>2. row \in SessionRow /\ row.owned = sessions[p].owned /\ row.state = sessions[p].state
    BY <2>1 DEF SessionRow
  <2>3. sessions[p] # NoRow /\ UNCHANGED <<devices, creds, calls, history>>
    BY <1>3 DEF Lapse
  <2> HIDE DEF row
  <2>4. row.state = "pending" => ~row.owned
    BY <2>2, <2>3 DEF StepInv, RowsInStep
  <2>5. sessions' \in [Codes -> SessionRow \union {NoRow}] /\ RowsInStep' /\ TablesAdvance
    BY <2>1, <2>2, <2>3, <2>4, SessionWrite
  <2>6. RelayTypeOK'
    BY <2>3, <2>5 DEF StepInv, RelayTypeOK
  <2> QED  BY <2>3, <2>5, <2>6, EnvironmentKeeps
<1>4. ASSUME NEW k \in Creds, Expire(k)  PROVE StepInv' /\ TablesAdvance
  <2> DEFINE row == [creds[k] EXCEPT !.status = "expired"]
  <2>1. creds[k] \in CredRow /\ creds' = [creds EXCEPT ![k] = row]
    BY <1>4 DEF Expire, StepInv, RelayTypeOK
  <2>2. row \in CredRow /\ row.device = creds[k].device /\ row.status = "expired"
    BY <2>1 DEF CredRow
  <2>3. creds[k] # NoRow /\ UNCHANGED <<sessions, devices, calls, history>>
    BY <1>4 DEF Expire
  <2> HIDE DEF row
  <2>4. RelayTypeOK' /\ RowsInStep' /\ TablesAdvance
    BY <2>1, <2>2, <2>3, NoRowAssumption DEF StepInv, RelayTypeOK, RowsInStep, TablesAdvance
  <2> QED  BY <2>3, <2>4, EnvironmentKeeps
<1> QED  BY <1>1, <1>2, <1>3, <1>4 DEF Environment

(* The first step of a call.                                               *)
LEMMA BeginKeeps ==
  ASSUME StepInv, NEW c \in Calls, NEW call \in CallState, Begin(c, call), OnlyCalls,
         InStep(call)
  PROVE  StepInv' /\ TablesAdvance
<1>1. /\ calls' \in [Calls -> CallState] /\ calls'[c] = call
      /\ \A x \in Calls : x # c => calls'[x] = calls[x]
  BY BeginFields DEF StepInv, RelayTypeOK
<1>2. RelayTypeOK' /\ RowsInStep' /\ TablesAdvance
  BY <1>1 DEF StepInv, RelayTypeOK, RowsInStep, OnlyCalls, TablesAdvance
<1>3. InStep(calls[c])'
  BY <1>1 DEF InStep, PollInStep, RenewInStep, OtherInStep, HasRows, OnlyCalls
<1> QED  BY <1>1, <1>2, <1>3, StepKeeps

LEMMA BeginsInStep ==
  ASSUME StepInv, NEW c \in Calls, AdminBegins(c) \/ DeviceBegins(c)
  PROVE  StepInv' /\ TablesAdvance
<1>1. ASSUME NEW p \in Codes, AuthorizeRead(c, p)  PROVE StepInv' /\ TablesAdvance
  <2> DEFINE call == [IdleCall EXCEPT !.kind = "authorize", !.pc = "authorize", !.code = p]
  <2>1. /\ call \in CallState /\ call.kind = "authorize" /\ call.pc = "authorize"
        /\ call.code = p /\ call.device = NoRow /\ call.cred = NoRow
    BY DEF CallState, IdleCall, AllKinds
  <2>2. Begin(c, call) /\ OnlyCalls
    BY <1>1 DEF AuthorizeRead
  <2> HIDE DEF call
  <2>3. InStep(call)
    BY <2>1 DEF InStep, PollInStep, RenewInStep, OtherInStep, HasRows
  <2> QED  BY <2>1, <2>2, <2>3, BeginKeeps
<1>2. ASSUME NEW d \in Devices, RotateRead(c, d)  PROVE StepInv' /\ TablesAdvance
  <2> DEFINE call == [IdleCall EXCEPT !.kind = "rotate", !.pc = "read", !.device = d]
  <2>1. /\ call \in CallState /\ call.kind = "rotate" /\ call.pc = "read" /\ call.code = NoRow
        /\ call.device = d /\ call.cred = NoRow /\ call.by = NoRow
    BY DEF CallState, IdleCall, AllKinds
  <2>2. Begin(c, call) /\ OnlyCalls /\ devices[d] = "active"
    BY <1>2 DEF RotateRead
  <2> HIDE DEF call
  <2>3. InStep(call)
    BY <2>1, <2>2 DEF InStep, PollInStep, RenewInStep, OtherInStep, HasRows, RenewPcs, Winning
  <2> QED  BY <2>1, <2>2, <2>3, BeginKeeps
<1>3. ASSUME NEW p \in Codes, PollRead(c, p)  PROVE StepInv' /\ TablesAdvance
  <2> DEFINE call == [IdleCall EXCEPT !.kind = "poll", !.code = p,
                        !.pc = IF Claimable(p) THEN "device" ELSE "expire"]
  <2>1. /\ call \in CallState /\ call.kind = "poll" /\ call.code = p /\ call.by = NoRow
        /\ call.device = NoRow /\ call.cred = NoRow
        /\ \/ call.pc = "expire"
           \/ call.pc = "device" /\ Claimable(p)
    BY DEF CallState, IdleCall, AllKinds
  <2>2. Begin(c, call) /\ OnlyCalls /\ sessions[p] # NoRow
    BY <1>3 DEF PollRead
  <2> HIDE DEF call
  <2>3. InStep(call)
    BY <2>1, <2>2
       DEF InStep, PollInStep, RenewInStep, OtherInStep, HasRows, PollPcs, Holding, Claimable
  <2> QED  BY <2>1, <2>2, <2>3, BeginKeeps
<1>4. ASSUME NEW k \in Creds, RenewRead(c, k)  PROVE StepInv' /\ TablesAdvance
  <2> DEFINE call == [IdleCall EXCEPT !.kind = "renew", !.pc = "read",
                                      !.device = creds[k].device, !.by = k]
  <2>0. creds[k] \in CredRow
    BY <1>4 DEF RenewRead, Authenticates, StepInv, RelayTypeOK
  <2>1. /\ call \in CallState /\ call.kind = "renew" /\ call.pc = "read" /\ call.code = NoRow
        /\ call.device = creds[k].device /\ call.cred = NoRow /\ call.by = k
        /\ call.device \in Devices
    BY <2>0 DEF CallState, IdleCall, AllKinds, CredRow
  <2>2. /\ Begin(c, call) /\ OnlyCalls
        /\ creds[k] # NoRow /\ devices[creds[k].device] = "active"
    BY <1>4 DEF RenewRead, Authenticates
  <2> HIDE DEF call
  <2>3. InStep(call)
    BY <2>1, <2>2, NoIdAssumption
       DEF InStep, PollInStep, RenewInStep, OtherInStep, HasRows, RenewPcs, Winning
  <2> QED  BY <2>1, <2>2, <2>3, BeginKeeps
<1>5. ASSUME NEW d \in Devices, RevokeDevice(c, d)  PROVE StepInv' /\ TablesAdvance
  <2> DEFINE call == [IdleCall EXCEPT !.kind = "revoke", !.pc = "creds", !.device = d]
  <2>1. /\ call \in CallState /\ call.kind = "revoke" /\ call.pc = "creds"
        /\ call.device = d /\ call.cred = NoRow
    BY DEF CallState, IdleCall, AllKinds
  <2>2. /\ Begin(c, call) /\ devices' = [devices EXCEPT ![d] = "revoked"]
        /\ devices[d] = "active" /\ UNCHANGED <<sessions, creds, history>>
    BY <1>5 DEF RevokeDevice
  <2> HIDE DEF call
  <2>3. /\ calls' \in [Calls -> CallState] /\ calls'[c] = call
        /\ \A x \in Calls : x # c => calls'[x] = calls[x]
    BY <2>1, <2>2, BeginFields DEF StepInv, RelayTypeOK
  <2>4. RelayTypeOK' /\ RowsInStep' /\ TablesAdvance
    BY <2>2, <2>3 DEF StepInv, RelayTypeOK, RowsInStep, TablesAdvance, DeviceStatus
  <2>5. InStep(calls[c])'
    BY <2>1, <2>2, <2>3 DEF InStep, PollInStep, RenewInStep, OtherInStep, HasRows,
                            StepInv, RelayTypeOK
  <2> QED  BY <2>3, <2>4, <2>5, StepKeeps
<1> QED  BY <1>1, <1>2, <1>3, <1>4, <1>5
         DEF AdminBegins, DeviceBegins, HumanAuthorizes, RevokeForm
(* A call that moves on in the tables as they are.                         *)
LEMMA MoveKeeps ==
  ASSUME StepInv, NEW c \in Calls, NEW pc \in PollPcs \union RenewPcs, Goto(c, pc), OnlyCalls,
         calls[c].kind \in {"poll", "rotate", "renew"},
         calls[c].kind = "poll" =>
           /\ pc \in PollPcs
           /\ pc \notin {"expire", "again"} => sessions[calls[c].code].owned
           /\ pc \in Holding => calls[c].device \in Devices
           /\ pc \in {"device", "expire", "again"} => calls[c].device = NoRow
           /\ pc \notin {"undoDevice", "undoSession"} => calls[c].cred = NoRow,
         calls[c].kind # "poll" =>
           /\ pc \in RenewPcs
           /\ pc \in {"read", "insert"} => calls[c].cred = NoRow
           /\ pc # "answer",
         pc \in {"retire", "unissue", "answer"} => calls[c].cred \in Creds
  PROVE  StepInv' /\ TablesAdvance
<1>1. /\ calls' \in [Calls -> CallState]
      /\ \A x \in Calls : x # c => calls'[x] = calls[x]
      /\ calls'[c].pc = pc
      /\ calls'[c].kind = calls[c].kind
      /\ calls'[c].code = calls[c].code
      /\ calls'[c].device = calls[c].device
      /\ calls'[c].by = calls[c].by
      /\ calls'[c].cred = calls[c].cred
  BY GotoFields DEF StepInv, RelayTypeOK
<1>2. RelayTypeOK' /\ RowsInStep' /\ TablesAdvance
  BY <1>1 DEF StepInv, RelayTypeOK, RowsInStep, OnlyCalls, TablesAdvance
<1>3. InStep(calls[c])
  BY DEF StepInv
<1>4. UNCHANGED <<sessions, devices, creds>>
  BY DEF OnlyCalls
<1>5. PollInStep(calls[c])'
  BY <1>1, <1>3, <1>4 DEF InStep, PollInStep
<1>6. RenewInStep(calls[c])'
  BY <1>1, <1>3, <1>4 DEF InStep, RenewInStep
<1>7. OtherInStep(calls[c])'
  BY <1>1 DEF OtherInStep, PollPcs, RenewPcs, Holding, Winning
<1>8. HasRows(calls[c])'
  BY <1>1, <1>3, <1>4 DEF InStep, HasRows
<1>9. InStep(calls[c])'
  BY <1>5, <1>6, <1>7, <1>8 DEF InStep
<1> QED  BY <1>1, <1>2, <1>9, StepKeeps

(* The kind of a call is told by the step it is at.                        *)
LEMMA KindAtStep ==
  ASSUME StepInv, NEW c \in Calls
  PROVE  /\ calls[c] \in CallState /\ InStep(calls[c])
         /\ At(c, "authorize") => calls[c].kind = "authorize"
         /\ calls[c].pc \in PollPcs \ Winning => calls[c].kind = "poll"
         /\ calls[c].pc \in Winning => calls[c].kind \in {"poll", "rotate", "renew"}
         /\ calls[c].pc \in {"retire", "unissue"} => calls[c].kind \in {"rotate", "renew"}
         /\ At(c, "creds") => calls[c].kind = "revoke"
<1>1. calls[c] \in CallState /\ InStep(calls[c])
  BY DEF StepInv, RelayTypeOK
<1>2. calls[c].kind \in {"authorize", "poll", "rotate", "renew", "revoke", "idle"}
  BY <1>1 DEF CallState, AllKinds
<1> QED  BY <1>1, <1>2 DEF At, InStep, PollInStep, RenewInStep, OtherInStep, PollPcs, RenewPcs,
                           Holding, Winning

(* The steps that end a call or write its session.                         *)
LEMMA SessionStepKeeps ==
  ASSUME StepInv, NEW c \in Calls, NEW p \in Codes, NEW row \in SessionRow,
         sessions' = [sessions EXCEPT ![p] = row], sessions[p] # NoRow,
         sessions[p].owned => row.owned, row.state = "pending" => ~row.owned,
         End(c), UNCHANGED <<devices, creds, delivered>>, reopened' \subseteq Codes
  PROVE  StepInv' /\ TablesAdvance
<1>1. /\ calls' \in [Calls -> CallState] /\ calls'[c] = IdleCall
      /\ \A x \in Calls : x # c => calls'[x] = calls[x]
  BY EndFields DEF StepInv, RelayTypeOK
<1>2. sessions' \in [Codes -> SessionRow \union {NoRow}] /\ RowsInStep' /\ TablesAdvance
  BY SessionWrite
<1>3. RelayTypeOK'
  BY <1>1, <1>2 DEF StepInv, RelayTypeOK
<1>4. InStep(calls[c])'
  BY <1>1, IdleFields DEF InStep, PollInStep, RenewInStep, OtherInStep, HasRows
<1> QED  BY <1>1, <1>2, <1>3, <1>4, StepKeeps

LEMMA AuthorizeInStep ==
  ASSUME StepInv, NEW c \in Calls, Authorize(c)
  PROVE  StepInv' /\ TablesAdvance
<1> DEFINE p == calls[c].code
           row == [sessions[p] EXCEPT !.state = "authorized", !.owned = TRUE]
<1>1. p \in Codes
  BY KindAtStep DEF Authorize, InStep, OtherInStep
<1>2. CASE CodeOpen(p)
  <2>1. sessions[p] # NoRow /\ sessions[p] \in SessionRow
    BY <1>1, <1>2 DEF CodeOpen, StepInv, RelayTypeOK
  <2>2. row \in SessionRow /\ row.state = "authorized" /\ row.owned = TRUE
    BY <2>1 DEF SessionRow
  <2>3. sessions' = [sessions EXCEPT ![p] = row]
    BY <1>2, <2>1 DEF Authorize
  <2>4. End(c) /\ UNCHANGED <<devices, creds, delivered, reopened>> /\ reopened \subseteq Codes
    BY DEF Authorize, StepInv, RelayTypeOK
  <2> HIDE DEF p, row
  <2> QED  BY <1>1, <2>1, <2>2, <2>3, <2>4, SessionStepKeeps
<1>3. CASE ~CodeOpen(p)
  BY <1>3, EndKeeps DEF Authorize, OnlyCalls
<1> QED  BY <1>2, <1>3

LEMMA PollExpireInStep ==
  ASSUME StepInv, NEW c \in Calls, PollExpire(c)
  PROVE  StepInv' /\ TablesAdvance
<1> DEFINE p == calls[c].code
           row == [sessions[p] EXCEPT !.state = "expired"]
<1>1. p \in Codes /\ sessions[p] # NoRow /\ sessions[p] \in SessionRow
  BY KindAtStep DEF PollExpire, At, PollPcs, Winning, InStep, PollInStep, StepInv, RelayTypeOK
<1>2. CASE sessions[p].state # "purged"
  <2>1. row \in SessionRow /\ row.state = "expired" /\ row.owned = sessions[p].owned
    BY <1>1 DEF SessionRow
  <2>2. sessions' = [sessions EXCEPT ![p] = row]
    BY <1>2 DEF PollExpire
  <2>3. End(c) /\ UNCHANGED <<devices, creds, delivered, reopened>> /\ reopened \subseteq Codes
    BY DEF PollExpire, StepInv, RelayTypeOK
  <2> HIDE DEF p, row
  <2> QED  BY <1>1, <2>1, <2>2, <2>3, SessionStepKeeps
<1>3. CASE sessions[p].state = "purged"
  BY <1>3, EndKeeps DEF PollExpire, OnlyCalls
<1> QED  BY <1>2, <1>3

LEMMA UndoSessionInStep ==
  ASSUME StepInv, NEW c \in Calls, UndoSession(c)
  PROVE  StepInv' /\ TablesAdvance
<1> DEFINE p == calls[c].code
           row == [sessions[p] EXCEPT !.consumed = FALSE, !.device = NoRow]
<1>1. p \in Codes /\ sessions[p] # NoRow /\ sessions[p] \in SessionRow
  BY KindAtStep DEF UndoSession, At, PollPcs, Winning, InStep, PollInStep, StepInv, RelayTypeOK
<1>2. row \in SessionRow /\ row.state = sessions[p].state /\ row.owned = sessions[p].owned
  BY <1>1 DEF SessionRow
<1>3. sessions' = [sessions EXCEPT ![p] = row]
  BY <1>1 DEF UndoSession
<1>4. row.state = "pending" => ~row.owned
  BY <1>1, <1>2 DEF StepInv, RowsInStep
<1>5. End(c) /\ UNCHANGED <<devices, creds, delivered>> /\ reopened' \subseteq Codes
  BY <1>1 DEF UndoSession, StepInv, RelayTypeOK
<1> HIDE DEF p, row
<1> QED  BY <1>1, <1>2, <1>3, <1>4, <1>5, SessionStepKeeps

LEMMA PollAgainInStep ==
  ASSUME StepInv, NEW c \in Calls, PollAgain(c)
  PROVE  StepInv' /\ TablesAdvance
<1>1. /\ calls[c].kind = "poll" /\ InStep(calls[c]) /\ calls[c].pc = "again" /\ OnlyCalls
  BY KindAtStep DEF PollAgain, At, PollPcs, Winning
<1>2. calls[c].device = NoRow /\ calls[c].cred = NoRow
  BY <1>1 DEF InStep, PollInStep, PollPcs
<1>3. CASE Claimable(calls[c].code)
  <2>1. Goto(c, "device") /\ sessions[calls[c].code].owned
    BY <1>3 DEF PollAgain, Claimable, Expirable
  <2> QED  BY <1>1, <1>2, <2>1, MoveKeeps DEF PollPcs, Holding
<1>4. CASE Expirable(calls[c].code) /\ ~Claimable(calls[c].code)
  <2>1. Goto(c, "expire")
    BY <1>4 DEF PollAgain
  <2> QED  BY <1>1, <1>2, <2>1, MoveKeeps DEF PollPcs, Holding
<1>5. CASE ~Expirable(calls[c].code) /\ ~Claimable(calls[c].code)
  BY <1>1, <1>5, EndKeeps DEF PollAgain
<1> QED  BY <1>3, <1>4, <1>5

LEMMA PollDeviceInStep ==
  ASSUME StepInv, NEW c \in Calls, NEW d \in Devices, PollDevice(c, d)
  PROVE  StepInv' /\ TablesAdvance
<1> DEFINE new == [calls[c] EXCEPT !.pc = "claim", !.device = d]
<1>1. calls[c].kind = "poll" /\ InStep(calls[c]) /\ calls[c] \in CallState /\ calls[c].pc = "device"
  BY KindAtStep DEF PollDevice, At, PollPcs, Winning
<1>2. /\ new \in CallState /\ new.kind = "poll" /\ new.pc = "claim" /\ new.device = d
      /\ new.code = calls[c].code /\ new.by = calls[c].by /\ new.cred = calls[c].cred
  BY <1>1 DEF CallState
<1>3. /\ calls' = [calls EXCEPT ![c] = new] /\ devices[d] = "unused"
      /\ devices' = [devices EXCEPT ![d] = "active"] /\ UNCHANGED <<sessions, creds, history>>
  BY DEF PollDevice
<1> HIDE DEF new
<1>4. /\ calls' \in [Calls -> CallState] /\ calls'[c] = new
      /\ \A x \in Calls : x # c => calls'[x] = calls[x]
  BY <1>2, <1>3 DEF StepInv, RelayTypeOK
<1>5. RelayTypeOK' /\ RowsInStep' /\ TablesAdvance
  BY <1>3, <1>4 DEF StepInv, RelayTypeOK, RowsInStep, TablesAdvance, DeviceStatus
<1>6. new.cred = NoRow /\ new.code \in Codes /\ new.by = NoRow
      /\ sessions[new.code] # NoRow /\ sessions[new.code].owned
  BY <1>1, <1>2 DEF InStep, PollInStep, PollPcs, Holding
<1>7. devices'[d] = "active"
  BY <1>3 DEF StepInv, RelayTypeOK
<1>8. InStep(calls[c])'
  BY <1>2, <1>3, <1>4, <1>6, <1>7
     DEF InStep, PollInStep, RenewInStep, OtherInStep, HasRows, PollPcs, Holding
<1> QED  BY <1>4, <1>5, <1>8, StepKeeps

LEMMA PollClaimInStep ==
  ASSUME StepInv, NEW c \in Calls, PollClaim(c)
  PROVE  StepInv' /\ TablesAdvance
<1> DEFINE p == calls[c].code
           row == [sessions[p] EXCEPT !.consumed = TRUE, !.device = calls[c].device]
<1>1. calls[c].kind = "poll" /\ InStep(calls[c]) /\ calls[c].pc = "claim"
  BY KindAtStep DEF PollClaim, At, PollPcs, Winning, Holding
<1>2. /\ p \in Codes /\ sessions[p] # NoRow /\ sessions[p] \in SessionRow /\ sessions[p].owned
      /\ calls[c].device \in Devices /\ calls[c].cred = NoRow /\ calls[c].by = NoRow
  BY <1>1 DEF InStep, PollInStep, PollPcs, Holding, StepInv, RelayTypeOK
<1>3. CASE Unclaimed(p)
  <2>1. row \in SessionRow /\ row.state = sessions[p].state /\ row.owned = sessions[p].owned
    BY <1>2 DEF SessionRow
  <2>2. sessions' = [sessions EXCEPT ![p] = row] /\ Goto(c, "read")
        /\ UNCHANGED <<devices, creds, history>>
    BY <1>2, <1>3 DEF PollClaim, Claimant
  <2>3. row.state = "pending" => ~row.owned
    BY <1>2, <2>1 DEF StepInv, RowsInStep
  <2> HIDE DEF p, row
  <2>4. sessions' \in [Codes -> SessionRow \union {NoRow}] /\ RowsInStep' /\ TablesAdvance
    BY <1>2, <2>1, <2>2, <2>3, SessionWrite
  <2>5. /\ calls' \in [Calls -> CallState]
        /\ \A x \in Calls : x # c => calls'[x] = calls[x]
        /\ calls'[c].pc = "read" /\ calls'[c].kind = "poll" /\ calls'[c].code = p
        /\ calls'[c].device = calls[c].device /\ calls'[c].by = NoRow /\ calls'[c].cred = NoRow
    BY <1>1, <1>2, <2>2, GotoFields DEF StepInv, RelayTypeOK, RenewPcs, Winning, p
  <2>6. RelayTypeOK'
    BY <2>2, <2>4, <2>5 DEF StepInv, RelayTypeOK
  <2>7. devices'[calls[c].device] # "unused"
    BY <1>1, <1>2, <2>2, NoIdAssumption DEF InStep, HasRows
  <2>8. InStep(calls[c])'
    BY <1>2, <2>4, <2>5, <2>7
       DEF InStep, PollInStep, RenewInStep, OtherInStep, HasRows, PollPcs, Holding, TablesAdvance
  <2> QED  BY <2>4, <2>5, <2>6, <2>8, StepKeeps
<1>4. CASE ~Unclaimed(p)
  <2>1. Goto(c, "discard") /\ OnlyCalls
    BY <1>4 DEF PollClaim, OnlyCalls
  <2> QED  BY <1>1, <1>2, <2>1, MoveKeeps DEF PollPcs, Holding
<1> QED  BY <1>3, <1>4
LEMMA DeleteKeeps ==
  ASSUME StepInv, NEW d \in Devices, DeleteDevice(d), UNCHANGED <<sessions, history>>,
         calls' \in [Calls -> CallState]
  PROVE  RelayTypeOK' /\ RowsInStep' /\ TablesAdvance
<1>1. RelayTypeOK' /\ TablesAdvance
  BY DeleteFields DEF StepInv, RelayTypeOK, TablesAdvance, DeviceStatus
<1>2. ASSUME NEW k \in Creds, creds'[k] # NoRow  PROVE devices'[creds'[k].device] # "unused"
  <2>1. creds[k] # NoRow /\ creds'[k].device = creds[k].device
    BY <1>2, DeleteFields
  <2>2. creds[k].device \in Devices /\ devices[creds[k].device] # "unused"
    BY <2>1 DEF StepInv, RelayTypeOK, CredRow, RowsInStep
  <2> QED  BY <2>1, <2>2, DeleteFields
<1>3. RowsInStep'
  BY <1>2 DEF StepInv, RowsInStep
<1> QED  BY <1>1, <1>3

LEMMA PollDiscardInStep ==
  ASSUME StepInv, NEW c \in Calls, PollDiscard(c)
  PROVE  StepInv' /\ TablesAdvance
<1> DEFINE d == calls[c].device
           new == [calls[c] EXCEPT !.pc = "again", !.device = NoRow]
<1>1. calls[c].kind = "poll" /\ InStep(calls[c]) /\ calls[c] \in CallState /\ calls[c].pc = "discard"
  BY KindAtStep DEF PollDiscard, At, PollPcs, Winning, Holding
<1>2. /\ d \in Devices /\ calls[c].cred = NoRow /\ calls[c].by = NoRow
      /\ calls[c].code \in Codes /\ sessions[calls[c].code] # NoRow
  BY <1>1 DEF InStep, PollInStep, PollPcs, Holding
<1>3. /\ new \in CallState /\ new.kind = "poll" /\ new.pc = "again" /\ new.device = NoRow
      /\ new.code = calls[c].code /\ new.by = NoRow /\ new.cred = NoRow
  BY <1>1, <1>2 DEF CallState
<1>4. calls' = [calls EXCEPT ![c] = new] /\ DeleteDevice(d) /\ UNCHANGED <<sessions, history>>
  BY DEF PollDiscard
<1> HIDE DEF new, d
<1>5. /\ calls' \in [Calls -> CallState] /\ calls'[c] = new
      /\ \A x \in Calls : x # c => calls'[x] = calls[x]
  BY <1>3, <1>4 DEF StepInv, RelayTypeOK
<1>6. RelayTypeOK' /\ RowsInStep' /\ TablesAdvance
  BY <1>2, <1>4, <1>5, DeleteKeeps
<1>7. InStep(calls[c])'
  BY <1>2, <1>3, <1>4, <1>5
     DEF InStep, PollInStep, RenewInStep, OtherInStep, HasRows, PollPcs, Holding
<1> QED  BY <1>5, <1>6, <1>7, StepKeeps

LEMMA UndoDeviceInStep ==
  ASSUME StepInv, NEW c \in Calls, UndoDevice(c)
  PROVE  StepInv' /\ TablesAdvance
<1> DEFINE d == calls[c].device
<1>1. calls[c].kind = "poll" /\ InStep(calls[c]) /\ calls[c] \in CallState /\ calls[c].pc = "undoDevice"
  BY KindAtStep DEF UndoDevice, At, PollPcs, Winning, Holding
<1>2. Goto(c, "undoSession") /\ UNCHANGED <<sessions, history>>
  BY DEF UndoDevice
<1>3. CASE d = NoRow
  <2>1. OnlyCalls
    BY <1>2, <1>3 DEF UndoDevice, OnlyCalls
  <2>2. sessions[calls[c].code].owned
    BY <1>1 DEF InStep, PollInStep
  <2> QED  BY <1>1, <1>2, <2>1, <2>2, MoveKeeps DEF PollPcs, Holding
<1>4. CASE d # NoRow
  <2>1. d \in Devices /\ DeleteDevice(d)
    BY <1>1, <1>4 DEF CallState, UndoDevice
  <2>2. /\ calls' \in [Calls -> CallState]
        /\ \A x \in Calls : x # c => calls'[x] = calls[x]
        /\ calls'[c].pc = "undoSession" /\ calls'[c].kind = "poll" /\ calls'[c].code = calls[c].code
        /\ calls'[c].device = d /\ calls'[c].by = calls[c].by /\ calls'[c].cred = calls[c].cred
    BY <1>1, <1>2, GotoFields DEF StepInv, RelayTypeOK, PollPcs
  <2>3. calls[c].cred \in Creds \union {NoRow}
    BY <1>1 DEF CallState
  <2>4. RelayTypeOK' /\ RowsInStep' /\ TablesAdvance
    BY <1>2, <2>1, <2>2, DeleteKeeps
  <2>5. PollInStep(calls[c])'
    BY <1>1, <1>2, <2>2 DEF InStep, PollInStep, PollPcs, Holding
  <2>6. HasRows(calls[c])'
    BY <1>1, <2>2, <2>3, <2>4 DEF InStep, HasRows, TablesAdvance, RelayTypeOK, d, CallState
  <2>7. InStep(calls[c])'
    BY <2>2, <2>5, <2>6 DEF InStep, RenewInStep, OtherInStep
  <2> QED  BY <2>2, <2>4, <2>7, StepKeeps
<1> QED  BY <1>3, <1>4

LEMMA IssueReadInStep ==
  ASSUME StepInv, NEW c \in Calls, IssueRead(c)
  PROVE  StepInv' /\ TablesAdvance
<1>1. PICK g \in 0..Cardinality(Creds) :
        calls' = [calls EXCEPT ![c].pc = "insert", ![c].generation = g + 1]
  BY DEF IssueRead
<1> DEFINE new == [calls[c] EXCEPT !.pc = "insert", !.generation = g + 1]
<1>2. /\ calls[c].kind \in {"poll", "rotate", "renew"} /\ InStep(calls[c])
      /\ calls[c] \in CallState /\ calls[c].pc = "read"
  BY KindAtStep DEF IssueRead, At, Winning
<1>0. g + 1 \in Nat
  OBVIOUS
<1>3. /\ new \in CallState /\ new.kind = calls[c].kind /\ new.pc = "insert"
      /\ new.device = calls[c].device /\ new.code = calls[c].code
      /\ new.by = calls[c].by /\ new.cred = calls[c].cred
  BY <1>2, <1>0 DEF CallState
<1>4. calls' = [calls EXCEPT ![c] = new] /\ OnlyCalls
  BY <1>1 DEF IssueRead
<1> HIDE DEF new
<1>5. /\ calls' \in [Calls -> CallState] /\ calls'[c] = new
      /\ \A x \in Calls : x # c => calls'[x] = calls[x]
  BY <1>3, <1>4 DEF StepInv, RelayTypeOK
<1>6. RelayTypeOK' /\ RowsInStep' /\ TablesAdvance
  BY <1>4, <1>5 DEF StepInv, RelayTypeOK, RowsInStep, OnlyCalls, TablesAdvance
<1>7. InStep(calls[c])'
  BY <1>2, <1>3, <1>4, <1>5 DEF OnlyCalls,
       InStep, PollInStep, RenewInStep, OtherInStep, HasRows, PollPcs, Holding, RenewPcs, Winning
<1> QED  BY <1>5, <1>6, <1>7, StepKeeps

(* What the insertion writes: a live row of the call's device.             *)
LEMMA InsertFields ==
  ASSUME StepInv, NEW c \in Calls, NEW k \in Creds, IssueInsert(c, k)
  PROVE  /\ creds[k] = NoRow /\ calls[c].device \in Devices
         /\ devices[calls[c].device] \notin {"deleted", "unused"}
         /\ calls[c].kind \in {"poll", "rotate", "renew"} /\ calls[c].pc = "insert"
         /\ creds' \in [Creds -> CredRow \union {NoRow}]
         /\ creds'[k] # NoRow /\ creds'[k].device = calls[c].device /\ creds'[k].status = "live"
         /\ \A x \in Creds : x # k => creds'[x] = creds[x]
         /\ calls' \in [Calls -> CallState]
         /\ \A x \in Calls : x # c => calls'[x] = calls[x]
         /\ calls'[c].kind = calls[c].kind /\ calls'[c].code = calls[c].code
         /\ calls'[c].device = calls[c].device /\ calls'[c].by = calls[c].by
         /\ calls'[c].cred = k
         /\ calls'[c].pc = IF calls[c].kind = "poll" THEN "answer" ELSE "retire"
         /\ UNCHANGED <<sessions, devices, history>>
<1> DEFINE row == [device |-> calls[c].device, generation |-> calls[c].generation,
                   status |-> "live"]
           pc == IF calls[c].kind = "poll" THEN "answer" ELSE "retire"
           new == [calls[c] EXCEPT !.cred = k, !.generation = 0, !.pc = pc]
<1>1. /\ calls[c].kind \in {"poll", "rotate", "renew"} /\ InStep(calls[c])
      /\ calls[c] \in CallState /\ calls[c].pc = "insert"
  BY KindAtStep DEF IssueInsert, At, Winning
<1>2. calls[c].device \in Devices /\ devices[calls[c].device] # "unused"
  BY <1>1, NoIdAssumption DEF InStep, PollInStep, RenewInStep, HasRows, Holding
<1>3. row \in CredRow /\ row.device = calls[c].device /\ row.status = "live"
  BY <1>1, <1>2 DEF CallState, CredRow
<1>4. pc \in {"answer", "retire"}
  OBVIOUS
<1> HIDE DEF pc
<1>5. /\ new \in CallState /\ new.kind = calls[c].kind /\ new.pc = pc
      /\ new.device = calls[c].device /\ new.code = calls[c].code
      /\ new.by = calls[c].by /\ new.cred = k
  BY <1>1, <1>4 DEF CallState
<1>6. /\ creds[k] = NoRow /\ devices[calls[c].device] # "deleted"
      /\ creds' = [creds EXCEPT ![k] = row] /\ calls' = [calls EXCEPT ![c] = new]
      /\ UNCHANGED <<sessions, devices, history>>
  BY DEF IssueInsert, pc
<1> HIDE DEF row, new
<1>7. /\ creds' \in [Creds -> CredRow \union {NoRow}] /\ creds'[k] = row
      /\ \A x \in Creds : x # k => creds'[x] = creds[x]
  BY <1>3, <1>6 DEF StepInv, RelayTypeOK
<1>8. /\ calls' \in [Calls -> CallState] /\ calls'[c] = new
      /\ \A x \in Calls : x # c => calls'[x] = calls[x]
  BY <1>5, <1>6 DEF StepInv, RelayTypeOK
<1> QED  BY <1>1, <1>2, <1>3, <1>5, <1>6, <1>7, <1>8, NoRowAssumption DEF pc

LEMMA IssueInsertInStep ==
  ASSUME StepInv, NEW c \in Calls, NEW k \in Creds, IssueInsert(c, k)
  PROVE  StepInv' /\ TablesAdvance
<1>1. InStep(calls[c])
  BY DEF StepInv
<1>2. RelayTypeOK'
  BY InsertFields DEF StepInv, RelayTypeOK
<1>3. RowsInStep'
  BY InsertFields DEF StepInv, RowsInStep
<1>4. TablesAdvance
  BY InsertFields DEF TablesAdvance
<1>5. PollInStep(calls[c])'
  BY <1>1, InsertFields DEF InStep, PollInStep, PollPcs, Holding
<1>6. RenewInStep(calls[c])'
  <2>1. CASE calls[c].kind \in {"rotate", "renew"}
    BY <1>1, <2>1, InsertFields DEF InStep, RenewInStep, RenewPcs
  <2>2. CASE calls[c].kind = "poll"
    BY <2>2, InsertFields DEF RenewInStep
  <2> QED  BY <2>1, <2>2, InsertFields
<1>7. OtherInStep(calls[c])' /\ HasRows(calls[c])'
  BY InsertFields DEF OtherInStep, HasRows
<1>8. InStep(calls[c])'
  BY <1>5, <1>6, <1>7 DEF InStep
<1> QED  BY <1>2, <1>3, <1>4, <1>8, StepKeeps, InsertFields

LEMMA RetireFields ==
  ASSUME StepInv, NEW c \in Calls, IssueRetire(c)
  PROVE  /\ calls[c].kind \in {"rotate", "renew"} /\ calls[c].pc = "retire"
         /\ calls[c].cred \in Creds
         /\ RevokeAll(CredsOf(calls[c].device) \ {calls[c].cred})
         /\ \A k \in CredsOf(calls[c].device) \ {calls[c].cred} : k \in Creds /\ creds[k] # NoRow
         /\ Goto(c, "answer") /\ UNCHANGED <<sessions, devices, history>>
<1>1. /\ calls[c].kind \in {"rotate", "renew"} /\ calls[c].pc = "retire" /\ calls[c].cred \in Creds
  BY KindAtStep DEF IssueRetire, At, InStep, HasRows
<1> QED  BY <1>1 DEF IssueRetire, CredsOf

LEMMA IssueRetireInStep ==
  ASSUME StepInv, NEW c \in Calls, IssueRetire(c)
  PROVE  StepInv' /\ TablesAdvance
<1> DEFINE ks == CredsOf(calls[c].device) \ {calls[c].cred}
<1>1. /\ calls[c].kind \in {"rotate", "renew"} /\ calls[c].pc = "retire"
      /\ calls[c].cred \in Creds /\ InStep(calls[c])
      /\ RevokeAll(ks) /\ Goto(c, "answer") /\ UNCHANGED <<sessions, devices, history>>
  BY RetireFields DEF StepInv
<1>2. /\ calls' \in [Calls -> CallState]
      /\ \A x \in Calls : x # c => calls'[x] = calls[x]
      /\ calls'[c].pc = "answer" /\ calls'[c].kind = calls[c].kind
      /\ calls'[c].code = calls[c].code /\ calls'[c].device = calls[c].device
      /\ calls'[c].by = calls[c].by /\ calls'[c].cred = calls[c].cred
  BY <1>1, GotoFields DEF StepInv, RelayTypeOK, RenewPcs, Winning
<1>3. \A k \in ks : k \in Creds /\ creds[k] # NoRow
  BY RetireFields
<1>4. calls[c].kind = "renew" => calls[c].by \in ks
  BY <1>1 DEF InStep, RenewInStep, CredsOf
<1> HIDE DEF ks
<1>5. /\ creds' \in [Creds -> CredRow \union {NoRow}]
      /\ \A k \in Creds : creds[k] = NoRow => creds'[k] = NoRow
      /\ \A k \in Creds : creds[k] # NoRow =>
           /\ creds'[k] # NoRow
           /\ creds'[k].device = creds[k].device
           /\ creds'[k].status = "live" => creds[k].status = "live" /\ k \notin ks
  BY <1>1, <1>3, RevokeFields
<1>6. RelayTypeOK' /\ RowsInStep' /\ TablesAdvance
  BY <1>1, <1>2, <1>5 DEF StepInv, RelayTypeOK, RowsInStep, TablesAdvance
<1>7. PollInStep(calls[c])' /\ OtherInStep(calls[c])'
  BY <1>1, <1>2 DEF PollInStep, OtherInStep
<1>8. RenewInStep(calls[c])'
  BY <1>1, <1>2, <1>4, <1>5 DEF InStep, RenewInStep, RenewPcs, Winning
<1>9. HasRows(calls[c])'
  BY <1>1, <1>2, <1>5 DEF InStep, HasRows
<1>10. InStep(calls[c])'
  BY <1>7, <1>8, <1>9 DEF InStep
<1> QED  BY <1>2, <1>6, <1>10, StepKeeps

LEMMA RevokeCredsInStep ==
  ASSUME StepInv, NEW c \in Calls, RevokeCreds(c)
  PROVE  StepInv' /\ TablesAdvance
<1> DEFINE ks == CredsOf(calls[c].device)
<1>1. RevokeAll(ks) /\ End(c) /\ UNCHANGED <<sessions, devices, history>>
  BY DEF RevokeCreds
<1>2. \A k \in ks : k \in Creds /\ creds[k] # NoRow
  BY DEF CredsOf
<1> HIDE DEF ks
<1>3. /\ calls' \in [Calls -> CallState] /\ calls'[c] = IdleCall
      /\ \A x \in Calls : x # c => calls'[x] = calls[x]
  BY <1>1, EndFields DEF StepInv, RelayTypeOK
<1>4. RelayTypeOK' /\ RowsInStep' /\ TablesAdvance
  BY <1>1, <1>2, <1>3, RevokeFields DEF StepInv, RelayTypeOK, RowsInStep, TablesAdvance
<1>5. InStep(calls[c])'
  BY <1>3, IdleFields DEF InStep, PollInStep, RenewInStep, OtherInStep, HasRows
<1> QED  BY <1>3, <1>4, <1>5, StepKeeps

LEMMA IssueUndoInStep ==
  ASSUME StepInv, NEW c \in Calls, IssueUndo(c)
  PROVE  StepInv' /\ TablesAdvance
<1> DEFINE k == calls[c].cred
           row == [creds[k] EXCEPT !.status = "deleted"]
<1>1. k \in Creds /\ creds[k] # NoRow /\ creds[k] \in CredRow
  BY KindAtStep, NoIdAssumption DEF IssueUndo, At, InStep, HasRows, StepInv, RelayTypeOK
<1>2. row \in CredRow /\ row.device = creds[k].device /\ row.status = "deleted"
  BY <1>1 DEF CredRow
<1>3. creds' = [creds EXCEPT ![k] = row] /\ End(c) /\ UNCHANGED <<sessions, devices, history>>
  BY DEF IssueUndo
<1> HIDE DEF k, row
<1>4. /\ calls' \in [Calls -> CallState] /\ calls'[c] = IdleCall
      /\ \A x \in Calls : x # c => calls'[x] = calls[x]
  BY <1>3, EndFields DEF StepInv, RelayTypeOK
<1>5. RelayTypeOK' /\ RowsInStep' /\ TablesAdvance
  BY <1>1, <1>2, <1>3, <1>4, NoRowAssumption
     DEF StepInv, RelayTypeOK, RowsInStep, TablesAdvance
<1>6. InStep(calls[c])'
  BY <1>4, IdleFields DEF InStep, PollInStep, RenewInStep, OtherInStep, HasRows
<1> QED  BY <1>4, <1>5, <1>6, StepKeeps

LEMMA AnswerFields ==
  ASSUME StepInv, NEW c \in Calls, Answer(c)
  PROVE  /\ calls[c].kind \in {"poll", "rotate", "renew"} /\ calls[c].pc = "answer"
         /\ calls[c].cred \in Creds /\ creds[calls[c].cred] # NoRow
         /\ [code |-> calls[c].code, by |-> calls[c].by, cred |-> calls[c].cred] \in Delivery
         /\ calls' \in [Calls -> CallState] /\ calls'[c] = IdleCall
         /\ \A x \in Calls : x # c => calls'[x] = calls[x]
         /\ UNCHANGED <<sessions, devices, creds, reopened>>
<1>1. /\ calls[c].kind \in {"poll", "rotate", "renew"} /\ calls[c].pc = "answer"
      /\ calls[c] \in CallState /\ InStep(calls[c])
  BY KindAtStep DEF Answer, At, Winning
<1>2. calls[c].cred \in Creds /\ creds[calls[c].cred] # NoRow
  BY <1>1, NoIdAssumption DEF InStep, HasRows
<1>3. [code |-> calls[c].code, by |-> calls[c].by, cred |-> calls[c].cred] \in Delivery
  BY <1>1, <1>2 DEF CallState, Delivery
<1>4. /\ calls' \in [Calls -> CallState] /\ calls'[c] = IdleCall
      /\ \A x \in Calls : x # c => calls'[x] = calls[x]
  BY EndFields DEF Answer, StepInv, RelayTypeOK
<1> QED  BY <1>1, <1>2, <1>3, <1>4 DEF Answer

LEMMA AnswerInStep ==
  ASSUME StepInv, NEW c \in Calls, Answer(c)
  PROVE  StepInv' /\ TablesAdvance
<1>1. RelayTypeOK' /\ RowsInStep' /\ TablesAdvance
  BY AnswerFields DEF Answer, StepInv, RelayTypeOK, RowsInStep, TablesAdvance
<1>2. InStep(calls[c])'
  BY AnswerFields, IdleFields DEF InStep, PollInStep, RenewInStep, OtherInStep, HasRows
<1> QED  BY <1>1, <1>2, StepKeeps, AnswerFields

(* Where a refused statement takes a call: into its catch block, or out.   *)
LEMMA RefusedMoves ==
  ASSUME StepInv, NEW c \in Calls, Refused(c)
  PROVE  \/ /\ calls[c].kind = "poll" /\ Goto(c, "undoDevice")
            /\ calls[c].pc \notin {"expire", "again"}
         \/ /\ calls[c].kind \in {"rotate", "renew"} /\ At(c, "retire") /\ Goto(c, "unissue")
         \/ End(c)
<1>1. calls[c] \in CallState /\ InStep(calls[c])
  BY KindAtStep
<1>2. CASE calls[c].kind = "poll" /\ calls[c].pc \in Issuing \union {"device", "claim", "discard"}
  <2>1. Goto(c, "undoDevice")
    BY <1>2 DEF Refused
  <2> QED  BY <1>2, <2>1
<1>3. CASE calls[c].kind # "poll" /\ At(c, "retire")
  <2>1. Goto(c, "unissue") /\ calls[c].kind \in {"rotate", "renew"}
    BY <1>3, KindAtStep DEF Refused, At
  <2> QED  BY <1>3, <2>1
<1>4. CASE /\ ~(calls[c].kind = "poll" /\ calls[c].pc \in Issuing \union {"device", "claim", "discard"})
           /\ ~(calls[c].kind # "poll" /\ At(c, "retire"))
  BY <1>4 DEF Refused
<1> QED  BY <1>2, <1>3, <1>4

LEMMA RefusedInStep ==
  ASSUME StepInv, NEW c \in Calls, Refused(c)
  PROVE  StepInv' /\ TablesAdvance
<1>0. OnlyCalls /\ calls[c] \in CallState /\ InStep(calls[c])
  BY KindAtStep DEF Refused
<1>1. CASE /\ calls[c].kind = "poll" /\ Goto(c, "undoDevice")
           /\ calls[c].pc \notin {"expire", "again"}
  <2>1. sessions[calls[c].code].owned
    BY <1>0, <1>1 DEF InStep, PollInStep
  <2> QED  BY <1>0, <1>1, <2>1, MoveKeeps DEF PollPcs, Holding
<1>2. CASE calls[c].kind \in {"rotate", "renew"} /\ At(c, "retire") /\ Goto(c, "unissue")
  <2>1. calls[c].cred \in Creds
    BY <1>0, <1>2 DEF InStep, HasRows, At
  <2> QED  BY <1>0, <1>2, <2>1, MoveKeeps DEF RenewPcs, Winning
<1>3. CASE End(c)
  BY <1>0, <1>3, EndKeeps
<1> QED  BY <1>1, <1>2, <1>3, RefusedMoves

LEMMA CallStepInStep ==
  ASSUME StepInv, NEW c \in Calls, CallStep(c) \/ Answer(c) \/ CallFails(c)
  PROVE  StepInv' /\ TablesAdvance
<1>1. CASE Authorize(c) \/ PollAgain(c) \/ PollExpire(c) \/ PollClaim(c) \/ PollDiscard(c)
  BY <1>1, AuthorizeInStep, PollAgainInStep, PollExpireInStep, PollClaimInStep, PollDiscardInStep
<1>2. CASE UndoDevice(c) \/ UndoSession(c) \/ \E d \in Devices : PollDevice(c, d)
  BY <1>2, UndoDeviceInStep, UndoSessionInStep, PollDeviceInStep
<1>3. CASE IssueRead(c) \/ (\E k \in Creds : IssueInsert(c, k)) \/ IssueRetire(c) \/ IssueUndo(c)
  BY <1>3, IssueReadInStep, IssueInsertInStep, IssueRetireInStep, IssueUndoInStep
<1>4. CASE RevokeCreds(c) \/ Answer(c) \/ Refused(c)
  BY <1>4, RevokeCredsInStep, AnswerInStep, RefusedInStep
<1>5. CASE IssueOrphaned(c) \/ Crash(c)
  BY <1>5, EndKeeps DEF IssueOrphaned, Crash
<1> QED  BY <1>1, <1>2, <1>3, <1>4, <1>5 DEF CallStep, CallFails

LEMMA NextStepInv ==
  ASSUME StepInv, [RelayNext]_relayVars
  PROVE  StepInv' /\ TablesAdvance
<1>1. CASE Environment
  BY <1>1, EnvironmentInStep
<1>2. ASSUME NEW c \in Calls, AdminBegins(c) \/ DeviceBegins(c)  PROVE StepInv' /\ TablesAdvance
  BY <1>2, BeginsInStep
<1>3. ASSUME NEW c \in Calls, CallStep(c) \/ Answer(c) \/ CallFails(c)
      PROVE  StepInv' /\ TablesAdvance
  BY <1>3, CallStepInStep
<1>4. CASE UNCHANGED relayVars
  <2>1. RelayTypeOK' /\ RowsInStep' /\ TablesAdvance /\ UNCHANGED calls
    BY <1>4 DEF relayVars, StepInv, RelayTypeOK, RowsInStep, TablesAdvance
  <2> QED  BY <2>1, EnvironmentKeeps
<1> QED  BY <1>1, <1>2, <1>3, <1>4 DEF RelayNext

LEMMA InitStepInv == RelayInit => StepInv
<1> SUFFICES ASSUME RelayInit  PROVE StepInv
  OBVIOUS
<1>1. RelayTypeOK
  BY IdleFields DEF RelayInit, RelayTypeOK, DeviceStatus
<1>2. RowsInStep
  BY DEF RelayInit, RowsInStep
<1>3. ASSUME NEW c \in Calls  PROVE InStep(calls[c])
  BY IdleFields DEF RelayInit, InStep, PollInStep, RenewInStep, OtherInStep, HasRows
<1> QED  BY <1>1, <1>2, <1>3 DEF StepInv

LEMMA StepInvariance == RelaySpec => []StepInv
<1>1. StepInv /\ [RelayNext]_relayVars => StepInv'
  BY NextStepInv
<1> QED  BY <1>1, InitStepInv, PTL DEF RelaySpec

(* The tables, the calls in flight and the answers keep their types.       *)
THEOREM RelayTypeCorrect == RelaySpec => []RelayTypeOK
<1>1. StepInv => RelayTypeOK
  BY DEF StepInv
<1> QED  BY <1>1, StepInvariance, PTL

-----------------------------------------------------------------------------
(* Most steps gain the call nothing: it issues no credential, comes to hold *)
(* no device and, but for a claim, to win no code, and answers nobody; and *)
(* what they delete is the call's own.                                     *)
Quiet(c) ==
  /\ \A x \in Calls : x # c => calls'[x] = calls[x]
  /\ calls'[c].cred \in {NoRow, calls[c].cred}
  /\ calls'[c].device # NoRow =>
       \/ calls'[c].device = calls[c].device /\ calls'[c].kind = calls[c].kind
       \/ calls'[c].kind = "revoke"
       \/ calls'[c].kind # "poll" /\ devices[calls'[c].device] = "active"
  /\ ~(calls'[c].kind = "poll" /\ calls'[c].pc = "answer")
  /\ calls'[c].kind = "poll" /\ calls'[c].pc \in Winning =>
       \/ calls[c].kind = "poll" /\ calls[c].pc \in Winning /\ calls'[c].code = calls[c].code
       \/ PollClaim(c)
  /\ \A k \in Creds : creds[k] = NoRow => creds'[k] = NoRow
  /\ UNCHANGED delivered
Mine(c, k) == \/ calls[c].kind = "poll" /\ calls[c].device = creds[k].device
              \/ calls[c].cred = k
Harmless(c) == \A k \in Creds : creds[k] # NoRow /\ Alive(k) /\ ~Mine(c, k) => Alive(k)'

LEMMA SameTablesHarmless ==
  ASSUME NEW c, UNCHANGED <<devices, creds>>
  PROVE  Harmless(c) /\ \A k \in Creds : creds[k] = NoRow => creds'[k] = NoRow
BY DEF Harmless, Alive

LEMMA EndQuiet ==
  ASSUME StepInv, NEW c \in Calls, End(c), UNCHANGED delivered,
         \A k \in Creds : creds[k] = NoRow => creds'[k] = NoRow
  PROVE  Quiet(c)
BY EndFields, IdleFields DEF Quiet, StepInv, RelayTypeOK

LEMMA GotoQuiet ==
  ASSUME StepInv, NEW c \in Calls, NEW pc \in PollPcs \union RenewPcs, Goto(c, pc),
         calls[c].kind = "poll" => pc # "answer" /\ (pc \in Winning => PollClaim(c)),
         UNCHANGED delivered,
         \A k \in Creds : creds[k] = NoRow => creds'[k] = NoRow
  PROVE  Quiet(c)
BY GotoFields DEF Quiet, StepInv, RelayTypeOK

LEMMA BeginQuiet ==
  ASSUME StepInv, NEW c \in Calls, NEW call \in CallState, Begin(c, call), call.cred = NoRow,
         call.kind = "poll" => call.pc \notin Winning, UNCHANGED <<creds, delivered>>,
         call.device # NoRow => \/ call.kind = "revoke"
                                \/ call.kind # "poll" /\ devices[call.device] = "active"
  PROVE  Quiet(c)
BY BeginFields DEF Quiet, StepInv, RelayTypeOK, Winning

LEMMA BeginsQuietly ==
  ASSUME StepInv, NEW c \in Calls, AdminBegins(c) \/ DeviceBegins(c)
  PROVE  Quiet(c) /\ Harmless(c)
<1>1. ASSUME NEW p \in Codes, AuthorizeRead(c, p)  PROVE Quiet(c) /\ Harmless(c)
  <2> DEFINE call == [IdleCall EXCEPT !.kind = "authorize", !.pc = "authorize", !.code = p]
  <2>1. /\ call \in CallState /\ call.kind = "authorize" /\ call.device = NoRow
        /\ call.cred = NoRow
    BY DEF CallState, IdleCall, AllKinds
  <2>2. Begin(c, call) /\ UNCHANGED <<devices, creds, delivered>>
    BY <1>1 DEF AuthorizeRead, OnlyCalls
  <2> HIDE DEF call
  <2> QED  BY <2>1, <2>2, BeginQuiet, SameTablesHarmless
<1>2. ASSUME NEW d \in Devices, RotateRead(c, d)  PROVE Quiet(c) /\ Harmless(c)
  <2> DEFINE call == [IdleCall EXCEPT !.kind = "rotate", !.pc = "read", !.device = d]
  <2>1. call \in CallState /\ call.kind = "rotate" /\ call.device = d /\ call.cred = NoRow
    BY DEF CallState, IdleCall, AllKinds
  <2>2. Begin(c, call) /\ UNCHANGED <<devices, creds, delivered>> /\ devices[d] = "active"
    BY <1>2 DEF RotateRead, OnlyCalls
  <2> HIDE DEF call
  <2> QED  BY <2>1, <2>2, BeginQuiet, SameTablesHarmless
<1>3. ASSUME NEW p \in Codes, PollRead(c, p)  PROVE Quiet(c) /\ Harmless(c)
  <2> DEFINE call == [IdleCall EXCEPT !.kind = "poll", !.code = p,
                        !.pc = IF Claimable(p) THEN "device" ELSE "expire"]
  <2>1. /\ call \in CallState /\ call.device = NoRow /\ call.cred = NoRow
        /\ call.pc \in {"device", "expire"}
    BY DEF CallState, IdleCall, AllKinds
  <2>2. Begin(c, call) /\ UNCHANGED <<devices, creds, delivered>>
    BY <1>3 DEF PollRead, OnlyCalls
  <2> HIDE DEF call
  <2> QED  BY <2>1, <2>2, BeginQuiet, SameTablesHarmless DEF Winning
<1>4. ASSUME NEW k \in Creds, RenewRead(c, k)  PROVE Quiet(c) /\ Harmless(c)
  <2> DEFINE call == [IdleCall EXCEPT !.kind = "renew", !.pc = "read",
                                      !.device = creds[k].device, !.by = k]
  <2>0. creds[k] \in CredRow
    BY <1>4 DEF RenewRead, Authenticates, StepInv, RelayTypeOK
  <2>1. /\ call \in CallState /\ call.kind = "renew" /\ call.device = creds[k].device
        /\ call.cred = NoRow
    BY <2>0 DEF CallState, IdleCall, AllKinds, CredRow
  <2>2. /\ Begin(c, call) /\ UNCHANGED <<devices, creds, delivered>>
        /\ devices[creds[k].device] = "active"
    BY <1>4 DEF RenewRead, Authenticates, OnlyCalls
  <2> HIDE DEF call
  <2> QED  BY <2>1, <2>2, BeginQuiet, SameTablesHarmless
<1>5. ASSUME NEW d \in Devices, RevokeDevice(c, d)  PROVE Quiet(c) /\ Harmless(c)
  <2> DEFINE call == [IdleCall EXCEPT !.kind = "revoke", !.pc = "creds", !.device = d]
  <2>1. call \in CallState /\ call.kind = "revoke" /\ call.device = d /\ call.cred = NoRow
    BY DEF CallState, IdleCall, AllKinds
  <2>2. /\ Begin(c, call) /\ devices' = [devices EXCEPT ![d] = "revoked"]
        /\ UNCHANGED <<creds, delivered>>
    BY <1>5 DEF RevokeDevice
  <2> HIDE DEF call
  <2>3. Quiet(c)
    BY <2>1, <2>2, BeginQuiet
  <2>4. ASSUME NEW k \in Creds, creds[k] # NoRow, Alive(k)  PROVE Alive(k)'
    <3>1. creds[k].device \in Devices
      BY <2>4 DEF StepInv, RelayTypeOK, CredRow
    <3> QED  BY <2>2, <2>4, <3>1 DEF Alive, StepInv, RelayTypeOK
  <2> QED  BY <2>3, <2>4 DEF Harmless
<1> QED  BY <1>1, <1>2, <1>3, <1>4, <1>5
         DEF AdminBegins, DeviceBegins, HumanAuthorizes, RevokeForm

LEMMA SessionStepsQuiet ==
  ASSUME StepInv, NEW c \in Calls,
         Authorize(c) \/ PollAgain(c) \/ PollExpire(c) \/ PollClaim(c) \/ UndoSession(c)
           \/ IssueOrphaned(c) \/ CallFails(c)
  PROVE  Quiet(c) /\ Harmless(c)
<1>1. UNCHANGED <<devices, creds, delivered>>
  BY DEF Authorize, PollAgain, PollExpire, PollClaim, UndoSession, IssueOrphaned, CallFails,
         Crash, Refused, OnlyCalls
<1>2. CASE End(c)
  BY <1>1, <1>2, EndQuiet, SameTablesHarmless
<1>3. \/ End(c)
      \/ \E pc \in {"device", "expire", "read", "discard", "undoDevice", "unissue"} :
           Goto(c, pc) /\ (pc = "read" => PollClaim(c))
  <2>1. CASE PollAgain(c)
    <3>1. CASE Claimable(calls[c].code)
      BY <2>1, <3>1 DEF PollAgain, Claimable, Expirable
    <3>2. CASE Expirable(calls[c].code) /\ ~Claimable(calls[c].code)
      BY <2>1, <3>2 DEF PollAgain
    <3>3. CASE ~Expirable(calls[c].code) /\ ~Claimable(calls[c].code)
      BY <2>1, <3>3 DEF PollAgain
    <3> QED  BY <3>1, <3>2, <3>3
  <2>2. CASE ~PollAgain(c)
    BY <2>2, RefusedMoves DEF Authorize, PollExpire, PollClaim, UndoSession, IssueOrphaned,
                              CallFails, Crash
  <2> QED  BY <2>1, <2>2
<1>4. ASSUME NEW pc \in {"device", "expire", "read", "discard", "undoDevice", "unissue"},
             Goto(c, pc), pc = "read" => PollClaim(c)
      PROVE  Quiet(c) /\ Harmless(c)
  BY <1>1, <1>4, GotoQuiet, SameTablesHarmless DEF PollPcs, RenewPcs, Holding, Winning
<1> QED  BY <1>2, <1>3, <1>4

(* Deleting a device spares the credentials of every other one.            *)
LEMMA DeleteSpares ==
  ASSUME StepInv, NEW c \in Calls, calls[c].kind = "poll", calls[c].device \in Devices,
         DeleteDevice(calls[c].device)
  PROVE  Harmless(c) /\ \A k \in Creds : creds[k] = NoRow => creds'[k] = NoRow
<1>1. ASSUME NEW k \in Creds, creds[k] # NoRow, Alive(k), ~Mine(c, k)  PROVE Alive(k)'
  <2>1. creds[k].device # calls[c].device /\ creds[k].device \in Devices
    BY <1>1 DEF Mine, StepInv, RelayTypeOK, CredRow
  <2> QED  BY <1>1, <2>1, DeleteFields DEF Alive
<1> QED  BY <1>1, DeleteFields DEF Harmless

LEMMA RevokeSpares ==
  ASSUME StepInv, NEW c, NEW ks, \A k \in ks : k \in Creds /\ creds[k] # NoRow, RevokeAll(ks),
         UNCHANGED devices
  PROVE  Harmless(c) /\ \A k \in Creds : creds[k] = NoRow => creds'[k] = NoRow
BY RevokeFields DEF Harmless, Alive

LEMMA DeletionsQuiet ==
  ASSUME StepInv, NEW c \in Calls, PollDiscard(c) \/ UndoDevice(c) \/ IssueUndo(c)
  PROVE  Quiet(c) /\ Harmless(c)
<1>0. calls[c] \in CallState /\ InStep(calls[c])
  BY KindAtStep
<1>1. CASE PollDiscard(c)
  <2> DEFINE new == [calls[c] EXCEPT !.pc = "again", !.device = NoRow]
  <2>1. calls[c].kind = "poll" /\ calls[c].device \in Devices
    BY <1>0, <1>1, KindAtStep DEF PollDiscard, At, PollPcs, Winning, Holding, InStep, PollInStep
  <2>2. /\ new.pc = "again" /\ new.device = NoRow /\ new.cred = calls[c].cred
    BY <1>0 DEF CallState
  <2>3. calls' = [calls EXCEPT ![c] = new] /\ DeleteDevice(calls[c].device) /\ UNCHANGED delivered
    BY <1>1 DEF PollDiscard
  <2> HIDE DEF new
  <2>4. calls'[c] = new /\ \A x \in Calls : x # c => calls'[x] = calls[x]
    BY <2>3 DEF StepInv, RelayTypeOK
  <2> QED  BY <2>1, <2>2, <2>3, <2>4, DeleteSpares DEF Quiet, Winning
<1>2. CASE UndoDevice(c)
  <2>1. calls[c].kind = "poll" /\ Goto(c, "undoSession") /\ UNCHANGED delivered
    BY <1>2, KindAtStep DEF UndoDevice, At, PollPcs, Winning
  <2>2. CASE calls[c].device = NoRow
    <3>1. UNCHANGED <<devices, creds>>
      BY <1>2, <2>2 DEF UndoDevice
    <3> QED  BY <2>1, <3>1, GotoQuiet, SameTablesHarmless DEF PollPcs, Winning
  <2>3. CASE calls[c].device # NoRow
    <3>1. calls[c].device \in Devices /\ DeleteDevice(calls[c].device)
      BY <1>0, <1>2, <2>3 DEF UndoDevice, CallState
    <3> QED  BY <2>1, <3>1, GotoQuiet, DeleteSpares DEF PollPcs, Winning
  <2> QED  BY <2>2, <2>3
<1>3. CASE IssueUndo(c)
  <2> DEFINE row == [creds[calls[c].cred] EXCEPT !.status = "deleted"]
  <2>1. End(c) /\ UNCHANGED <<devices, delivered>> /\ creds' = [creds EXCEPT ![calls[c].cred] = row]
    BY <1>3 DEF IssueUndo
  <2>2. calls[c].cred \in Creds /\ creds[calls[c].cred] # NoRow
    BY <1>0, <1>3, NoIdAssumption DEF IssueUndo, At, InStep, HasRows
  <2> HIDE DEF row
  <2>3. \A k \in Creds : k # calls[c].cred => creds'[k] = creds[k]
    BY <2>1 DEF StepInv, RelayTypeOK
  <2>4. Harmless(c)
    BY <2>1, <2>3 DEF Harmless, Alive, Mine
  <2> QED  BY <2>1, <2>2, <2>3, <2>4, EndQuiet
<1> QED  BY <1>1, <1>2, <1>3

LEMMA IssuesQuiet ==
  ASSUME StepInv, NEW c \in Calls, IssueRead(c) \/ IssueRetire(c) \/ RevokeCreds(c)
  PROVE  Quiet(c) /\ Harmless(c)
<1>0. calls[c] \in CallState /\ InStep(calls[c])
  BY KindAtStep
<1>1. CASE IssueRead(c)
  <2>1. PICK g \in 0..Cardinality(Creds) :
          calls' = [calls EXCEPT ![c].pc = "insert", ![c].generation = g + 1]
    BY <1>1 DEF IssueRead
  <2> DEFINE new == [calls[c] EXCEPT !.pc = "insert", !.generation = g + 1]
  <2>2. /\ new.kind = calls[c].kind /\ new.pc = "insert" /\ new.device = calls[c].device
        /\ new.cred = calls[c].cred /\ new.code = calls[c].code /\ calls[c].pc = "read"
    BY <1>0, <1>1 DEF CallState, IssueRead, At
  <2>3. calls' = [calls EXCEPT ![c] = new] /\ UNCHANGED <<devices, creds, delivered>>
    BY <1>1, <2>1 DEF IssueRead, OnlyCalls
  <2> HIDE DEF new
  <2>4. calls'[c] = new /\ \A x \in Calls : x # c => calls'[x] = calls[x]
    BY <2>3 DEF StepInv, RelayTypeOK
  <2> QED  BY <2>2, <2>3, <2>4, SameTablesHarmless DEF Quiet, Winning
<1>2. CASE IssueRetire(c)
  BY <1>2, RetireFields, RevokeSpares, GotoQuiet DEF RenewPcs, Winning
<1>3. CASE RevokeCreds(c)
  <2>1. \A k \in CredsOf(calls[c].device) : k \in Creds /\ creds[k] # NoRow
    BY DEF CredsOf
  <2>2. RevokeAll(CredsOf(calls[c].device)) /\ End(c) /\ UNCHANGED <<devices, delivered>>
    BY <1>3 DEF RevokeCreds
  <2> QED  BY <2>1, <2>2, RevokeSpares, EndQuiet
<1> QED  BY <1>1, <1>2, <1>3

(* Every step of a call is quiet but the three that create or deliver.     *)
LEMMA StepsQuiet ==
  ASSUME StepInv, NEW c \in Calls,
         AdminBegins(c) \/ DeviceBegins(c) \/ CallStep(c) \/ CallFails(c),
         \A d \in Devices : ~PollDevice(c, d), \A k \in Creds : ~IssueInsert(c, k)
  PROVE  Quiet(c) /\ Harmless(c)
<1>1. CASE AdminBegins(c) \/ DeviceBegins(c)
  BY <1>1, BeginsQuietly
<1>2. CASE CallStep(c) \/ CallFails(c)
  BY <1>2, SessionStepsQuiet, DeletionsQuiet, IssuesQuiet DEF CallStep
<1> QED  BY <1>1, <1>2

-----------------------------------------------------------------------------
(* Every step keeps OwnedInv.                                              *)
LEMMA AnsweringCall ==
  ASSUME StepInv, NEW x \in Calls, calls[x].kind = "poll", calls[x].pc = "answer"
  PROVE  /\ calls[x].cred \in Creds /\ calls[x].device \in Devices /\ calls[x].code \in Codes
         /\ calls[x].by = NoRow
         /\ calls[x].cred # NoRow /\ calls[x].device # NoRow
         /\ creds[calls[x].cred] # NoRow /\ creds[calls[x].cred].device = calls[x].device
BY NoIdAssumption DEF StepInv, InStep, PollInStep, HasRows, Holding

LEMMA DeliveredRow ==
  ASSUME StepInv, NEW r \in delivered
  PROVE  r.cred \in Creds /\ r.by \in Creds \union {NoRow} /\ r.code \in Codes \union {NoRow}
BY DEF StepInv, RelayTypeOK, Delivery

LEMMA QuietOwned ==
  ASSUME StepInv, OwnedInv, TablesAdvance, NEW c \in Calls, Quiet(c), Harmless(c)
  PROVE  OwnedInv'
<1>1. ASSUME NEW c1 \in Calls, NEW c2 \in Calls, c1 # c2
      PROVE  /\ calls'[c1].kind = "poll" /\ calls'[c2].kind = "poll" /\ calls'[c1].device # NoRow
                  => calls'[c1].device # calls'[c2].device
             /\ calls'[c1].cred # NoRow => calls'[c1].cred # calls'[c2].cred
  <2>1. /\ calls[c1].kind = "poll" /\ calls[c2].kind = "poll" /\ calls[c1].device # NoRow
             => calls[c1].device # calls[c2].device
        /\ calls[c1].cred # NoRow => calls[c1].cred # calls[c2].cred
        /\ calls[c2].kind = "poll" /\ calls[c1].kind = "poll" /\ calls[c2].device # NoRow
             => calls[c2].device # calls[c1].device
        /\ calls[c2].cred # NoRow => calls[c2].cred # calls[c1].cred
    BY <1>1 DEF OwnedInv, OneHolder
  <2> QED  BY <1>1, <2>1 DEF Quiet
<1>2. ASSUME NEW x \in Calls, calls'[x].kind = "poll", calls'[x].pc = "answer"
      PROVE  Alive(calls[x].cred)'
  <2>1. x # c /\ calls'[x] = calls[x]
    BY <1>2 DEF Quiet
  <2>2. /\ calls[x].cred \in Creds /\ calls[x].cred # NoRow /\ calls[x].device # NoRow
        /\ creds[calls[x].cred] # NoRow /\ creds[calls[x].cred].device = calls[x].device
    BY <1>2, <2>1, AnsweringCall
  <2>3. Alive(calls[x].cred) /\ ~Mine(c, calls[x].cred)
    BY <1>2, <2>1, <2>2 DEF OwnedInv, OneHolder, Mine
  <2>4. Alive(calls[x].cred)' <=> /\ creds'[calls[x].cred].status # "deleted"
                                  /\ devices'[creds'[calls[x].cred].device] # "deleted"
    BY <2>1 DEF Alive
  <2> QED  BY <2>2, <2>3, <2>4 DEF Harmless, Alive
<1>3. ASSUME NEW r \in delivered  PROVE LetGo(r)'
  <2>1. LetGo(r) /\ r.cred \in Creds /\ r.by \in Creds \union {NoRow}
    BY DeliveredRow DEF OwnedInv
  <2>2. creds'[r.cred] # NoRow /\ creds'[r.cred].device = creds[r.cred].device
    BY <2>1 DEF LetGo, TablesAdvance
  <2>3. \A x \in Calls : calls'[x].cred # r.cred
    BY <2>1, NoIdAssumption DEF LetGo, Quiet
  <2>4. r.by # NoRow => creds'[r.by] # NoRow /\ creds'[r.by].status # "live"
    BY <2>1 DEF LetGo, TablesAdvance
  <2>5. ASSUME r.code # NoRow
        PROVE  /\ Alive(r.cred)'
               /\ \A x \in Calls : calls'[x].kind = "poll" => calls'[x].device # creds'[r.cred].device
    <3>1. ~Mine(c, r.cred) /\ Alive(r.cred)
      BY <2>1, <2>5 DEF LetGo, Mine
    <3>2. creds[r.cred].device \in Devices
      BY <2>1 DEF LetGo, StepInv, RelayTypeOK, CredRow
    <3>3. \A x \in Calls : calls'[x].kind = "poll" => calls'[x].device # creds[r.cred].device
      BY <2>1, <2>5, <3>2, NoIdAssumption DEF LetGo, Quiet
    <3> QED  BY <2>1, <2>2, <3>1, <3>3 DEF LetGo, Harmless
  <2> QED  BY <2>2, <2>3, <2>4, <2>5 DEF LetGo
<1>4. OneHolder'
  BY <1>1 DEF OneHolder
<1> QED  BY <1>2, <1>3, <1>4 DEF OwnedInv, Quiet

LEMMA EnvironmentOwned ==
  ASSUME StepInv, OwnedInv, TablesAdvance, UNCHANGED <<calls, delivered, devices>>,
         \A k \in Creds : creds[k] # NoRow /\ creds[k].status # "deleted"
                            => creds'[k].status # "deleted"
  PROVE  OwnedInv'
<1>1. \A k \in Creds : creds[k] # NoRow /\ Alive(k) => Alive(k)'
  BY DEF Alive, TablesAdvance
<1>2. ASSUME NEW x \in Calls, calls'[x].kind = "poll", calls'[x].pc = "answer"
      PROVE  Alive(calls[x].cred)'
  <2>1. calls[x].cred \in Creds /\ creds[calls[x].cred] # NoRow /\ Alive(calls[x].cred)
    BY <1>2, AnsweringCall DEF OwnedInv
  <2> QED  BY <2>1, <1>1 DEF Alive
<1>3. ASSUME NEW r \in delivered  PROVE LetGo(r)'
  <2>1. LetGo(r) /\ r.cred \in Creds /\ r.by \in Creds \union {NoRow}
    BY DeliveredRow DEF OwnedInv
  <2>2. creds'[r.cred] # NoRow /\ creds'[r.cred].device = creds[r.cred].device
    BY <2>1 DEF LetGo, TablesAdvance
  <2>3. r.by # NoRow => creds'[r.by] # NoRow /\ creds'[r.by].status # "live"
    BY <2>1 DEF LetGo, TablesAdvance
  <2> QED  BY <1>1, <2>1, <2>2, <2>3 DEF LetGo
<1>4. OneHolder'
  BY DEF OwnedInv, OneHolder
<1> QED  BY <1>2, <1>3, <1>4 DEF OwnedInv

LEMMA PollDeviceOwned ==
  ASSUME StepInv, OwnedInv, TablesAdvance, NEW c \in Calls, NEW d \in Devices, PollDevice(c, d)
  PROVE  OwnedInv'
<1> DEFINE new == [calls[c] EXCEPT !.pc = "claim", !.device = d]
<1>1. calls[c].kind = "poll" /\ InStep(calls[c]) /\ calls[c] \in CallState /\ calls[c].pc = "device"
  BY KindAtStep DEF PollDevice, At, PollPcs, Winning
<1>2. new.kind = "poll" /\ new.pc = "claim" /\ new.device = d /\ new.cred = calls[c].cred
  BY <1>1 DEF CallState
<1>3. /\ calls' = [calls EXCEPT ![c] = new] /\ devices[d] = "unused"
      /\ devices' = [devices EXCEPT ![d] = "active"] /\ UNCHANGED <<sessions, creds, history>>
  BY DEF PollDevice
<1> HIDE DEF new
<1>4. calls'[c] = new /\ \A x \in Calls : x # c => calls'[x] = calls[x]
  BY <1>3 DEF StepInv, RelayTypeOK
<1>5. calls[c].cred = NoRow
  BY <1>1 DEF InStep, PollInStep, PollPcs
<1>6. \A x \in Calls : calls[x].device # d
  BY <1>3, NoIdAssumption DEF StepInv, InStep, HasRows
<1>7. \A k \in Creds : creds[k] # NoRow => creds[k].device # d /\ (Alive(k) => Alive(k)')
  BY <1>3 DEF StepInv, RowsInStep, Alive, RelayTypeOK, CredRow
<1>8. OneHolder'
  BY <1>2, <1>4, <1>5, <1>6, NoIdAssumption DEF OwnedInv, OneHolder
<1>9. ASSUME NEW x \in Calls, calls'[x].kind = "poll", calls'[x].pc = "answer"
      PROVE  Alive(calls[x].cred)'
  <2>1. x # c /\ calls'[x] = calls[x]
    BY <1>2, <1>4, <1>9
  <2>2. calls[x].cred \in Creds /\ creds[calls[x].cred] # NoRow /\ Alive(calls[x].cred)
    BY <1>9, <2>1, AnsweringCall DEF OwnedInv
  <2> QED  BY <2>1, <2>2, <1>7 DEF Alive
<1>10. ASSUME NEW r \in delivered  PROVE LetGo(r)'
  <2>1. LetGo(r) /\ r.cred \in Creds
    BY DeliveredRow DEF OwnedInv
  <2> QED  BY <1>2, <1>3, <1>4, <1>5, <1>7, <2>1, NoIdAssumption DEF LetGo
<1> QED  BY <1>3, <1>8, <1>9, <1>10 DEF OwnedInv

LEMMA IssueInsertOwned ==
  ASSUME StepInv, OwnedInv, TablesAdvance, NEW c \in Calls, NEW k \in Creds, IssueInsert(c, k)
  PROVE  OwnedInv'
<1>0. /\ creds[k] = NoRow /\ calls[c].device \in Devices
      /\ devices[calls[c].device] # "deleted"
      /\ creds'[k] # NoRow /\ creds'[k].device = calls[c].device /\ creds'[k].status = "live"
      /\ \A x \in Creds : x # k => creds'[x] = creds[x]
      /\ \A x \in Calls : x # c => calls'[x] = calls[x]
      /\ calls'[c].kind = calls[c].kind /\ calls'[c].device = calls[c].device
      /\ calls'[c].cred = k
      /\ UNCHANGED <<sessions, devices, history>>
  BY InsertFields
<1>1. \A x \in Calls : calls[x].cred # k
  BY <1>0, NoIdAssumption DEF StepInv, InStep, HasRows
<1>2. OneHolder'
  BY <1>0, <1>1 DEF OwnedInv, OneHolder
<1>3. ASSUME NEW x \in Calls, calls'[x].kind = "poll", calls'[x].pc = "answer"
      PROVE  Alive(calls[x].cred)'
  <2>1. CASE x = c
    BY <1>0, <2>1 DEF Alive
  <2>2. CASE x # c
    <3>1. calls'[x] = calls[x] /\ calls[x].cred \in Creds /\ Alive(calls[x].cred)
      BY <1>0, <1>3, <2>2, AnsweringCall DEF OwnedInv
    <3> QED  BY <1>0, <1>1, <3>1 DEF Alive
  <2> QED  BY <2>1, <2>2
<1>4. ASSUME NEW r \in delivered  PROVE LetGo(r)'
  <2>1. LetGo(r) /\ r.cred \in Creds /\ r.by \in Creds \union {NoRow}
    BY DeliveredRow DEF OwnedInv
  <2>2. r.cred # k /\ (r.by # NoRow => r.by # k)
    BY <1>0, <2>1 DEF LetGo
  <2> QED  BY <1>0, <2>1, <2>2 DEF LetGo, Alive
<1> QED  BY <1>0, <1>2, <1>3, <1>4 DEF OwnedInv

LEMMA AnswerOwned ==
  ASSUME StepInv, OwnedInv, TablesAdvance, NEW c \in Calls, Answer(c)
  PROVE  OwnedInv'
<1> DEFINE new == [code |-> calls[c].code, by |-> calls[c].by, cred |-> calls[c].cred]
<1>0. /\ calls[c].kind \in {"poll", "rotate", "renew"} /\ calls[c].pc = "answer"
      /\ calls[c].cred \in Creds /\ creds[calls[c].cred] # NoRow
      /\ calls'[c] = IdleCall
      /\ \A x \in Calls : x # c => calls'[x] = calls[x]
      /\ UNCHANGED <<sessions, devices, creds, reopened>>
      /\ delivered' = delivered \union {new}
      /\ InStep(calls[c])
  BY AnswerFields, KindAtStep DEF Answer
<1>1. new.code = calls[c].code /\ new.by = calls[c].by /\ new.cred = calls[c].cred
  OBVIOUS
<1> HIDE DEF new
<1>2. \A k \in Creds : Alive(k)' <=> Alive(k)
  BY <1>0 DEF Alive
<1>3. OneHolder'
  BY <1>0, IdleFields DEF OwnedInv, OneHolder
<1>4. ASSUME NEW x \in Calls, calls'[x].kind = "poll", calls'[x].pc = "answer"
      PROVE  Alive(calls[x].cred)'
  <2>1. x # c /\ calls'[x] = calls[x]
    BY <1>0, <1>4, IdleFields
  <2> QED  BY <1>0, <1>4, <2>1, AnsweringCall DEF OwnedInv, Alive
<1>5. ASSUME NEW r \in delivered  PROVE LetGo(r)'
  <2>1. LetGo(r) /\ r.cred \in Creds
    BY DeliveredRow DEF OwnedInv
  <2>2. creds[r.cred].device \in Devices
    BY <2>1 DEF LetGo, StepInv, RelayTypeOK, CredRow
  <2> QED  BY <1>0, <1>2, <2>1, <2>2, IdleFields, NoIdAssumption DEF LetGo
<1>6. ASSUME NEW r, r = new  PROVE LetGo(r)'
  <2>0. r.code = calls[c].code /\ r.by = calls[c].by /\ r.cred = calls[c].cred
    BY <1>1, <1>6
  <2>1. creds'[r.cred] # NoRow
    BY <1>0, <2>0
  <2>2. \A x \in Calls : calls'[x].cred # r.cred
    BY <1>0, <2>0, IdleFields, NoIdAssumption DEF OwnedInv, OneHolder
  <2>3. r.by # NoRow => creds'[r.by] # NoRow /\ creds'[r.by].status # "live"
    BY <1>0, <2>0 DEF InStep, RenewInStep, PollInStep
  <2>4. ASSUME r.code # NoRow
        PROVE  /\ Alive(r.cred)'
               /\ \A x \in Calls : calls'[x].kind = "poll" => calls'[x].device # creds'[r.cred].device
    <3>1. calls[c].kind = "poll"
      BY <1>0, <2>0, <2>4 DEF InStep, RenewInStep
    <3>2. Alive(calls[c].cred) /\ calls[c].device # NoRow
          /\ creds[calls[c].cred].device = calls[c].device
      BY <1>0, <3>1, AnsweringCall DEF OwnedInv
    <3>3. Alive(r.cred)'
      BY <1>0, <1>2, <2>0, <3>2
    <3>4. \A x \in Calls : x # c /\ calls[x].kind = "poll" => calls[x].device # calls[c].device
      BY <3>1, <3>2 DEF OwnedInv, OneHolder
    <3> QED  BY <1>0, <2>0, <3>2, <3>3, <3>4, IdleFields
  <2> QED  BY <2>1, <2>2, <2>3, <2>4 DEF LetGo
<1>7. \A r \in delivered' : LetGo(r)'
  BY <1>0, <1>5, <1>6
<1> QED  BY <1>3, <1>4, <1>7 DEF OwnedInv

LEMMA EnvironmentLeaves ==
  ASSUME StepInv, Environment
  PROVE  /\ UNCHANGED <<calls, delivered, reopened, devices>>
         /\ \A k \in Creds : creds[k] = NoRow => creds'[k] = NoRow
         /\ \A k \in Creds : creds[k] # NoRow /\ creds[k].status # "deleted"
                               => creds'[k].status # "deleted"
<1>1. CASE (\E p \in Codes : Start(p) \/ Lapse(p)) \/ StartElsewhere
  BY <1>1 DEF Start, Lapse, StartElsewhere
<1>2. ASSUME NEW k \in Creds, Expire(k)
      PROVE  /\ UNCHANGED <<calls, delivered, reopened, devices>>
             /\ \A x \in Creds : creds[x] = NoRow => creds'[x] = NoRow
             /\ \A x \in Creds : creds[x] # NoRow /\ creds[x].status # "deleted"
                                   => creds'[x].status # "deleted"
  <2> DEFINE row == [creds[k] EXCEPT !.status = "expired"]
  <2>1. creds[k] \in CredRow /\ creds' = [creds EXCEPT ![k] = row]
    BY <1>2 DEF Expire, StepInv, RelayTypeOK
  <2>2. row.status = "expired"
    BY <2>1 DEF CredRow
  <2>3. creds[k] # NoRow /\ UNCHANGED <<sessions, devices, calls, history>>
    BY <1>2 DEF Expire
  <2> HIDE DEF row
  <2> QED  BY <2>1, <2>2, <2>3 DEF StepInv, RelayTypeOK
<1> QED  BY <1>1, <1>2 DEF Environment

LEMMA NextOwnedInv ==
  ASSUME StepInv, OwnedInv, [RelayNext]_relayVars
  PROVE  OwnedInv'
<1>0. TablesAdvance
  BY NextStepInv
<1>1. CASE Environment
  BY <1>0, <1>1, EnvironmentLeaves, EnvironmentOwned
<1>2. ASSUME NEW c \in Calls, NEW d \in Devices, PollDevice(c, d)  PROVE OwnedInv'
  BY <1>0, <1>2, PollDeviceOwned
<1>3. ASSUME NEW c \in Calls, NEW k \in Creds, IssueInsert(c, k)  PROVE OwnedInv'
  BY <1>0, <1>3, IssueInsertOwned
<1>4. ASSUME NEW c \in Calls, Answer(c)  PROVE OwnedInv'
  BY <1>0, <1>4, AnswerOwned
<1>5. ASSUME NEW c \in Calls,
             AdminBegins(c) \/ DeviceBegins(c) \/ CallStep(c) \/ CallFails(c),
             \A d \in Devices : ~PollDevice(c, d), \A k \in Creds : ~IssueInsert(c, k)
      PROVE  OwnedInv'
  BY <1>0, <1>5, StepsQuiet, QuietOwned
<1>6. CASE UNCHANGED relayVars
  BY <1>0, <1>6, EnvironmentOwned DEF relayVars
<1> QED  BY <1>1, <1>2, <1>3, <1>4, <1>5, <1>6 DEF RelayNext

LEMMA InitOwnedInv == RelayInit => OwnedInv
BY IdleFields DEF RelayInit, OwnedInv, OneHolder

LEMMA OwnedInvariance == RelaySpec => []OwnedInv
BY StepInvariance, InitOwnedInv, NextOwnedInv, PTL DEF RelaySpec

(* A device that was handed its credential keeps it: neither a poll that   *)
(* lost the claim nor the catch block of one that failed deletes the       *)
(* credential or its device, under any number of concurrent polls.         *)
THEOREM DeliveredStays == RelaySpec => []DeliveredIsKept
<1>1. OwnedInv => DeliveredIsKept
  BY DEF OwnedInv, LetGo, Alive, DeliveredIsKept
<1> QED  BY <1>1, OwnedInvariance, PTL

(* A device that renewed no longer gets in with the credential it renewed  *)
(* with, whatever other renewals and rotations were under way.             *)
THEOREM RenewedIsRetired == RelaySpec => []RenewalRetires
<1>1. OwnedInv => RenewalRetires
  BY DEF OwnedInv, LetGo, RenewalRetires
<1> QED  BY <1>1, OwnedInvariance, PTL

-----------------------------------------------------------------------------
(* What the steps do to a session: taken, it stays so unless it is given   *)
(* back, and only an authorization gives it an owner.                      *)
KeepsTaken == \A p \in Codes \ reopened' : Taken(p) => Taken(p)'
OwnerOnlyOf(ps) == \A p \in Codes : sessions'[p] # NoRow /\ sessions'[p].owned =>
                     p \in ps \/ (sessions[p] # NoRow /\ sessions[p].owned)

LEMMA SameSessions ==
  ASSUME UNCHANGED sessions
  PROVE  KeepsTaken /\ OwnerOnlyOf({})
BY DEF KeepsTaken, OwnerOnlyOf, Taken, Unclaimed

LEMMA RowEffects ==
  ASSUME StepInv, NEW p \in Codes, NEW row, sessions' = [sessions EXCEPT ![p] = row],
         row # NoRow, sessions[p] # NoRow,
         row.state = sessions[p].state \/ row.state = "expired" \/ row.state = "authorized",
         sessions[p].state = "purged" => row.state = "purged",
         sessions[p].consumed => row.consumed \/ p \in reopened'
  PROVE  /\ KeepsTaken
         /\ OwnerOnlyOf({p})
         /\ (row.owned => sessions[p].owned) => OwnerOnlyOf({})
<1>1. sessions'[p] = row /\ \A x \in Codes : x # p => sessions'[x] = sessions[x]
  BY DEF StepInv, RelayTypeOK
<1>2. ASSUME NEW x \in Codes \ reopened', Taken(x)  PROVE Taken(x)'
  <2>1. CASE x = p
    BY <1>1, <1>2, <2>1 DEF Taken, Unclaimed
  <2>2. CASE x # p
    BY <1>1, <1>2, <2>2 DEF Taken, Unclaimed
  <2> QED  BY <2>1, <2>2
<1> QED  BY <1>1, <1>2 DEF KeepsTaken, OwnerOnlyOf

LEMMA EnvironmentEffects ==
  ASSUME StepInv, Environment
  PROVE  KeepsTaken /\ OwnerOnlyOf({})
<1>0. NewSession.owned = FALSE
  BY DEF NewSession
<1>1. ASSUME NEW p \in Codes, Start(p)  PROVE KeepsTaken /\ OwnerOnlyOf({})
  <2>1. PICK gone \in SUBSET LateCodes : sessions' = [Purged(gone) EXCEPT ![p] = NewSession]
    BY <1>1 DEF Start
  <2>2. sessions[p] = NoRow
    BY <1>1 DEF Start
  <2>3. /\ sessions'[p] = NewSession
        /\ \A x \in Codes : x # p => sessions'[x] = Purged(gone)[x]
    BY <2>1, PurgeKeeps
  <2> QED  BY <1>0, <2>2, <2>3, PurgeKeeps DEF KeepsTaken, OwnerOnlyOf, Taken, Unclaimed
<1>2. ASSUME StartElsewhere  PROVE KeepsTaken /\ OwnerOnlyOf({})
  BY <1>2, PurgeKeeps DEF StartElsewhere, KeepsTaken, OwnerOnlyOf, Taken, Unclaimed
<1>3. ASSUME NEW p \in Codes, Lapse(p)  PROVE KeepsTaken /\ OwnerOnlyOf({})
  <2> DEFINE row == [sessions[p] EXCEPT !.late = TRUE]
  <2>1. sessions[p] \in SessionRow /\ sessions' = [sessions EXCEPT ![p] = row]
        /\ sessions[p] # NoRow
    BY <1>3 DEF Lapse, StepInv, RelayTypeOK
  <2>2. /\ row \in SessionRow /\ row.owned = sessions[p].owned /\ row.state = sessions[p].state
        /\ row.consumed = sessions[p].consumed
    BY <2>1 DEF SessionRow
  <2> HIDE DEF row
  <2> QED  BY <2>1, <2>2, RowEffects, NoRowAssumption
<1>4. ASSUME NEW k \in Creds, Expire(k)  PROVE KeepsTaken /\ OwnerOnlyOf({})
  BY <1>4, SameSessions DEF Expire
<1> QED  BY <1>1, <1>2, <1>3, <1>4 DEF Environment

LEMMA AuthorizeEffects ==
  ASSUME StepInv, NEW c \in Calls, Authorize(c)
  PROVE  /\ KeepsTaken /\ UNCHANGED <<delivered, reopened>> /\ calls[c].code \in Codes
         /\ \/ OwnerOnlyOf({})
            \/ /\ OwnerOnlyOf({calls[c].code})
               /\ sessions[calls[c].code] # NoRow
               /\ ~sessions[calls[c].code].owned /\ ~sessions[calls[c].code].late
               /\ sessions'[calls[c].code] # NoRow /\ sessions'[calls[c].code].owned
<1> DEFINE p == calls[c].code
           row == [sessions[p] EXCEPT !.state = "authorized", !.owned = TRUE]
<1>1. p \in Codes /\ UNCHANGED <<delivered, reopened>>
  BY KindAtStep DEF Authorize, InStep, OtherInStep
<1>2. CASE CodeOpen(p)
  <2>1. /\ sessions[p] # NoRow /\ sessions[p] \in SessionRow /\ sessions[p].state = "pending"
        /\ ~sessions[p].late /\ ~sessions[p].owned /\ ~sessions[p].consumed
    BY <1>1, <1>2 DEF CodeOpen, StepInv, RelayTypeOK, RowsInStep
  <2>2. row \in SessionRow /\ row.state = "authorized" /\ row.owned = TRUE
    BY <2>1 DEF SessionRow
  <2>3. sessions' = [sessions EXCEPT ![p] = row]
    BY <1>2, <2>1 DEF Authorize
  <2> HIDE DEF row
  <2>4. sessions'[p] = row
    BY <1>1, <2>3 DEF StepInv, RelayTypeOK
  <2>5. KeepsTaken /\ OwnerOnlyOf({p})
    BY <1>1, <2>1, <2>2, <2>3, RowEffects, NoRowAssumption
  <2> QED  BY <1>1, <2>1, <2>2, <2>4, <2>5, NoRowAssumption
<1>3. CASE ~CodeOpen(p)
  BY <1>1, <1>3, SameSessions DEF Authorize
<1> QED  BY <1>2, <1>3

LEMMA PollSessionEffects ==
  ASSUME StepInv, NEW c \in Calls, PollExpire(c) \/ PollClaim(c) \/ UndoSession(c)
  PROVE  /\ KeepsTaken /\ OwnerOnlyOf({}) /\ UNCHANGED delivered
         /\ calls[c].code \in Codes
         /\ ~UndoSession(c) => UNCHANGED reopened
         /\ UndoSession(c) => /\ reopened' = reopened \union {calls[c].code}
                              /\ sessions[calls[c].code] # NoRow
                              /\ sessions[calls[c].code].owned
         /\ \A p \in Codes : PollClaim(c) /\ calls[c].code = p /\ Unclaimed(p) => Taken(p)'
<1> DEFINE p == calls[c].code
<1>1. /\ calls[c].kind = "poll" /\ InStep(calls[c])
      /\ p \in Codes /\ sessions[p] # NoRow /\ sessions[p] \in SessionRow
      /\ sessions \in [Codes -> SessionRow \union {NoRow}]
  BY KindAtStep DEF PollExpire, PollClaim, UndoSession, At, PollPcs, Winning, Holding,
                    InStep, PollInStep, StepInv, RelayTypeOK
<1>2. CASE PollExpire(c)
  <2> DEFINE row == [sessions[p] EXCEPT !.state = "expired"]
  <2>1. UNCHANGED <<delivered, reopened>> /\ ~UndoSession(c) /\ ~PollClaim(c)
    BY <1>2 DEF PollExpire, UndoSession, PollClaim, At
  <2>2. CASE sessions[p].state = "purged"
    BY <1>1, <1>2, <2>1, <2>2, SameSessions DEF PollExpire
  <2>3. CASE sessions[p].state # "purged"
    <3>1. /\ row \in SessionRow /\ row.state = "expired" /\ row.owned = sessions[p].owned
          /\ row.consumed = sessions[p].consumed
      BY <1>1 DEF SessionRow
    <3>2. sessions' = [sessions EXCEPT ![p] = row]
      BY <1>2, <2>3 DEF PollExpire
    <3> HIDE DEF row
    <3>3. KeepsTaken /\ OwnerOnlyOf({})
      BY <1>1, <2>3, <3>1, <3>2, RowEffects, NoRowAssumption
    <3> QED  BY <1>1, <2>1, <3>3
  <2> QED  BY <2>2, <2>3
<1>3. CASE PollClaim(c)
  <2> DEFINE row == [sessions[p] EXCEPT !.consumed = TRUE, !.device = calls[c].device]
  <2>1. UNCHANGED <<delivered, reopened>> /\ ~UndoSession(c)
    BY <1>3 DEF PollClaim, UndoSession, At
  <2>2. CASE ~Unclaimed(p)
    BY <1>1, <1>3, <2>1, <2>2, SameSessions DEF PollClaim
  <2>3. CASE Unclaimed(p)
    <3>0. calls[c].device \in Devices
      BY <1>1, <1>3 DEF PollClaim, At, InStep, PollInStep, Holding
    <3>1. /\ row \in SessionRow /\ row.state = sessions[p].state /\ row.owned = sessions[p].owned
          /\ row.consumed = TRUE
      BY <1>1, <3>0 DEF SessionRow
    <3>2. sessions' = [sessions EXCEPT ![p] = row]
      BY <1>1, <1>3, <2>3 DEF PollClaim, Claimant
    <3> HIDE DEF row
    <3>3. KeepsTaken /\ OwnerOnlyOf({})
      BY <1>1, <3>1, <3>2, RowEffects, NoRowAssumption
    <3>4. sessions'[p] # NoRow /\ sessions'[p].consumed
      BY <1>1, <3>1, <3>2, NoRowAssumption
    <3>5. \A x \in Codes : x = p => Taken(x)'
      BY <3>4 DEF Taken, Unclaimed
    <3> QED  BY <1>1, <2>1, <3>3, <3>5
  <2> QED  BY <2>2, <2>3
<1>4. CASE UndoSession(c)
  <2> DEFINE row == [sessions[p] EXCEPT !.consumed = FALSE, !.device = NoRow]
  <2>1. /\ UNCHANGED delivered /\ reopened' = reopened \union {p} /\ ~PollClaim(c)
        /\ sessions[p].owned
    BY <1>1, <1>4 DEF PollClaim, UndoSession, At, InStep, PollInStep
  <2>2. row \in SessionRow /\ row.state = sessions[p].state /\ row.owned = sessions[p].owned
    BY <1>1 DEF SessionRow
  <2>3. sessions' = [sessions EXCEPT ![p] = row]
    BY <1>1, <1>4 DEF UndoSession
  <2> HIDE DEF row
  <2>4. KeepsTaken /\ OwnerOnlyOf({})
    BY <1>1, <2>1, <2>2, <2>3, RowEffects, NoRowAssumption
  <2> QED  BY <1>1, <1>4, <2>1, <2>4
<1> QED  BY <1>2, <1>3, <1>4

(* Every other step leaves the sessions and what was given back.           *)
LEMMA OtherEffects ==
  ASSUME StepInv, NEW c \in Calls,
         AdminBegins(c) \/ DeviceBegins(c) \/ CallStep(c) \/ Answer(c) \/ CallFails(c),
         ~Authorize(c), ~PollExpire(c), ~PollClaim(c), ~UndoSession(c)
  PROVE  KeepsTaken /\ OwnerOnlyOf({}) /\ UNCHANGED <<sessions, reopened>>
<1>1. CASE AdminBegins(c) \/ DeviceBegins(c) \/ CallFails(c) \/ Answer(c)
  BY <1>1, SameSessions
     DEF AdminBegins, HumanAuthorizes, AuthorizeRead, RevokeForm, RevokeDevice, RotateRead,
         DeviceBegins, PollRead, RenewRead, CallFails, Crash, Refused, OnlyCalls, Answer
<1>2. CASE CallStep(c)
  BY <1>2, SameSessions
     DEF CallStep, PollAgain, PollDiscard, UndoDevice, IssueRead, IssueOrphaned, IssueRetire,
         IssueUndo, RevokeCreds, PollDevice, IssueInsert, OnlyCalls
<1> QED  BY <1>1, <1>2

-----------------------------------------------------------------------------
(* Every step keeps ClaimInv.                                              *)
LEMMA ClaimKeeps ==
  ASSUME ClaimInv, KeepsTaken, reopened \subseteq reopened', UNCHANGED delivered,
         \A x \in Calls, p \in Codes : Winner(x, p)' => Winner(x, p)
  PROVE  ClaimInv'
<1> SUFFICES ASSUME NEW p \in Codes \ reopened'  PROVE ClaimInv!(p)'
  BY DEF ClaimInv
<1>1. ClaimInv!(p)
  BY DEF ClaimInv
<1> QED  BY <1>1 DEF KeepsTaken

LEMMA QuietWins ==
  ASSUME NEW c \in Calls, Quiet(c), ~PollClaim(c)
  PROVE  \A x \in Calls, p \in Codes : Winner(x, p)' => Winner(x, p)
BY DEF Quiet, Winner

LEMMA CreationsWin ==
  ASSUME StepInv, NEW c \in Calls,
         (\E d \in Devices : PollDevice(c, d)) \/ (\E k \in Creds : IssueInsert(c, k))
  PROVE  /\ \A x \in Calls, p \in Codes : Winner(x, p)' => Winner(x, p)
         /\ UNCHANGED <<sessions, delivered, reopened>>
<1>1. ASSUME NEW d \in Devices, PollDevice(c, d)
      PROVE  /\ \A x \in Calls, p \in Codes : Winner(x, p)' => Winner(x, p)
             /\ UNCHANGED <<sessions, delivered, reopened>>
  <2> DEFINE new == [calls[c] EXCEPT !.pc = "claim", !.device = d]
  <2>1. new.pc = "claim" /\ calls' = [calls EXCEPT ![c] = new]
        /\ UNCHANGED <<sessions, delivered, reopened>>
    BY <1>1 DEF PollDevice, StepInv, RelayTypeOK, CallState
  <2> HIDE DEF new
  <2> QED  BY <2>1 DEF Winner, Winning, StepInv, RelayTypeOK
<1>2. ASSUME NEW k \in Creds, IssueInsert(c, k)
      PROVE  /\ \A x \in Calls, p \in Codes : Winner(x, p)' => Winner(x, p)
             /\ UNCHANGED <<sessions, delivered, reopened>>
  BY <1>2, InsertFields DEF Winner, Winning
<1> QED  BY <1>1, <1>2

LEMMA PollClaimClaims ==
  ASSUME StepInv, ClaimInv, NEW c \in Calls, PollClaim(c)
  PROVE  ClaimInv'
<1>1. /\ KeepsTaken /\ UNCHANGED <<delivered, reopened>> /\ calls[c].code \in Codes
      /\ \A p \in Codes : calls[c].code = p /\ Unclaimed(p) => Taken(p)'
  BY PollSessionEffects DEF PollClaim, UndoSession, At
<1>2. CASE ~Unclaimed(calls[c].code)
  <2>1. Goto(c, "discard")
    BY <1>2 DEF PollClaim
  <2>2. \A x \in Calls, p \in Codes : Winner(x, p)' => Winner(x, p)
    BY <2>1, GotoFields DEF Winner, Winning, StepInv, RelayTypeOK, PollPcs, Holding
  <2> QED  BY <1>1, <2>2, ClaimKeeps
<1>3. CASE Unclaimed(calls[c].code)
  <2>1. Goto(c, "read")
    BY <1>3 DEF PollClaim
  <2>2. calls'[c].code = calls[c].code /\ \A x \in Calls : x # c => calls'[x] = calls[x]
    BY <2>1, GotoFields DEF StepInv, RelayTypeOK, RenewPcs, Winning
  <2> SUFFICES ASSUME NEW p \in Codes \ reopened'  PROVE ClaimInv!(p)'
    BY DEF ClaimInv
  <2>3. ClaimInv!(p)
    BY <1>1 DEF ClaimInv
  <2>4. \A x \in Calls : Winner(x, p)' => Winner(x, p) \/ (x = c /\ p = calls[c].code)
    BY <2>2 DEF Winner
  <2>5. CASE p = calls[c].code
    <3>1. ~Taken(p) /\ Taken(p)'
      BY <1>1, <1>3, <2>5 DEF Taken
    <3> QED  BY <1>1, <2>3, <2>4, <3>1
  <2>6. CASE p # calls[c].code
    BY <1>1, <2>3, <2>4, <2>6 DEF KeepsTaken
  <2> QED  BY <2>5, <2>6
<1> QED  BY <1>2, <1>3

LEMMA AnswerClaims ==
  ASSUME StepInv, ClaimInv, NEW c \in Calls, Answer(c)
  PROVE  ClaimInv'
<1> DEFINE new == [code |-> calls[c].code, by |-> calls[c].by, cred |-> calls[c].cred]
<1>1. /\ calls[c].kind \in {"poll", "rotate", "renew"} /\ calls[c].pc = "answer"
      /\ calls'[c] = IdleCall /\ \A x \in Calls : x # c => calls'[x] = calls[x]
      /\ UNCHANGED <<sessions, reopened>>
      /\ delivered' = delivered \union {new} /\ new.code = calls[c].code
      /\ calls[c].kind # "poll" => calls[c].code = NoRow
  BY AnswerFields, KindAtStep DEF Answer, InStep, RenewInStep
<1>2. \A x \in Calls, p \in Codes : Winner(x, p)' => Winner(x, p) /\ x # c
  BY <1>1, IdleFields DEF Winner
<1> HIDE DEF new
<1> SUFFICES ASSUME NEW p \in Codes \ reopened'  PROVE ClaimInv!(p)'
  BY DEF ClaimInv
<1>3. ClaimInv!(p)
  BY <1>1 DEF ClaimInv
<1>4. Taken(p)' <=> Taken(p)
  BY <1>1 DEF Taken, Unclaimed
<1>5. CASE p = calls[c].code
  <2>1. Winner(c, p)
    BY <1>1, <1>5, NoIdAssumption DEF Winner, Winning
  <2>2. \A x \in Calls : ~Winner(x, p)'
    BY <1>2, <1>3, <2>1
  <2> QED  BY <1>3, <1>4, <2>1, <2>2
<1>6. CASE p # calls[c].code
  <2>1. \A r \in delivered' : r.code = p => r \in delivered
    BY <1>1, <1>6
  <2> QED  BY <1>2, <1>3, <1>4, <2>1
<1> QED  BY <1>5, <1>6

LEMMA NextClaimInv ==
  ASSUME StepInv, ClaimInv, [RelayNext]_relayVars
  PROVE  ClaimInv'
<1>1. CASE Environment
  <2>1. KeepsTaken /\ UNCHANGED <<calls, delivered, reopened>>
    BY <1>1, EnvironmentEffects, EnvironmentLeaves
  <2> QED  BY <2>1, ClaimKeeps DEF Winner
<1>2. ASSUME NEW c \in Calls, PollClaim(c)  PROVE ClaimInv'
  BY <1>2, PollClaimClaims
<1>3. ASSUME NEW c \in Calls, Answer(c)  PROVE ClaimInv'
  BY <1>3, AnswerClaims
<1>4. ASSUME NEW c \in Calls,
             (\E d \in Devices : PollDevice(c, d)) \/ (\E k \in Creds : IssueInsert(c, k))
      PROVE  ClaimInv'
  BY <1>4, CreationsWin, SameSessions, ClaimKeeps
<1>5. ASSUME NEW c \in Calls, ~PollClaim(c),
             AdminBegins(c) \/ DeviceBegins(c) \/ CallStep(c) \/ CallFails(c),
             \A d \in Devices : ~PollDevice(c, d), \A k \in Creds : ~IssueInsert(c, k)
      PROVE  ClaimInv'
  <2>1. UNCHANGED delivered /\ \A x \in Calls, p \in Codes : Winner(x, p)' => Winner(x, p)
    BY <1>5, StepsQuiet, QuietWins DEF Quiet
  <2>2. KeepsTaken /\ reopened \subseteq reopened'
    BY <1>5, AuthorizeEffects, PollSessionEffects, OtherEffects
  <2> QED  BY <2>1, <2>2, ClaimKeeps
<1>6. CASE UNCHANGED relayVars
  BY <1>6, SameSessions, ClaimKeeps DEF relayVars, Winner
<1> QED  BY <1>1, <1>2, <1>3, <1>4, <1>5, <1>6 DEF RelayNext

LEMMA InitClaimInv == RelayInit => ClaimInv
BY IdleFields DEF RelayInit, ClaimInv, Winner

LEMMA ClaimInvariance == RelaySpec => []ClaimInv
BY StepInvariance, InitClaimInv, NextClaimInv, PTL DEF RelaySpec

-----------------------------------------------------------------------------
(* RelayDevices implements Enrolment: what its tables and answers mean      *)
(* there, and which of its steps each step is.                             *)
MapApproved == {p \in Codes : sessions[p] # NoRow /\ sessions[p].owned}
MapEnrolled == {<<r.code, r.cred>> : r \in {x \in delivered : x.code # NoRow}}
Stutters == UNCHANGED <<MapApproved, MapEnrolled, reopened>>

LEMMA NobodyEnrols ==
  ASSUME UNCHANGED delivered
  PROVE  UNCHANGED MapEnrolled
BY DEF MapEnrolled

LEMMA NobodyApproves ==
  ASSUME TablesAdvance, OwnerOnlyOf({})
  PROVE  UNCHANGED MapApproved
BY DEF MapApproved, TablesAdvance, OwnerOnlyOf

LEMMA AuthorizeApproves ==
  ASSUME StepInv, TablesAdvance, NEW c \in Calls, Authorize(c)
  PROVE  OneCode!ENext \/ Stutters
<1>1. UNCHANGED <<MapEnrolled, reopened>> /\ calls[c].code \in Codes
  BY AuthorizeEffects, NobodyEnrols
<1>2. CASE OwnerOnlyOf({})
  BY <1>1, <1>2, NobodyApproves DEF Stutters
<1>3. CASE ~OwnerOnlyOf({})
  <2>1. PICK p \in Codes : p = calls[c].code
    BY <1>1
  <2>2. /\ OwnerOnlyOf({p}) /\ ~sessions[p].owned
        /\ sessions'[p] # NoRow /\ sessions'[p].owned
    BY <1>3, <2>1, AuthorizeEffects
  <2>3. p \notin MapApproved /\ MapApproved' = MapApproved \union {p}
    BY <2>1, <2>2 DEF MapApproved, OwnerOnlyOf, TablesAdvance
  <2>4. OneCode!Approve(p)
    BY <1>1, <2>3 DEF OneCode!Approve, MapApproved, MapEnrolled
  <2> QED  BY <2>4 DEF OneCode!ENext
<1> QED  BY <1>2, <1>3

LEMMA UndoSessionReopens ==
  ASSUME StepInv, TablesAdvance, NEW c \in Calls, UndoSession(c)
  PROVE  OneCode!ENext
<1> DEFINE p == calls[c].code
<1>1. /\ p \in Codes /\ sessions[p] # NoRow /\ sessions[p].owned
      /\ UNCHANGED <<MapApproved, MapEnrolled>> /\ reopened' = reopened \union {p}
  BY PollSessionEffects, NobodyEnrols, NobodyApproves
<1> HIDE DEF p
<1>2. OneCode!Reopen(p)
  BY <1>1 DEF OneCode!Reopen, MapApproved, MapEnrolled
<1> QED  BY <1>1, <1>2 DEF OneCode!ENext

LEMMA AnswerEnrols ==
  ASSUME StepInv, OwnedInv, ClaimInv, NEW c \in Calls, Answer(c)
  PROVE  OneCode!ENext \/ Stutters
<1> DEFINE new == [code |-> calls[c].code, by |-> calls[c].by, cred |-> calls[c].cred]
<1>1. /\ calls[c].kind \in {"poll", "rotate", "renew"} /\ calls[c].pc = "answer"
      /\ calls[c].cred \in Creds /\ InStep(calls[c])
      /\ UNCHANGED <<sessions, reopened>> /\ delivered' = delivered \union {new}
      /\ new.code = calls[c].code /\ new.cred = calls[c].cred
  BY AnswerFields, KindAtStep DEF Answer
<1> HIDE DEF new
<1>2. UNCHANGED MapApproved
  BY <1>1 DEF MapApproved
<1>3. CASE calls[c].kind # "poll"
  <2>1. new.code = NoRow
    BY <1>1, <1>3 DEF InStep, RenewInStep
  <2>2. UNCHANGED MapEnrolled
    BY <1>1, <2>1 DEF MapEnrolled
  <2> QED  BY <1>1, <1>2, <2>2 DEF Stutters
<1>4. CASE calls[c].kind = "poll"
  <2>0. PICK p \in Codes, k \in Creds : p = calls[c].code /\ k = calls[c].cred
    BY <1>1, <1>4 DEF InStep, PollInStep
  <2>1. sessions[p] # NoRow /\ sessions[p].owned
    BY <1>1, <1>4, <2>0 DEF InStep, PollInStep
  <2>2. Winner(c, p)
    BY <1>1, <1>4, <2>0 DEF Winner, Winning
  <2>3. \A r \in delivered : r.cred # k /\ (r.code = p => p \in reopened)
    BY <2>0, <2>2 DEF OwnedInv, LetGo, ClaimInv
  <2>4. new.code = p /\ new.cred = k /\ p # NoRow
    BY <1>1, <2>0, NoIdAssumption
  <2>5. MapEnrolled' = MapEnrolled \union {<<p, k>>}
    BY <1>1, <2>4 DEF MapEnrolled
  <2>6. \A e \in MapEnrolled : e[2] # k /\ (e[1] = p => p \in reopened)
    BY <2>3 DEF MapEnrolled
  <2>7. OneCode!Enrol(p, k)
    BY <1>1, <1>2, <2>1, <2>5, <2>6 DEF OneCode!Enrol, MapApproved, MapEnrolled
  <2> QED  BY <2>7 DEF OneCode!ENext
<1> QED  BY <1>3, <1>4

LEMMA NextEnrolment ==
  ASSUME StepInv, OwnedInv, ClaimInv, [RelayNext]_relayVars
  PROVE  OneCode!ENext \/ Stutters
<1>0. TablesAdvance
  BY NextStepInv
<1>1. CASE Environment
  BY <1>0, <1>1, EnvironmentEffects, EnvironmentLeaves, NobodyEnrols, NobodyApproves DEF Stutters
<1>2. ASSUME NEW c \in Calls, Authorize(c)  PROVE OneCode!ENext \/ Stutters
  BY <1>0, <1>2, AuthorizeApproves
<1>3. ASSUME NEW c \in Calls, UndoSession(c)  PROVE OneCode!ENext \/ Stutters
  BY <1>0, <1>3, UndoSessionReopens
<1>4. ASSUME NEW c \in Calls, Answer(c)  PROVE OneCode!ENext \/ Stutters
  BY <1>4, AnswerEnrols
<1>5. ASSUME NEW c \in Calls, PollExpire(c) \/ PollClaim(c), ~UndoSession(c)
      PROVE  OneCode!ENext \/ Stutters
  BY <1>0, <1>5, PollSessionEffects, NobodyEnrols, NobodyApproves DEF Stutters
<1>6. ASSUME NEW c \in Calls,
             AdminBegins(c) \/ DeviceBegins(c) \/ CallStep(c) \/ CallFails(c),
             ~Authorize(c), ~PollExpire(c), ~PollClaim(c), ~UndoSession(c)
      PROVE  OneCode!ENext \/ Stutters
  <2>1. UNCHANGED reopened /\ OwnerOnlyOf({})
    BY <1>6, OtherEffects
  <2>2. UNCHANGED delivered
    BY <1>6, StepsQuiet, CreationsWin DEF Quiet
  <2> QED  BY <1>0, <2>1, <2>2, NobodyEnrols, NobodyApproves DEF Stutters
<1>7. CASE UNCHANGED relayVars
  BY <1>0, <1>7, SameSessions, NobodyEnrols, NobodyApproves DEF Stutters, relayVars
<1> QED  BY <1>1, <1>2, <1>3, <1>4, <1>5, <1>6, <1>7 DEF RelayNext

LEMMA InitEnrolment == RelayInit => OneCode!EInit
BY DEF RelayInit, OneCode!EInit

(* The handlers of relay-devices.ts, over their tables and with every fault, *)
(* implement Enrolment: a code is approved once and, unless a failing poll *)
(* gives it back, enrols with one credential, whatever polls run together. *)
THEOREM EnrolmentIsKept == RelaySpec => KeepsEnrolment
<1>1. StepInv /\ OwnedInv /\ ClaimInv /\ [RelayNext]_relayVars => [OneCode!ENext]_OneCode!evars
  BY NextEnrolment DEF Stutters, OneCode!evars, MapApproved, MapEnrolled
<1> QED  BY <1>1, InitEnrolment, StepInvariance, OwnedInvariance, ClaimInvariance, PTL
         DEF RelaySpec, KeepsEnrolment, OneCode!ESpec

-----------------------------------------------------------------------------
(* What a single step may never do.                                        *)
LEMMA LateStaysUnowned ==
  ASSUME StepInv, [RelayNext]_relayVars, NEW p \in Codes,
         sessions[p] # NoRow, sessions[p].late, ~sessions[p].owned
  PROVE  ~sessions'[p].owned
<1>0. sessions'[p] # NoRow
  BY NextStepInv DEF TablesAdvance
<1>1. CASE Environment
  BY <1>0, <1>1, EnvironmentEffects DEF OwnerOnlyOf
<1>2. ASSUME NEW c \in Calls, Authorize(c)  PROVE ~sessions'[p].owned
  BY <1>0, <1>2, AuthorizeEffects DEF OwnerOnlyOf
<1>3. ASSUME NEW c \in Calls, PollExpire(c) \/ PollClaim(c) \/ UndoSession(c)
      PROVE  ~sessions'[p].owned
  BY <1>0, <1>3, PollSessionEffects DEF OwnerOnlyOf
<1>4. ASSUME NEW c \in Calls,
             AdminBegins(c) \/ DeviceBegins(c) \/ CallStep(c) \/ Answer(c) \/ CallFails(c),
             ~Authorize(c), ~PollExpire(c), ~PollClaim(c), ~UndoSession(c)
      PROVE  ~sessions'[p].owned
  BY <1>0, <1>4, OtherEffects DEF OwnerOnlyOf
<1>5. CASE UNCHANGED relayVars
  BY <1>5 DEF relayVars
<1> QED  BY <1>1, <1>2, <1>3, <1>4, <1>5 DEF RelayNext

(* A human's authorization that reads an open code and writes it later     *)
(* never lands on a code that has run out in between.                      *)
THEOREM NoLateAuthorization == RelaySpec => AuthorizedInTime
<1>1. StepInv /\ [RelayNext]_relayVars =>
        [\A p \in Codes : sessions[p] # NoRow /\ sessions[p].late /\ ~sessions[p].owned
                            => ~sessions'[p].owned]_relayVars
  BY LateStaysUnowned
<1> QED  BY <1>1, StepInvariance, PTL DEF RelaySpec, AuthorizedInTime

(* Neither new life nor a new call for device d.                           *)
Dark(d) == LiveOf(d)' \subseteq LiveOf(d) /\ ~InUse(d)'

LEMMA NoNewCredential ==
  ASSUME TablesAdvance, NEW d, \A k \in Creds : creds[k] = NoRow => creds'[k] = NoRow
  PROVE  LiveOf(d)' \subseteq LiveOf(d)
BY DEF LiveOf, CredsOf, TablesAdvance

LEMMA RevokedStays ==
  ASSUME StepInv, [RelayNext]_relayVars, NEW d \in Devices, devices[d] = "revoked", ~InUse(d)
  PROVE  Dark(d)
<1>0. TablesAdvance
  BY NextStepInv
<1>1. ASSUME UNCHANGED calls  PROVE ~InUse(d)'
  BY <1>1 DEF InUse
<1>2. CASE Environment
  BY <1>0, <1>1, <1>2, EnvironmentLeaves, NoNewCredential DEF Dark
<1>3. ASSUME NEW c \in Calls, NEW x \in Devices, PollDevice(c, x)  PROVE Dark(d)
  <2> DEFINE new == [calls[c] EXCEPT !.pc = "claim", !.device = x]
  <2>1. /\ new.device = x /\ calls' = [calls EXCEPT ![c] = new] /\ devices[x] = "unused"
        /\ UNCHANGED creds
    BY <1>3 DEF PollDevice, StepInv, RelayTypeOK, CallState
  <2> HIDE DEF new
  <2>2. ~InUse(d)'
    BY <2>1 DEF InUse, StepInv, RelayTypeOK
  <2> QED  BY <1>0, <2>1, <2>2, NoNewCredential DEF Dark
<1>4. ASSUME NEW c \in Calls, NEW k \in Creds, IssueInsert(c, k)  PROVE Dark(d)
  <2>0. /\ creds'[k].device = calls[c].device
        /\ \A x \in Creds : x # k => creds'[x] = creds[x]
        /\ \A x \in Calls : x # c => calls'[x] = calls[x]
        /\ calls'[c].kind = calls[c].kind /\ calls'[c].device = calls[c].device
        /\ calls[c].kind \in {"poll", "rotate", "renew"}
    BY <1>4, InsertFields
  <2>1. calls[c].device # d
    BY <2>0 DEF InUse
  <2> QED  BY <2>0, <2>1 DEF Dark, InUse, LiveOf, CredsOf
<1>5. ASSUME NEW c \in Calls, Answer(c)  PROVE Dark(d)
  <2>1. ~InUse(d)'
    BY <1>5, AnswerFields, IdleFields, NoIdAssumption DEF InUse
  <2>2. UNCHANGED creds
    BY <1>5 DEF Answer
  <2> QED  BY <1>0, <2>1, <2>2, NoNewCredential DEF Dark
<1>6. ASSUME NEW c \in Calls,
             AdminBegins(c) \/ DeviceBegins(c) \/ CallStep(c) \/ CallFails(c),
             \A x \in Devices : ~PollDevice(c, x), \A k \in Creds : ~IssueInsert(c, k)
      PROVE  Dark(d)
  <2>1. Quiet(c)
    BY <1>6, StepsQuiet
  <2>2. ~InUse(d)'
    BY <2>1, NoIdAssumption DEF Quiet, InUse
  <2> QED  BY <1>0, <2>1, <2>2, NoNewCredential DEF Dark, Quiet
<1>7. CASE UNCHANGED relayVars
  BY <1>0, <1>1, <1>7, NoNewCredential DEF Dark, relayVars
<1> QED  BY <1>2, <1>3, <1>4, <1>5, <1>6, <1>7 DEF RelayNext

(* A revoked device with no call of before still at work for it gets no    *)
(* credential and starts no call, though revocation is two statements.     *)
THEOREM RevokedIsDark == RelaySpec => RevokedStaysDark
<1>1. StepInv /\ [RelayNext]_relayVars =>
        [\A d \in Devices : devices[d] = "revoked" /\ ~InUse(d)
           => LiveOf(d)' \subseteq LiveOf(d) /\ ~InUse(d)']_relayVars
  BY RevokedStays DEF Dark
<1> QED  BY <1>1, StepInvariance, PTL DEF RelaySpec, RevokedStaysDark

-----------------------------------------------------------------------------
(* The bridge beside Cloud.                                                *)

(* An admin has revoked the device of credential k, or Cloud has issued    *)
(* one in its place that the bridge has not got and Cloud does not take    *)
(* back.                                                                   *)
Settled(k) == \A c \in Calls : calls[c].cred = k => calls[c].pc \notin {"retire", "unissue"}
Superseded(k) == \E n \in Creds \ stored : /\ n # k /\ creds[n] # NoRow
                                           /\ creds[n].device = creds[k].device
                                           /\ creds[n].status # "deleted"
                                           /\ Settled(n)
Excused(k) == devices[creds[k].device] = "revoked" \/ Superseded(k)
Sound(k) == creds[k] # NoRow /\ (Authenticates(k) \/ Excused(k))

(* Only with its device does the credential a renewal or rotation has made *)
(* go before the call lets go of it.                                       *)
HandInv ==
  \A c \in Calls :
    /\ calls[c].kind = "revoke" => devices[calls[c].device] \in {"revoked", "deleted"}
    /\ calls[c].pc = "retire" => \/ creds[calls[c].cred].status # "deleted"
                                 \/ devices[calls[c].device] = "deleted"

(* What the bridge holds it was answered with, for a device it was given;  *)
(* the loop and the setup are at work on what it holds.                    *)
BridgeCred(k) == /\ \E r \in delivered : r.cred = k
                 /\ \E r \in delivered : r.code # NoRow /\ creds[r.cred].device = creds[k].device
Engaged == {"renew", "await", "beat", "revoked"}
BridgeInv ==
  /\ BridgeTypeOK
  /\ \A k \in stored : BridgeCred(k)
  /\ setup # NoRow => identity = NoRow /\ calls[setup].kind = "poll"
  /\ \A l \in Loops :
       /\ loops[l].pc \in Engaged => identity # NoRow /\ loops[l].held = identity
       /\ loops[l].pc = "await" => /\ loops[l].call \in Calls
                                   /\ calls[loops[l].call].kind = "renew"
                                   /\ calls[loops[l].call].by = identity

Awaited(c) == c = setup \/ \E l \in Loops : loops[l].pc = "await" /\ loops[l].call = c
LifeInv ==
  /\ identity # NoRow => Sound(identity)
  /\ \A l \in Loops : loops[l].pc = "revoked" => Excused(identity)
  /\ marker => \E k \in stored : Excused(k)
  /\ \A c \in Calls : Awaited(c) /\ calls[c].pc \in {"retire", "answer"} => Sound(calls[c].cred)

OneLoop == \A l1, l2 \in Loops : l1 = l2

-----------------------------------------------------------------------------
(* How the acting call moves on, and what becomes of devices and live      *)
(* credentials in a step of Cloud.                                         *)
Moves(c) ==
  /\ \A x \in Calls : x # c => calls'[x] = calls[x]
  /\ calls'[c].pc # Idle /\ calls[c].pc # Idle =>
       calls'[c].kind = calls[c].kind /\ calls'[c].by = calls[c].by
  /\ calls'[c].pc \in {"retire", "unissue", "answer"} =>
       \/ \E k \in Creds : IssueInsert(c, k)
       \/ calls[c].pc = "retire" /\ calls'[c].pc # "retire" /\ calls'[c].cred = calls[c].cred
  /\ calls'[c].kind = "revoke" => devices'[calls'[c].device] = "revoked"

Withdrawn(k) == \E c \in Calls : calls[c].cred = k /\ calls[c].pc = "unissue"
Replaced(k) == \E c \in Calls : /\ IssueRetire(c)
                                /\ creds[k].device = calls[c].device
                                /\ calls[c].cred # k
DeviceFate(d) == \/ devices'[d] = devices[d]
                 \/ devices[d] = "unused"
                 \/ devices'[d] = "deleted"
                 \/ devices[d] = "active" /\ devices'[d] = "revoked"
CredFate(k) ==
  /\ creds[k].status # "deleted" /\ creds'[k].status = "deleted" =>
       devices'[creds[k].device] = "deleted" \/ Withdrawn(k)
  /\ creds[k].status = "live" /\ creds'[k].status # "live" =>
       \/ devices'[creds[k].device] = "deleted" \/ Withdrawn(k)
       \/ devices[creds[k].device] # "active" \/ Replaced(k)
Fates == /\ \A d \in Devices : DeviceFate(d)
         /\ \A k \in Creds : creds[k] # NoRow => CredFate(k)

LEMMA EndMoves ==
  ASSUME StepInv, NEW c \in Calls, End(c)
  PROVE  Moves(c)
BY EndFields, IdleFields DEF Moves, StepInv, RelayTypeOK

LEMMA GotoMoves ==
  ASSUME StepInv, NEW c \in Calls, NEW pc \in PollPcs \union RenewPcs, Goto(c, pc),
         pc \in {"retire", "unissue", "answer"} => calls[c].pc = "retire" /\ pc # "retire",
         calls[c].kind # "revoke"
  PROVE  Moves(c)
BY GotoFields DEF Moves, StepInv, RelayTypeOK

LEMMA BeginMoves ==
  ASSUME StepInv, NEW c \in Calls, NEW call \in CallState, Begin(c, call),
         call.pc \notin {"retire", "unissue", "answer"},
         call.kind = "revoke" => devices'[call.device] = "revoked"
  PROVE  Moves(c)
BY BeginFields DEF Moves, StepInv, RelayTypeOK

LEMMA BeginsMove ==
  ASSUME StepInv, NEW c \in Calls, AdminBegins(c) \/ DeviceBegins(c)
  PROVE  Moves(c)
<1>1. ASSUME NEW p \in Codes, AuthorizeRead(c, p)  PROVE Moves(c)
  <2> DEFINE call == [IdleCall EXCEPT !.kind = "authorize", !.pc = "authorize", !.code = p]
  <2>1. call \in CallState /\ call.kind = "authorize" /\ call.pc = "authorize"
    BY DEF CallState, IdleCall, AllKinds
  <2>2. Begin(c, call)
    BY <1>1 DEF AuthorizeRead
  <2> HIDE DEF call
  <2> QED  BY <2>1, <2>2, BeginMoves
<1>2. ASSUME NEW d \in Devices, RotateRead(c, d)  PROVE Moves(c)
  <2> DEFINE call == [IdleCall EXCEPT !.kind = "rotate", !.pc = "read", !.device = d]
  <2>1. call \in CallState /\ call.kind = "rotate" /\ call.pc = "read"
    BY DEF CallState, IdleCall, AllKinds
  <2>2. Begin(c, call)
    BY <1>2 DEF RotateRead
  <2> HIDE DEF call
  <2> QED  BY <2>1, <2>2, BeginMoves
<1>3. ASSUME NEW p \in Codes, PollRead(c, p)  PROVE Moves(c)
  <2> DEFINE call == [IdleCall EXCEPT !.kind = "poll", !.code = p,
                        !.pc = IF Claimable(p) THEN "device" ELSE "expire"]
  <2>1. call \in CallState /\ call.kind = "poll" /\ call.pc \in {"device", "expire"}
    BY DEF CallState, IdleCall, AllKinds
  <2>2. Begin(c, call)
    BY <1>3 DEF PollRead
  <2> HIDE DEF call
  <2> QED  BY <2>1, <2>2, BeginMoves
<1>4. ASSUME NEW k \in Creds, RenewRead(c, k)  PROVE Moves(c)
  <2> DEFINE call == [IdleCall EXCEPT !.kind = "renew", !.pc = "read",
                                      !.device = creds[k].device, !.by = k]
  <2>0. creds[k] \in CredRow
    BY <1>4 DEF RenewRead, Authenticates, StepInv, RelayTypeOK
  <2>1. call \in CallState /\ call.kind = "renew" /\ call.pc = "read"
    BY <2>0 DEF CallState, IdleCall, AllKinds, CredRow
  <2>2. Begin(c, call)
    BY <1>4 DEF RenewRead
  <2> HIDE DEF call
  <2> QED  BY <2>1, <2>2, BeginMoves
<1>5. ASSUME NEW d \in Devices, RevokeDevice(c, d)  PROVE Moves(c)
  <2> DEFINE call == [IdleCall EXCEPT !.kind = "revoke", !.pc = "creds", !.device = d]
  <2>1. call \in CallState /\ call.pc = "creds" /\ call.device = d
    BY DEF CallState, IdleCall, AllKinds
  <2>2. Begin(c, call) /\ devices' = [devices EXCEPT ![d] = "revoked"]
    BY <1>5 DEF RevokeDevice
  <2>3. devices'[d] = "revoked"
    BY <2>2 DEF StepInv, RelayTypeOK
  <2> HIDE DEF call
  <2> QED  BY <2>1, <2>2, <2>3, BeginMoves
<1> QED  BY <1>1, <1>2, <1>3, <1>4, <1>5
         DEF AdminBegins, DeviceBegins, HumanAuthorizes, RevokeForm

LEMMA StepMoves ==
  ASSUME StepInv, NEW c \in Calls, CallStep(c) \/ CallFails(c) \/ Answer(c)
  PROVE  Moves(c)
<1>0. calls[c] \in CallState /\ InStep(calls[c])
  BY KindAtStep
<1>1. CASE Authorize(c) \/ PollExpire(c) \/ UndoSession(c) \/ IssueOrphaned(c)
           \/ IssueUndo(c) \/ RevokeCreds(c) \/ Crash(c) \/ Answer(c)
  BY <1>1, EndMoves
     DEF Authorize, PollExpire, UndoSession, IssueOrphaned, IssueUndo, RevokeCreds, Crash, Answer
<1>2. CASE PollAgain(c)
  <2>1. Goto(c, "device") \/ Goto(c, "expire") \/ End(c)
    <3>1. CASE Claimable(calls[c].code)
      BY <1>2, <3>1 DEF PollAgain, Claimable, Expirable
    <3>2. CASE Expirable(calls[c].code) /\ ~Claimable(calls[c].code)
      BY <1>2, <3>2 DEF PollAgain
    <3>3. CASE ~Expirable(calls[c].code) /\ ~Claimable(calls[c].code)
      BY <1>2, <3>3 DEF PollAgain
    <3> QED  BY <3>1, <3>2, <3>3
  <2>2. calls[c].kind = "poll"
    BY <1>2, KindAtStep DEF PollAgain, At, PollPcs, Winning
  <2> QED  BY <2>1, <2>2, EndMoves, GotoMoves DEF PollPcs
<1>3. CASE PollClaim(c) \/ UndoDevice(c)
  <2>1. calls[c].kind = "poll"
    BY <1>3, KindAtStep DEF PollClaim, UndoDevice, At, PollPcs, Holding, Winning
  <2>2. Goto(c, "read") \/ Goto(c, "discard") \/ Goto(c, "undoSession")
    BY <1>3 DEF PollClaim, UndoDevice
  <2> QED  BY <2>1, <2>2, GotoMoves DEF PollPcs, Holding
<1>4. CASE PollDiscard(c)
  <2> DEFINE new == [calls[c] EXCEPT !.pc = "again", !.device = NoRow]
  <2>1. /\ new.pc = "again" /\ new.kind = calls[c].kind /\ new.by = calls[c].by
        /\ calls[c].kind = "poll"
    BY <1>0, <1>4, KindAtStep DEF CallState, PollDiscard, At, PollPcs, Holding, Winning
  <2>2. calls' = [calls EXCEPT ![c] = new]
    BY <1>4 DEF PollDiscard
  <2> HIDE DEF new
  <2> QED  BY <2>1, <2>2 DEF Moves, StepInv, RelayTypeOK
<1>5. ASSUME NEW d \in Devices, PollDevice(c, d)  PROVE Moves(c)
  <2> DEFINE new == [calls[c] EXCEPT !.pc = "claim", !.device = d]
  <2>1. /\ new.pc = "claim" /\ new.kind = calls[c].kind /\ new.by = calls[c].by
        /\ calls[c].kind = "poll"
    BY <1>0, <1>5, KindAtStep DEF CallState, PollDevice, At, PollPcs, Winning
  <2>2. calls' = [calls EXCEPT ![c] = new]
    BY <1>5 DEF PollDevice
  <2> HIDE DEF new
  <2> QED  BY <2>1, <2>2 DEF Moves, StepInv, RelayTypeOK
<1>6. CASE IssueRead(c)
  <2>1. PICK g \in 0..Cardinality(Creds) :
          calls' = [calls EXCEPT ![c].pc = "insert", ![c].generation = g + 1]
    BY <1>6 DEF IssueRead
  <2> DEFINE new == [calls[c] EXCEPT !.pc = "insert", !.generation = g + 1]
  <2>2. /\ new.pc = "insert" /\ new.kind = calls[c].kind /\ new.by = calls[c].by
        /\ calls[c].kind # "revoke"
    BY <1>0, <1>6, KindAtStep DEF CallState, IssueRead, At, Winning
  <2>3. calls' = [calls EXCEPT ![c] = new]
    BY <2>1
  <2> HIDE DEF new
  <2> QED  BY <2>2, <2>3 DEF Moves, StepInv, RelayTypeOK
<1>7. ASSUME NEW k \in Creds, IssueInsert(c, k)  PROVE Moves(c)
  BY <1>7, InsertFields DEF Moves
<1>8. CASE IssueRetire(c)
  BY <1>8, RetireFields, GotoMoves DEF RenewPcs, Winning
<1>9. CASE Refused(c)
  <2>1. CASE Goto(c, "undoDevice") /\ calls[c].kind = "poll"
    BY <2>1, GotoMoves DEF PollPcs
  <2>2. CASE calls[c].kind \in {"rotate", "renew"} /\ At(c, "retire") /\ Goto(c, "unissue")
    BY <2>2, GotoMoves DEF RenewPcs, At
  <2> QED  BY <1>9, <2>1, <2>2, RefusedMoves, EndMoves
<1> QED  BY <1>1, <1>2, <1>3, <1>4, <1>5, <1>6, <1>7, <1>8, <1>9 DEF CallStep, CallFails

LEMMA SameTablesFates ==
  ASSUME UNCHANGED <<devices, creds>>
  PROVE  Fates
BY DEF Fates, DeviceFate, CredFate

LEMMA BeginsFates ==
  ASSUME StepInv, NEW c \in Calls, AdminBegins(c) \/ DeviceBegins(c)
  PROVE  Fates
<1>1. ASSUME NEW d \in Devices, RevokeDevice(c, d)  PROVE Fates
  <2>1. devices' = [devices EXCEPT ![d] = "revoked"] /\ UNCHANGED creds /\ devices[d] = "active"
    BY <1>1 DEF RevokeDevice
  <2> QED  BY <2>1 DEF Fates, DeviceFate, CredFate, StepInv, RelayTypeOK
<1>2. CASE \A d \in Devices : ~RevokeDevice(c, d)
  BY <1>2, SameTablesFates
     DEF AdminBegins, DeviceBegins, HumanAuthorizes, RevokeForm, AuthorizeRead, RotateRead,
         PollRead, RenewRead, OnlyCalls
<1> QED  BY <1>1, <1>2

LEMMA DeleteFates ==
  ASSUME StepInv, NEW d \in Devices, DeleteDevice(d)
  PROVE  Fates
<1>1. \A x \in Devices : DeviceFate(x)
  BY DeleteFields DEF DeviceFate
<1>2. ASSUME NEW k \in Creds, creds[k] # NoRow  PROVE CredFate(k)
  <2>1. creds[k].device \in Devices
    BY <1>2 DEF StepInv, RelayTypeOK, CredRow
  <2> QED  BY <1>2, <2>1, DeleteFields DEF CredFate
<1> QED  BY <1>1, <1>2 DEF Fates

LEMMA RetireFates ==
  ASSUME StepInv, NEW c \in Calls, IssueRetire(c)
  PROVE  Fates
<1>1. /\ UNCHANGED devices
      /\ RevokeAll(CredsOf(calls[c].device) \ {calls[c].cred})
      /\ \A k \in CredsOf(calls[c].device) \ {calls[c].cred} : k \in Creds /\ creds[k] # NoRow
  BY RetireFields
<1>2. ASSUME NEW k \in Creds, creds[k] # NoRow  PROVE CredFate(k)
  <2>1. creds'[k].status = "deleted" => creds[k].status = "deleted"
    BY <1>1, <1>2, RevokeFields
  <2>2. CASE k \in CredsOf(calls[c].device) \ {calls[c].cred}
    BY <2>1, <2>2 DEF CredFate, Replaced, CredsOf
  <2>3. CASE k \notin CredsOf(calls[c].device) \ {calls[c].cred}
    <3>1. creds'[k] = creds[k]
      BY <1>1, <2>3 DEF RevokeAll
    <3> QED  BY <3>1 DEF CredFate
  <2> QED  BY <2>2, <2>3
<1> QED  BY <1>1, <1>2 DEF Fates, DeviceFate

LEMMA RevokeCredsFates ==
  ASSUME StepInv, HandInv, NEW c \in Calls, RevokeCreds(c)
  PROVE  Fates
<1>1. /\ UNCHANGED devices /\ RevokeAll(CredsOf(calls[c].device)) /\ calls[c].kind = "revoke"
  BY KindAtStep DEF RevokeCreds
<1>2. \A k \in CredsOf(calls[c].device) : k \in Creds /\ creds[k] # NoRow
  BY DEF CredsOf
<1>3. devices[calls[c].device] \in {"revoked", "deleted"}
  BY <1>1 DEF HandInv
<1>4. ASSUME NEW k \in Creds, creds[k] # NoRow  PROVE CredFate(k)
  <2>1. creds'[k].status = "deleted" => creds[k].status = "deleted"
    BY <1>1, <1>2, <1>4, RevokeFields
  <2>2. CASE k \in CredsOf(calls[c].device)
    BY <1>3, <2>1, <2>2 DEF CredFate, CredsOf
  <2>3. CASE k \notin CredsOf(calls[c].device)
    <3>1. creds'[k] = creds[k]
      BY <1>1, <2>3 DEF RevokeAll
    <3> QED  BY <3>1 DEF CredFate
  <2> QED  BY <2>2, <2>3
<1> QED  BY <1>1, <1>4 DEF Fates, DeviceFate

LEMMA UndoFates ==
  ASSUME StepInv, NEW c \in Calls, IssueUndo(c)
  PROVE  Fates
<1> DEFINE row == [creds[calls[c].cred] EXCEPT !.status = "deleted"]
<1>1. creds' = [creds EXCEPT ![calls[c].cred] = row] /\ UNCHANGED devices /\ calls[c].pc = "unissue"
  BY DEF IssueUndo, At
<1> HIDE DEF row
<1>2. ASSUME NEW k \in Creds  PROVE CredFate(k)
  <2>1. CASE k = calls[c].cred
    BY <1>1, <2>1 DEF CredFate, Withdrawn
  <2>2. CASE k # calls[c].cred
    BY <1>1, <2>2 DEF CredFate, StepInv, RelayTypeOK
  <2> QED  BY <2>1, <2>2
<1> QED  BY <1>1, <1>2 DEF Fates, DeviceFate

LEMMA StepFates ==
  ASSUME StepInv, HandInv, NEW c \in Calls, CallStep(c) \/ CallFails(c) \/ Answer(c)
  PROVE  Fates
<1>0. calls[c] \in CallState /\ InStep(calls[c])
  BY KindAtStep
<1>1. CASE UNCHANGED <<devices, creds>>
  BY <1>1, SameTablesFates
<1>2. CASE PollDiscard(c)
  <2>1. calls[c].device \in Devices
    BY <1>0, <1>2, KindAtStep DEF PollDiscard, At, PollPcs, Winning, Holding, InStep, PollInStep
  <2> QED  BY <1>2, <2>1, DeleteFates DEF PollDiscard
<1>3. CASE UndoDevice(c) /\ calls[c].device # NoRow
  <2>1. calls[c].device \in Devices /\ DeleteDevice(calls[c].device)
    BY <1>0, <1>3 DEF UndoDevice, CallState
  <2> QED  BY <2>1, DeleteFates
<1>4. ASSUME NEW d \in Devices, PollDevice(c, d)  PROVE Fates
  <2>1. devices' = [devices EXCEPT ![d] = "active"] /\ UNCHANGED creds /\ devices[d] = "unused"
    BY <1>4 DEF PollDevice
  <2> QED  BY <2>1 DEF Fates, DeviceFate, CredFate, StepInv, RelayTypeOK
<1>5. ASSUME NEW k \in Creds, IssueInsert(c, k)  PROVE Fates
  BY <1>5, InsertFields DEF Fates, DeviceFate, CredFate
<1>6. CASE /\ ~PollDiscard(c) /\ ~(UndoDevice(c) /\ calls[c].device # NoRow)
           /\ ~IssueRetire(c) /\ ~RevokeCreds(c) /\ ~IssueUndo(c)
           /\ \A d \in Devices : ~PollDevice(c, d)
           /\ \A k \in Creds : ~IssueInsert(c, k)
  <2>1. UNCHANGED <<devices, creds>>
    BY <1>6 DEF CallStep, CallFails, Authorize, PollAgain, PollExpire, PollClaim, UndoDevice,
                UndoSession, IssueRead, IssueOrphaned, Crash, Refused, Answer, OnlyCalls
  <2> QED  BY <1>1, <2>1
<1> QED  BY <1>2, <1>3, <1>4, <1>5, <1>6, RetireFates, RevokeCredsFates, UndoFates

(* Where credentials do not lapse a step of Cloud is the environment's, or *)
(* that of one call which moves on.                                        *)
CallActs(c) == AdminBegins(c) \/ DeviceBegins(c) \/ CallStep(c) \/ Answer(c) \/ CallFails(c)

LEMMA EnvironmentFates ==
  ASSUME StepInv, "expiry" \notin Faults, Environment
  PROVE  Fates /\ UNCHANGED <<calls, creds, devices, delivered>>
BY SameTablesFates DEF Environment, Start, Lapse, StartElsewhere, Expire

LEMMA CallActsFates ==
  ASSUME StepInv, HandInv, NEW c \in Calls, CallActs(c)
  PROVE  Moves(c) /\ Fates
BY BeginsMove, StepMoves, BeginsFates, StepFates DEF CallActs

LEMMA StepHandInv ==
  ASSUME StepInv, OwnedInv, HandInv, Fates, TablesAdvance, NEW c \in Calls, Moves(c)
  PROVE  HandInv'
<1>1. ASSUME NEW x \in Calls, calls'[x].kind = "revoke"
      PROVE  devices'[calls'[x].device] \in {"revoked", "deleted"}
  <2>1. CASE x = c
    BY <1>1, <2>1 DEF Moves
  <2>2. CASE x # c
    <3>1. calls'[x] = calls[x]
      BY <2>2 DEF Moves
    <3>2. calls[x].device \in Devices /\ devices[calls[x].device] \in {"revoked", "deleted"}
      BY <1>1, <3>1, KindAtStep DEF HandInv, InStep, OtherInStep
    <3> QED  BY <3>1, <3>2 DEF Fates, DeviceFate
  <2> QED  BY <2>1, <2>2
<1>2. ASSUME NEW x \in Calls, calls'[x].pc = "retire"
      PROVE  \/ creds'[calls'[x].cred].status # "deleted"
             \/ devices'[calls'[x].device] = "deleted"
  <2>1. CASE x = c
    <3>1. PICK k \in Creds : IssueInsert(c, k)
      BY <1>2, <2>1 DEF Moves
    <3> QED  BY <2>1, <3>1, InsertFields
  <2>2. CASE x # c
    <3>1. calls'[x] = calls[x]
      BY <2>2 DEF Moves
    <3>2. /\ calls[x].cred \in Creds /\ creds[calls[x].cred] # NoRow
          /\ creds[calls[x].cred].device = calls[x].device
          /\ calls[x].device \in Devices
      BY <1>2, <3>1, KindAtStep, NoIdAssumption DEF InStep, HasRows, RenewInStep
    <3>3. ~Withdrawn(calls[x].cred)
      BY <1>2, <3>1, <3>2, NoIdAssumption DEF Withdrawn, OwnedInv, OneHolder
    <3>4. CredFate(calls[x].cred) /\ DeviceFate(calls[x].device)
      BY <3>2 DEF Fates
    <3>5. devices[calls[x].device] = "deleted" => devices'[calls[x].device] = "deleted"
      BY <3>4 DEF DeviceFate
    <3>6. \/ creds[calls[x].cred].status # "deleted"
          \/ devices[calls[x].device] = "deleted"
      BY <1>2, <3>1 DEF HandInv
    <3> QED  BY <3>1, <3>2, <3>3, <3>4, <3>5, <3>6 DEF CredFate
  <2> QED  BY <2>1, <2>2
<1> QED  BY <1>1, <1>2 DEF HandInv

-----------------------------------------------------------------------------
(* What excuses the loss of a credential lasts as long as its device does. *)
LEMMA StoredFacts ==
  ASSUME StepInv, OwnedInv, NEW k \in Creds, BridgeCred(k)
  PROVE  /\ creds[k] # NoRow /\ creds[k].device \in Devices
         /\ \A c \in Calls : calls[c].cred # k
         /\ devices[creds[k].device] # "deleted"
<1>1. PICK r \in delivered : r.cred = k
  BY DEF BridgeCred
<1>2. LetGo(r)
  BY DEF OwnedInv
<1>3. creds[k] # NoRow /\ \A c \in Calls : calls[c].cred # k
  BY <1>1, <1>2 DEF LetGo
<1>4. creds[k].device \in Devices
  BY <1>3 DEF StepInv, RelayTypeOK, CredRow
<1>5. PICK q \in delivered : q.code # NoRow /\ creds[q.cred].device = creds[k].device
  BY DEF BridgeCred
<1>6. LetGo(q)
  BY DEF OwnedInv
<1> QED  BY <1>3, <1>4, <1>5, <1>6 DEF LetGo, Alive

LEMMA BridgeCredLasts ==
  ASSUME StepInv, OwnedInv, TablesAdvance, delivered \subseteq delivered',
         NEW k \in Creds, BridgeCred(k)
  PROVE  BridgeCred(k)'
<1>1. PICK q \in delivered : q.code # NoRow /\ creds[q.cred].device = creds[k].device
  BY DEF BridgeCred
<1>2. q.cred \in Creds /\ creds[q.cred] # NoRow
  BY DeliveredRow DEF OwnedInv, LetGo
<1>3. creds'[q.cred].device = creds'[k].device
  BY <1>1, <1>2, StoredFacts DEF TablesAdvance
<1> QED  BY <1>1, <1>3 DEF BridgeCred

LEMMA SettledLasts ==
  ASSUME StepInv, NEW c \in Calls, Moves(c), NEW n \in Creds, creds[n] # NoRow, Settled(n)
  PROVE  Settled(n)'
<1>1. ASSUME NEW x \in Calls, calls'[x].cred = n, calls'[x].pc \in {"retire", "unissue"}
      PROVE  FALSE
  <2>1. CASE x # c
    BY <1>1, <2>1 DEF Moves, Settled
  <2>2. CASE x = c
    <3>1. ASSUME NEW k \in Creds, IssueInsert(c, k)  PROVE FALSE
      BY <1>1, <2>2, <3>1, InsertFields
    <3>2. CASE calls[c].pc = "retire" /\ calls'[c].cred = calls[c].cred
      BY <1>1, <2>2, <3>2 DEF Settled
    <3> QED  BY <1>1, <2>2, <3>1, <3>2 DEF Moves
  <2> QED  BY <2>1, <2>2
<1> QED  BY <1>1 DEF Settled

LEMMA ExcusedLasts ==
  ASSUME StepInv, TablesAdvance, Fates, NEW c \in Calls, Moves(c), UNCHANGED stored,
         NEW u \in Creds, creds[u] # NoRow, devices'[creds'[u].device] # "deleted", Excused(u)
  PROVE  Excused(u)'
<1>0. creds[u].device \in Devices /\ creds'[u].device = creds[u].device
  BY DEF StepInv, RelayTypeOK, CredRow, TablesAdvance
<1>1. CASE devices[creds[u].device] = "revoked"
  <2>1. devices'[creds[u].device] = "revoked"
    BY <1>0, <1>1 DEF Fates, DeviceFate
  <2> QED  BY <1>0, <2>1 DEF Excused
<1>2. CASE Superseded(u)
  <2>1. PICK n \in Creds \ stored : /\ n # u /\ creds[n] # NoRow
                                    /\ creds[n].device = creds[u].device
                                    /\ creds[n].status # "deleted"
                                    /\ Settled(n)
    BY <1>2 DEF Superseded
  <2>2. creds'[n] # NoRow /\ creds'[n].device = creds'[u].device
    BY <1>0, <2>1 DEF TablesAdvance
  <2>3. ~Withdrawn(n)
    BY <2>1 DEF Settled, Withdrawn
  <2>4. creds'[n].status # "deleted"
    BY <1>0, <2>1, <2>3 DEF Fates, CredFate
  <2>5. Settled(n)'
    BY <2>1, SettledLasts
  <2> QED  BY <2>1, <2>2, <2>4, <2>5 DEF Excused, Superseded
<1> QED  BY <1>1, <1>2 DEF Excused

(* The credential that a renewal or rotation leaves in another's place.    *)
LEMMA ReplacedExcused ==
  ASSUME StepInv, OwnedInv, HandInv, TablesAdvance, UNCHANGED stored, stored \subseteq Creds,
         \A k \in stored : BridgeCred(k),
         NEW u \in Creds, creds[u] # NoRow, devices[creds[u].device] # "deleted", Replaced(u)
  PROVE  Excused(u)'
<1>1. PICK c \in Calls : /\ IssueRetire(c) /\ creds[u].device = calls[c].device
                         /\ calls[c].cred # u
  BY DEF Replaced
<1>a. PICK n : n = calls[c].cred
  OBVIOUS
<1>2. /\ calls[c].pc = "retire" /\ n \in Creds
      /\ RevokeAll(CredsOf(calls[c].device) \ {n})
      /\ \A k \in CredsOf(calls[c].device) \ {n} : k \in Creds /\ creds[k] # NoRow
      /\ Goto(c, "answer")
  BY <1>1, <1>a, RetireFields
<1>3. creds[n] # NoRow /\ creds[n].device = creds[u].device
  BY <1>1, <1>a, <1>2, KindAtStep, NoIdAssumption DEF InStep, HasRows
<1>4. n \notin stored
  BY <1>2, <1>a, StoredFacts
<1>5. creds[n].status # "deleted"
  BY <1>1, <1>a, <1>2, <1>3 DEF HandInv
<1>6. creds'[n].status # "deleted"
  BY <1>2, <1>3, <1>5, RevokeFields
<1>7. /\ \A x \in Calls : x # c => calls'[x] = calls[x]
      /\ calls'[c].pc = "answer"
  BY <1>2, GotoFields DEF StepInv, RelayTypeOK, RenewPcs, Winning
<1>8. \A x \in Calls : x # c => calls[x].cred # n
  BY <1>2, <1>a, NoIdAssumption DEF OwnedInv, OneHolder
<1>9. Settled(n)'
  BY <1>7, <1>8 DEF Settled
<1>10. creds'[n] # NoRow /\ creds'[n].device = creds'[u].device /\ n # u
  BY <1>1, <1>a, <1>2, <1>3 DEF TablesAdvance
<1>11. Superseded(u)'
  BY <1>2, <1>4, <1>6, <1>9, <1>10 DEF Superseded
<1> QED  BY <1>11 DEF Excused

LEMMA SoundLasts ==
  ASSUME StepInv, OwnedInv, HandInv, TablesAdvance, Fates, NEW c \in Calls, Moves(c),
         UNCHANGED stored, stored \subseteq Creds, \A k \in stored : BridgeCred(k),
         NEW u \in Creds, devices'[creds'[u].device] # "deleted", ~Withdrawn(u), Sound(u)
  PROVE  Sound(u)'
<1>0. /\ creds[u] # NoRow /\ creds[u].device \in Devices
      /\ creds'[u] # NoRow /\ creds'[u].device = creds[u].device
  BY DEF Sound, StepInv, RelayTypeOK, CredRow, TablesAdvance
<1>1. CASE Excused(u)
  BY <1>0, <1>1, ExcusedLasts DEF Sound
<1>2. CASE Authenticates(u) /\ devices'[creds[u].device] = "revoked"
  BY <1>0, <1>2 DEF Sound, Excused
<1>3. CASE Authenticates(u) /\ devices'[creds[u].device] # "revoked"
  <2>1. devices'[creds[u].device] = "active"
    BY <1>0, <1>3 DEF Authenticates, Fates, DeviceFate
  <2>2. CASE creds'[u].status = "live"
    BY <1>0, <2>1, <2>2 DEF Sound, Authenticates
  <2>3. CASE creds'[u].status # "live"
    <3>1. Replaced(u)
      BY <1>0, <1>3, <2>1, <2>3 DEF Fates, CredFate, Authenticates
    <3>2. devices[creds[u].device] # "deleted"
      BY <1>3 DEF Authenticates
    <3> QED  BY <1>0, <3>1, <3>2, ReplacedExcused DEF Sound
  <2> QED  BY <2>2, <2>3
<1> QED  BY <1>1, <1>2, <1>3 DEF Sound

-----------------------------------------------------------------------------
(* What the bridge holds and awaits is for a device that is still there.   *)
InHand ==
  /\ \A k \in stored : creds[k] # NoRow /\ devices[creds[k].device] # "deleted"
  /\ \A c \in Calls : Awaited(c) /\ calls[c].pc \in {"retire", "answer"} =>
       calls[c].cred \in Creds /\ devices[creds[calls[c].cred].device] # "deleted"

LEMMA AwaitedKind ==
  ASSUME BridgeInv, NEW c \in Calls, Awaited(c)
  PROVE  \/ c = setup /\ calls[c].kind = "poll" /\ identity = NoRow
         \/ \E l \in Loops : /\ loops[l].pc = "await" /\ loops[l].call = c
                             /\ calls[c].kind = "renew" /\ calls[c].by = identity
                             /\ identity # NoRow
BY NoCallAssumption DEF BridgeInv, Awaited, Engaged

LEMMA HeldStored ==
  ASSUME BridgeInv, identity # NoRow
  PROVE  /\ identity \in stored /\ identity \in Creds /\ BridgeCred(identity)
         /\ setup = NoRow
BY DEF BridgeInv, BridgeTypeOK

LEMMA HoldsInHand == StepInv /\ OwnedInv /\ BridgeInv => InHand
<1> SUFFICES ASSUME StepInv, OwnedInv, BridgeInv  PROVE InHand
  OBVIOUS
<1>1. \A k \in stored : k \in Creds /\ BridgeCred(k)
  BY DEF BridgeInv, BridgeTypeOK
<1>2. ASSUME NEW c \in Calls, Awaited(c), calls[c].pc \in {"retire", "answer"}
      PROVE  calls[c].cred \in Creds /\ devices[creds[calls[c].cred].device] # "deleted"
  <2>0. InStep(calls[c]) /\ calls[c].cred \in Creds
    BY <1>2, KindAtStep DEF InStep, HasRows
  <2>1. creds[calls[c].cred].device = calls[c].device
    BY <2>0, NoIdAssumption DEF InStep, HasRows
  <2>2. CASE calls[c].kind = "poll"
    <3>1. calls[c].pc = "answer"
      BY <1>2, <2>0, <2>2 DEF InStep, PollInStep, PollPcs, Holding
    <3> QED  BY <2>0, <2>2, <3>1 DEF OwnedInv, Alive
  <2>3. CASE calls[c].kind = "renew" /\ calls[c].by = identity /\ identity # NoRow
    <3>1. creds[identity].device = calls[c].device
      BY <2>0, <2>3 DEF InStep, RenewInStep
    <3> QED  BY <2>0, <2>1, <2>3, <3>1, HeldStored, StoredFacts
  <2> QED  BY <1>2, <2>2, <2>3, AwaitedKind
<1> QED  BY <1>1, <1>2, StoredFacts DEF InHand

LEMMA NextInHand == StepInv' /\ OwnedInv' /\ BridgeInv' => InHand'
BY HoldsInHand, PTL

(* How setup and loops follow a call of Cloud: those that no longer wait   *)
(* for it go on.                                                           *)
Waits ==
  /\ UNCHANGED <<identity, stored, marker, serving, aged>>
  /\ setup' \in {setup, NoRow}
  /\ setup' # NoRow => calls'[setup].pc # Idle
  /\ loops' \in [Loops -> LoopState]
  /\ \A l \in Loops :
       \/ loops'[l] = loops[l] /\ (loops[l].pc = "await" => calls'[loops[l].call].pc # Idle)
       \/ /\ loops[l].pc = "await"
          /\ loops'[l].pc = Idle \/ (loops'[l].pc = "beat" /\ loops'[l].held = loops[l].held)

LEMMA GoingOnFields ==
  ASSUME NEW l \in Loops, NEW k \in Creds \union {NoRow}
  PROVE  /\ GoingOn(l, k) \in LoopState
         /\ GoingOn(l, k).pc = Idle \/ (GoingOn(l, k).pc = "beat" /\ GoingOn(l, k).held = k)
<1>1. CASE l = "heartbeat"
  <2> DEFINE r == [pc |-> "beat", held |-> k, call |-> NoRow]
  <2>1. r \in LoopState /\ r.pc = "beat" /\ r.held = k
    BY DEF LoopState
  <2>2. GoingOn(l, k) = r
    BY <1>1 DEF GoingOn
  <2> QED  BY <2>1, <2>2
<1>2. CASE l # "heartbeat"
  <2>1. IdleLoop \in LoopState /\ IdleLoop.pc = Idle
    BY DEF LoopState, IdleLoop
  <2> QED  BY <1>2, <2>1 DEF GoingOn
<1> QED  BY <1>1, <1>2

LEMMA FollowWaits ==
  ASSUME BridgeInv, BridgeWaits
  PROVE  Waits
<1>1. loops \in [Loops -> LoopState]
  BY DEF BridgeInv, BridgeTypeOK
<1>2. ASSUME NEW l \in Loops
      PROVE  /\ loops'[l] \in LoopState
             /\ \/ loops'[l] = loops[l] /\ (loops[l].pc = "await" => calls'[loops[l].call].pc # Idle)
                \/ /\ loops[l].pc = "await"
                   /\ loops'[l].pc = Idle \/ (loops'[l].pc = "beat" /\ loops'[l].held = loops[l].held)
  <2>1. CASE loops[l].pc = "await" /\ calls'[loops[l].call].pc = Idle
    <3>1. loops'[l] = GoingOn(l, loops[l].held)
      BY <2>1 DEF BridgeWaits
    <3>2. loops[l].held \in Creds \union {NoRow}
      BY <1>1 DEF LoopState
    <3> QED  BY <2>1, <3>1, <3>2, GoingOnFields
  <2>2. CASE ~(loops[l].pc = "await" /\ calls'[loops[l].call].pc = Idle)
    BY <1>1, <2>2 DEF BridgeWaits
  <2> QED  BY <2>1, <2>2
<1>3. loops' \in [Loops -> LoopState]
  BY <1>2 DEF BridgeWaits
<1>4. setup' \in {setup, NoRow} /\ (setup' # NoRow => calls'[setup].pc # Idle)
  BY DEF BridgeWaits
<1> QED  BY <1>2, <1>3, <1>4 DEF Waits, BridgeWaits

LEMMA BusyCall ==
  ASSUME StepInv, NEW c \in Calls, calls[c].kind \in {"poll", "renew"}
  PROVE  calls[c].pc # Idle
BY KindAtStep, IdleFields DEF InStep, OtherInStep

LEMMA BeginWaits ==
  ASSUME StepInv, BridgeInv, UNCHANGED bridgeVars, NEW c \in Calls, calls[c].pc = Idle, Moves(c)
  PROVE  Waits
<1>1. \A x \in Calls : calls[x].kind \in {"poll", "renew"} => calls'[x].pc # Idle
  BY BusyCall DEF Moves
<1>2. setup # NoRow => calls'[setup].pc # Idle
  BY <1>1 DEF BridgeInv, BridgeTypeOK
<1>3. \A l \in Loops : loops[l].pc = "await" => calls'[loops[l].call].pc # Idle
  BY <1>1 DEF BridgeInv
<1> QED  BY <1>2, <1>3 DEF Waits, bridgeVars, BridgeInv, BridgeTypeOK

LEMMA CloudBridgeInv ==
  ASSUME StepInv, OwnedInv, TablesAdvance, BridgeInv, NEW c \in Calls, Moves(c), Waits,
         delivered \subseteq delivered'
  PROVE  BridgeInv'
<1>1. BridgeTypeOK'
  BY DEF BridgeInv, BridgeTypeOK, Waits
<1>2. \A k \in stored' : BridgeCred(k)'
  BY BridgeCredLasts DEF BridgeInv, BridgeTypeOK, Waits
<1>3. ASSUME NEW x \in Calls, calls[x].kind \in {"poll", "renew"}, calls'[x].pc # Idle
      PROVE  calls'[x].kind = calls[x].kind /\ calls'[x].by = calls[x].by
  BY <1>3, BusyCall DEF Moves
<1>4. ASSUME setup' # NoRow  PROVE identity' = NoRow /\ calls'[setup'].kind = "poll"
  <2>1. setup' = setup /\ calls'[setup].pc # Idle /\ setup \in Calls
    BY <1>4 DEF Waits, BridgeInv, BridgeTypeOK
  <2>2. identity = NoRow /\ calls[setup].kind = "poll"
    BY <1>4, <2>1 DEF BridgeInv
  <2> QED  BY <1>3, <2>1, <2>2 DEF Waits
<1>5. ASSUME NEW l \in Loops
      PROVE  /\ loops'[l].pc \in Engaged => identity' # NoRow /\ loops'[l].held = identity'
             /\ loops'[l].pc = "await" => /\ loops'[l].call \in Calls
                                          /\ calls'[loops'[l].call].kind = "renew"
                                          /\ calls'[loops'[l].call].by = identity'
  <2>0. /\ loops[l].pc \in Engaged => identity # NoRow /\ loops[l].held = identity
        /\ loops[l].pc = "await" => /\ loops[l].call \in Calls
                                    /\ calls[loops[l].call].kind = "renew"
                                    /\ calls[loops[l].call].by = identity
        /\ identity' = identity
    BY DEF BridgeInv, Waits
  <2>1. CASE loops'[l] = loops[l] /\ (loops[l].pc = "await" => calls'[loops[l].call].pc # Idle)
    BY <1>3, <2>0, <2>1
  <2>2. CASE /\ loops[l].pc = "await"
             /\ loops'[l].pc = Idle \/ (loops'[l].pc = "beat" /\ loops'[l].held = loops[l].held)
    BY <2>0, <2>2 DEF Engaged
  <2> QED  BY <2>1, <2>2 DEF Waits
<1> QED  BY <1>1, <1>2, <1>4, <1>5 DEF BridgeInv

LEMMA InsertSound ==
  ASSUME StepInv, NEW c \in Calls, NEW k \in Creds, IssueInsert(c, k)
  PROVE  Sound(k)'
<1>1. /\ creds'[k] # NoRow /\ creds'[k].device = calls[c].device /\ creds'[k].status = "live"
      /\ calls[c].device \in Devices /\ devices[calls[c].device] \notin {"deleted", "unused"}
      /\ UNCHANGED devices
  BY InsertFields
<1>2. devices[calls[c].device] \in {"active", "revoked"}
  BY <1>1 DEF StepInv, RelayTypeOK, DeviceStatus
<1> QED  BY <1>1, <1>2 DEF Sound, Authenticates, Excused

(* The credential in hand of a call that is awaited before and after.      *)
LEMMA AwaitedLasts ==
  ASSUME StepInv, OwnedInv, HandInv, BridgeInv, LifeInv, InHand', TablesAdvance, Fates,
         NEW c \in Calls, Moves(c), UNCHANGED stored,
         NEW x \in Calls, Awaited(x), Awaited(x)', calls'[x].pc \in {"retire", "answer"}
  PROVE  Sound(calls[x].cred)'
<1>0. /\ stored \subseteq Creds /\ \A k \in stored : BridgeCred(k)
      /\ calls'[x].cred \in Creds /\ devices'[creds'[calls'[x].cred].device] # "deleted"
  BY DEF BridgeInv, BridgeTypeOK, InHand
<1>1. CASE calls[x].pc \in {"retire", "answer"} /\ calls'[x].cred = calls[x].cred
  <2>1. PICK u : u = calls[x].cred
    OBVIOUS
  <2>2. u \in Creds /\ Sound(u)
    BY <1>0, <1>1, <2>1 DEF LifeInv
  <2>3. ~Withdrawn(u)
    BY <1>1, <2>1, <2>2, NoIdAssumption DEF Withdrawn, OwnedInv, OneHolder
  <2>4. Sound(u)'
    BY <1>0, <1>1, <2>1, <2>2, <2>3, SoundLasts
  <2> QED  BY <1>1, <2>1, <2>4
<1>2. ASSUME NEW k \in Creds, x = c, IssueInsert(c, k)  PROVE Sound(calls[x].cred)'
  <2>1. calls'[c].cred = k
    BY <1>2, InsertFields
  <2>2. Sound(k)'
    BY <1>2, InsertSound
  <2> QED  BY <1>2, <2>1, <2>2
<1> QED  BY <1>1, <1>2 DEF Moves

LEMMA CloudLifeInv ==
  ASSUME StepInv, OwnedInv, HandInv, BridgeInv, LifeInv, InHand', TablesAdvance, Fates,
         NEW c \in Calls, Moves(c), Waits
  PROVE  LifeInv'
<1>0. /\ UNCHANGED <<identity, stored, marker>>
      /\ stored \subseteq Creds /\ \A k \in stored : BridgeCred(k)
  BY DEF Waits, BridgeInv, BridgeTypeOK
<1>1. ASSUME NEW u \in stored
      PROVE  /\ u \in Creds /\ creds[u] # NoRow /\ ~Withdrawn(u)
             /\ devices'[creds'[u].device] # "deleted"
             /\ Excused(u) => Excused(u)'
  <2>1. u \in Creds /\ creds[u] # NoRow /\ ~Withdrawn(u)
    BY <1>0, StoredFacts DEF Withdrawn
  <2>2. devices'[creds'[u].device] # "deleted"
    BY <1>0 DEF InHand
  <2> QED  BY <1>0, <2>1, <2>2, ExcusedLasts
<1>2. ASSUME identity' # NoRow  PROVE Sound(identity)'
  <2>1. PICK u : u = identity
    OBVIOUS
  <2>2. u \in stored /\ Sound(u)
    BY <1>0, <1>2, <2>1 DEF BridgeInv, BridgeTypeOK, LifeInv
  <2>3. Sound(u)'
    BY <1>0, <1>1, <2>2, SoundLasts
  <2> QED  BY <1>0, <2>1, <2>3
<1>3. ASSUME NEW l \in Loops, loops'[l].pc = "revoked"  PROVE Excused(identity)'
  <2>1. PICK u : u = identity
    OBVIOUS
  <2>2. loops[l].pc = "revoked"
    BY <1>3 DEF Waits
  <2>3. u \in stored /\ Excused(u)
    BY <2>1, <2>2 DEF BridgeInv, BridgeTypeOK, Engaged, LifeInv
  <2>4. Excused(u)'
    BY <1>1, <2>3
  <2> QED  BY <1>0, <2>1, <2>4
<1>4. ASSUME marker'  PROVE \E k \in stored' : Excused(k)'
  BY <1>0, <1>1, <1>4 DEF LifeInv
<1>5. ASSUME NEW x \in Calls, Awaited(x)', calls'[x].pc \in {"retire", "answer"}
      PROVE  Sound(calls[x].cred)'
  <2>1. Awaited(x)
    BY <1>5, NoCallAssumption DEF Awaited, Waits
  <2> QED  BY <1>0, <1>5, <2>1, AwaitedLasts
<1> QED  BY <1>2, <1>3, <1>4, <1>5 DEF LifeInv

(* Steps of the bridge alone.                                              *)
Cell == <<creds, devices, calls, delivered, stored>>

LEMMA SameExcused ==
  ASSUME UNCHANGED Cell, NEW u
  PROVE  /\ Excused(u)' <=> Excused(u)
         /\ Sound(u)' <=> Sound(u)
         /\ BridgeCred(u)' <=> BridgeCred(u)
BY DEF Cell, Excused, Superseded, Settled, Sound, Authenticates, BridgeCred

LEMMA SameHandInv ==
  ASSUME HandInv, UNCHANGED Cell
  PROVE  HandInv'
BY DEF Cell, HandInv

(* Loop l goes where it holds the identity or nothing, and awaits nobody.  *)
LEMMA LocalKeeps ==
  ASSUME BridgeInv, LifeInv, UNCHANGED Cell, UNCHANGED setup,
         NEW l \in Loops, NEW new \in LoopState, loops' = [loops EXCEPT ![l] = new],
         BridgeTypeOK', OneLoop,
         \/ UNCHANGED <<identity, marker>>
         \/ /\ identity' = NoRow /\ marker' = TRUE
            /\ identity # NoRow /\ Excused(identity),
         new.pc \in Engaged => identity' # NoRow /\ new.held = identity',
         new.pc # "await", new.pc = "revoked" => Excused(identity)
  PROVE  BridgeInv' /\ LifeInv'
<1>0. loops'[l] = new /\ \A x \in Loops : x = l
  BY DEF OneLoop, BridgeInv, BridgeTypeOK
<1>1. \A k : (Excused(k)' <=> Excused(k)) /\ (Sound(k)' <=> Sound(k))
             /\ (BridgeCred(k)' <=> BridgeCred(k))
  BY SameExcused
<1>2. UNCHANGED <<stored, calls, setup>>
  BY DEF Cell
<1>3. identity' = identity \/ identity' = NoRow
  OBVIOUS
<1>4. BridgeInv'
  BY <1>0, <1>1, <1>2, <1>3 DEF BridgeInv
<1>5. identity' # NoRow => Sound(identity)'
  <2>1. PICK u : u = identity
    OBVIOUS
  <2> QED  BY <1>1, <1>3, <2>1 DEF LifeInv
<1>6. new.pc = "revoked" => Excused(identity)'
  <2>1. PICK u : u = identity
    OBVIOUS
  <2> QED  BY <1>1, <1>3, <2>1 DEF Engaged
<1>7. marker' => \E k \in stored' : Excused(k)'
  <2>1. PICK u : u = identity
    OBVIOUS
  <2>2. identity # NoRow => u \in stored
    BY <2>1 DEF BridgeInv, BridgeTypeOK
  <2> QED  BY <1>1, <1>2, <2>1, <2>2 DEF LifeInv
<1>8. ASSUME NEW x \in Calls, Awaited(x)', calls'[x].pc \in {"retire", "answer"}
      PROVE  Sound(calls[x].cred)'
  <2>1. PICK u : u = calls[x].cred
    OBVIOUS
  <2>2. Awaited(x)
    BY <1>0, <1>2, <1>8 DEF Awaited
  <2>3. Sound(u)
    BY <1>2, <1>8, <2>1, <2>2 DEF LifeInv
  <2> QED  BY <1>1, <1>2, <2>1, <2>3
<1> QED  BY <1>0, <1>4, <1>5, <1>6, <1>7, <1>8 DEF LifeInv

-----------------------------------------------------------------------------
(* An answer the bridge has waited for takes the place of what it held.    *)
LEMMA StoreKeeps ==
  ASSUME StepInv, OwnedInv, TablesAdvance, BridgeInv, LifeInv,
         NEW c \in Calls, Answer(c), Awaited(c), NEW k \in Creds, k = calls[c].cred, Store(k),
         BridgeCred(k)', UNCHANGED aged, setup' = NoRow, serving' \in BOOLEAN,
         loops' \in [Loops -> LoopState],
         \A l \in Loops : /\ loops'[l].pc \notin {"await", "revoked"}
                          /\ loops'[l].pc \in Engaged => loops'[l].held = k
  PROVE  BridgeInv' /\ LifeInv'
<1>0. /\ UNCHANGED <<creds, devices>> /\ delivered \subseteq delivered'
      /\ identity' = k /\ marker' = FALSE /\ stored' = stored \union {k}
      /\ calls[c].pc = "answer"
  BY DEF Answer, Store, At
<1>1. BridgeTypeOK'
  BY <1>0 DEF BridgeInv, BridgeTypeOK
<1>2. \A x \in stored' : BridgeCred(x)'
  BY <1>0, BridgeCredLasts DEF BridgeInv, BridgeTypeOK
<1>3. k # NoRow
  BY NoIdAssumption
<1>4. BridgeInv'
  BY <1>0, <1>1, <1>2, <1>3 DEF BridgeInv
<1>5. Sound(k)
  BY <1>0 DEF LifeInv
<1>6. Superseded(k) => Superseded(k)'
  <2> SUFFICES ASSUME Superseded(k)  PROVE Superseded(k)'
    OBVIOUS
  <2>1. PICK n \in Creds \ stored : /\ n # k /\ creds[n] # NoRow
                                    /\ creds[n].device = creds[k].device
                                    /\ creds[n].status # "deleted"
                                    /\ Settled(n)
    BY DEF Superseded
  <2>2. Settled(n)'
    BY <2>1, EndMoves, SettledLasts DEF Answer
  <2> QED  BY <1>0, <2>1, <2>2 DEF Superseded
<1>7. Sound(k)'
  BY <1>0, <1>5, <1>6 DEF Sound, Authenticates, Excused
<1>8. \A x \in Calls : ~Awaited(x)'
  BY NoCallAssumption DEF Awaited
<1> QED  BY <1>0, <1>4, <1>7, <1>8 DEF LifeInv

LEMMA SetupAnsweredKeeps ==
  ASSUME StepInv, OwnedInv, TablesAdvance, BridgeInv, LifeInv, SetupAnswered
  PROVE  BridgeInv' /\ LifeInv'
<1>1. PICK c \in Calls : c = setup
  BY DEF SetupAnswered, BridgeInv, BridgeTypeOK
<1>2. /\ Answer(c) /\ identity = NoRow /\ calls[c].kind = "poll"
      /\ serving' = TRUE /\ setup' = NoRow /\ UNCHANGED <<aged, loops>>
  BY <1>1 DEF SetupAnswered, BridgeInv
<1>3. PICK k \in Creds : k = calls[c].cred
  BY <1>2, AnswerFields
<1>4. Store(k)
  BY <1>1, <1>3 DEF SetupAnswered
<1> DEFINE r == [code |-> calls[c].code, by |-> calls[c].by, cred |-> k]
<1>5. PICK q : q = r
  OBVIOUS
<1>6. q \in delivered' /\ q.cred = k /\ q.code = calls[c].code
  BY <1>2, <1>3, <1>5 DEF Answer
<1>7. q.code # NoRow
  BY <1>2, <1>6, AnsweringCall, NoIdAssumption DEF Answer, At
<1>8. BridgeCred(k)'
  BY <1>6, <1>7 DEF BridgeCred
<1>9. Awaited(c)
  BY <1>1 DEF Awaited
<1>10. /\ loops' \in [Loops -> LoopState]
       /\ \A l \in Loops : /\ loops'[l].pc \notin {"await", "revoked"}
                           /\ loops'[l].pc \in Engaged => loops'[l].held = k
  BY <1>2 DEF BridgeInv, BridgeTypeOK, Engaged
<1> QED  BY <1>2, <1>3, <1>4, <1>8, <1>9, <1>10, StoreKeeps

LEMMA RenewAnsweredKeeps ==
  ASSUME StepInv, OwnedInv, TablesAdvance, BridgeInv, LifeInv, OneLoop,
         NEW l \in Loops, RenewAnswered(l)
  PROVE  BridgeInv' /\ LifeInv'
<1>1. PICK c \in Calls : c = loops[l].call
  BY DEF RenewAnswered, BridgeInv
<1>2. /\ Answer(c) /\ identity # NoRow /\ calls[c].kind = "renew" /\ calls[c].by = identity
      /\ UNCHANGED <<serving, aged, setup>> /\ loops[l].pc = "await"
  BY <1>1 DEF RenewAnswered, BridgeInv, Engaged
<1>3. PICK k \in Creds : k = calls[c].cred
  BY <1>2, AnswerFields
<1>4. Store(k) /\ GoOn(l, k)
  BY <1>1, <1>3 DEF RenewAnswered, StoreRenewal
<1>5. identity \in Creds /\ BridgeCred(identity) /\ setup = NoRow
  BY <1>2, HeldStored
<1>6. creds[k].device = creds[identity].device
  BY <1>2, <1>3, KindAtStep, NoIdAssumption DEF InStep, RenewInStep, HasRows
<1>7. PICK q \in delivered : q.code # NoRow /\ creds[q.cred].device = creds[identity].device
  BY <1>5 DEF BridgeCred
<1> DEFINE r == [code |-> calls[c].code, by |-> calls[c].by, cred |-> k]
<1>8. PICK p : p = r
  OBVIOUS
<1>9. p \in delivered' /\ p.cred = k /\ q \in delivered' /\ UNCHANGED creds
  BY <1>2, <1>3, <1>8 DEF Answer
<1>10. BridgeCred(k)'
  BY <1>6, <1>7, <1>9 DEF BridgeCred
<1>11. Awaited(c)
  BY <1>1, <1>2 DEF Awaited
<1>12. PICK new : new = GoingOn(l, k)
  OBVIOUS
<1>13. new \in LoopState /\ (new.pc = Idle \/ (new.pc = "beat" /\ new.held = k))
  BY <1>12, GoingOnFields
<1>14. loops' = [loops EXCEPT ![l] = new] /\ \A x \in Loops : x = l
  BY <1>4, <1>12 DEF GoOn, OneLoop
<1>15. /\ loops' \in [Loops -> LoopState]
       /\ \A x \in Loops : /\ loops'[x].pc \notin {"await", "revoked"}
                           /\ loops'[x].pc \in Engaged => loops'[x].held = k
  BY <1>13, <1>14 DEF BridgeInv, BridgeTypeOK, Engaged
<1>16. serving' \in BOOLEAN /\ setup' = NoRow /\ UNCHANGED aged
  BY <1>2, <1>5 DEF BridgeInv, BridgeTypeOK
<1> QED  BY <1>2, <1>3, <1>4, <1>10, <1>11, <1>15, <1>16, StoreKeeps

(* A setup that polls, and a renewal that is sent, begin a call.           *)
LEMMA BegunLife ==
  ASSUME StepInv, OwnedInv, HandInv, BridgeInv, LifeInv, InHand', TablesAdvance, Fates,
         NEW c \in Calls, Moves(c), calls[c].pc = Idle,
         calls'[c].pc \notin {"retire", "answer"},
         UNCHANGED <<identity, stored, marker>>,
         \A x \in Calls : Awaited(x)' => x = c \/ Awaited(x),
         \A l \in Loops : loops'[l].pc = "revoked" => loops[l].pc = "revoked"
  PROVE  LifeInv'
<1>0. stored \subseteq Creds /\ \A k \in stored : BridgeCred(k)
  BY DEF BridgeInv, BridgeTypeOK
<1>1. ASSUME NEW u \in stored
      PROVE  /\ u \in Creds /\ creds[u] # NoRow /\ ~Withdrawn(u)
             /\ devices'[creds'[u].device] # "deleted"
             /\ Excused(u) => Excused(u)'
             /\ Sound(u) => Sound(u)'
  <2>1. u \in Creds /\ creds[u] # NoRow /\ ~Withdrawn(u)
    BY <1>0, StoredFacts DEF Withdrawn
  <2>2. devices'[creds'[u].device] # "deleted"
    BY <1>0 DEF InHand
  <2> QED  BY <1>0, <2>1, <2>2, ExcusedLasts, SoundLasts
<1>2. PICK u : u = identity
  OBVIOUS
<1>3. identity # NoRow => u \in stored /\ Sound(u)
  BY <1>2 DEF BridgeInv, BridgeTypeOK, LifeInv
<1>4. identity' # NoRow => Sound(identity)'
  BY <1>1, <1>2, <1>3
<1>5. ASSUME NEW l \in Loops, loops'[l].pc = "revoked"  PROVE Excused(identity)'
  <2>1. identity # NoRow /\ Excused(u)
    BY <1>2, <1>5 DEF LifeInv, BridgeInv, Engaged
  <2> QED  BY <1>1, <1>2, <1>3, <2>1
<1>6. marker' => \E k \in stored' : Excused(k)'
  BY <1>1 DEF LifeInv
<1>7. ASSUME NEW x \in Calls, Awaited(x)', calls'[x].pc \in {"retire", "answer"}
      PROVE  Sound(calls[x].cred)'
  BY <1>7, AwaitedLasts
<1> QED  BY <1>4, <1>5, <1>6, <1>7 DEF LifeInv

LEMMA SetupPollKeeps ==
  ASSUME StepInv, OwnedInv, HandInv, BridgeInv, LifeInv, StepInv', OwnedInv', TablesAdvance,
         NEW c \in Calls, NEW p \in Codes, SetupPoll(c, p)
  PROVE  BridgeInv' /\ LifeInv'
<1>1. /\ identity = NoRow /\ setup = NoRow /\ PollRead(c, p) /\ calls'[c].pc = "device"
      /\ setup' = c /\ UNCHANGED <<identity, stored, marker, serving, aged, loops>>
  BY DEF SetupPoll
<1>2. Moves(c) /\ Fates /\ delivered' = delivered
  BY <1>1, CallActsFates DEF CallActs, DeviceBegins, PollRead, OnlyCalls
<1>3. calls[c].pc = Idle /\ calls'[c].kind = "poll"
  <2> DEFINE call == [IdleCall EXCEPT !.kind = "poll", !.code = p,
                        !.pc = IF Claimable(p) THEN "device" ELSE "expire"]
  <2>1. call.kind = "poll"
    BY DEF IdleCall
  <2>2. Begin(c, call)
    BY <1>1 DEF PollRead
  <2> HIDE DEF call
  <2> QED  BY <2>1, <2>2 DEF Begin, StepInv, RelayTypeOK
<1>4. \A k \in stored : BridgeCred(k)'
  BY <1>2, BridgeCredLasts DEF BridgeInv, BridgeTypeOK
<1>5. BridgeTypeOK'
  BY <1>1 DEF BridgeInv, BridgeTypeOK
<1>6. \A l \in Loops : loops[l].pc \notin Engaged
  BY <1>1 DEF BridgeInv
<1>7. BridgeInv'
  BY <1>1, <1>3, <1>4, <1>5, <1>6 DEF BridgeInv, Engaged
<1>8. InHand'
  BY <1>7, NextInHand
<1>9. \A x \in Calls : Awaited(x)' => x = c \/ Awaited(x)
  BY <1>1 DEF Awaited
<1>10. LifeInv'
  BY <1>1, <1>2, <1>3, <1>8, <1>9, BegunLife
<1> QED  BY <1>7, <1>10

LEMMA RenewSendKeeps ==
  ASSUME StepInv, OwnedInv, HandInv, BridgeInv, LifeInv, OneLoop, StepInv', OwnedInv',
         TablesAdvance, NEW l \in Loops, NEW c \in Calls, RenewSend(l, c)
  PROVE  BridgeInv' /\ LifeInv'
<1>0. /\ loops[l].pc = "renew" /\ identity # NoRow /\ loops[l].held = identity
      /\ loops[l] \in LoopState
  BY DEF RenewSend, BridgeInv, BridgeTypeOK, Engaged
<1>a. identity \in Creds /\ setup = NoRow
  BY <1>0, HeldStored
<1>1. /\ RenewRead(c, identity)
      /\ loops' = [loops EXCEPT ![l].pc = "await", ![l].call = c]
      /\ UNCHANGED <<identity, stored, marker, serving, aged, setup>>
  BY <1>0 DEF RenewSend
<1>2. Moves(c) /\ Fates /\ delivered' = delivered
  BY <1>1, <1>a, CallActsFates DEF CallActs, DeviceBegins, RenewRead, OnlyCalls
<1>3. calls[c].pc = Idle /\ calls'[c].kind = "renew" /\ calls'[c].pc = "read"
      /\ calls'[c].by = identity
  <2> DEFINE call == [IdleCall EXCEPT !.kind = "renew", !.pc = "read",
                               !.device = creds[identity].device, !.by = identity]
  <2>1. call.kind = "renew" /\ call.pc = "read" /\ call.by = identity
    BY DEF IdleCall
  <2>2. Begin(c, call)
    BY <1>1 DEF RenewRead
  <2> HIDE DEF call
  <2> QED  BY <2>1, <2>2 DEF Begin, StepInv, RelayTypeOK
<1>4. \A k \in stored : BridgeCred(k)'
  BY <1>2, BridgeCredLasts DEF BridgeInv, BridgeTypeOK
<1>b. PICK new : new = [loops[l] EXCEPT !.pc = "await", !.call = c]
  OBVIOUS
<1>5. new \in LoopState /\ new.pc = "await" /\ new.held = identity /\ new.call = c
  BY <1>0, <1>b DEF LoopState
<1>6. loops' = [loops EXCEPT ![l] = new] /\ \A x \in Loops : x = l
  BY <1>1, <1>b DEF OneLoop
<1>7. loops' \in [Loops -> LoopState] /\ loops'[l] = new
  BY <1>5, <1>6 DEF BridgeInv, BridgeTypeOK
<1>8. BridgeTypeOK'
  BY <1>1, <1>7 DEF BridgeInv, BridgeTypeOK
<1>9. BridgeInv'
  BY <1>0, <1>1, <1>3, <1>4, <1>5, <1>6, <1>7, <1>8, <1>a DEF BridgeInv
<1>10. InHand'
  BY <1>9, NextInHand
<1>11. \A x \in Calls : Awaited(x)' => x = c \/ Awaited(x)
  BY <1>1, <1>5, <1>6, <1>7 DEF Awaited
<1>12. \A x \in Loops : loops'[x].pc # "revoked"
  BY <1>5, <1>6, <1>7
<1>13. LifeInv'
  BY <1>1, <1>2, <1>3, <1>10, <1>11, <1>12, BegunLife
<1> QED  BY <1>9, <1>13

(* The steps of the loop in which Cloud has no part.                       *)
LocalStep(l) == \/ Load(l) \/ RenewRejected(l) \/ RenewTimeout(l) \/ Heartbeat(l)
                \/ HeartbeatRevoked(l) \/ StopServing(l) \/ HeartbeatTimeout(l)

LEMMA LocalStepKeeps ==
  ASSUME StepInv, BridgeInv, LifeInv, OneLoop, NEW l \in Loops, LocalStep(l)
  PROVE  BridgeInv' /\ LifeInv'
<1>0. /\ loops \in [Loops -> LoopState] /\ loops[l] \in LoopState
      /\ loops[l].pc \in Engaged => identity # NoRow /\ loops[l].held = identity
      /\ identity \in Creds \union {NoRow}
  BY DEF BridgeInv, BridgeTypeOK
<1>1. UNCHANGED Cell /\ UNCHANGED <<aged, setup>> /\ serving' \in BOOLEAN
  BY DEF LocalStep, Load, RenewRejected, RenewTimeout, Heartbeat, HeartbeatRevoked, StopServing,
         HeartbeatTimeout, Cell, relayVars, BridgeInv, BridgeTypeOK
<1>2. IdleLoop \in LoopState /\ IdleLoop.pc = Idle
  BY DEF LoopState, IdleLoop
<1>3. \/ UNCHANGED <<identity, marker>>
      \/ /\ identity' = NoRow /\ marker' = TRUE
         /\ identity # NoRow /\ Excused(identity)
  <2>1. CASE RenewRejected(l)
    <3>1. identity # NoRow /\ ~Authenticates(identity)
      BY <1>0, <2>1 DEF RenewRejected, Engaged
    <3>2. Excused(identity)
      BY <3>1 DEF LifeInv, Sound
    <3> QED  BY <2>1, <3>1, <3>2 DEF RenewRejected, Erase
  <2>2. CASE HeartbeatRevoked(l)
    BY <1>0, <2>2 DEF HeartbeatRevoked, Erase, Engaged, LifeInv
  <2> QED  BY <2>1, <2>2
           DEF LocalStep, Load, RenewTimeout, Heartbeat, StopServing, HeartbeatTimeout
<1>4. \E new \in LoopState :
        /\ loops' = [loops EXCEPT ![l] = new] /\ new.pc # "await"
        /\ new.pc \in Engaged => identity' # NoRow /\ new.held = identity'
        /\ new.pc = "revoked" => Excused(identity)
  <2>1. CASE LoopEnds(l)
    BY <1>2, <2>1 DEF LoopEnds, Engaged
  <2>2. CASE GoOn(l, identity) /\ identity' = identity /\ identity # NoRow
    <3>1. PICK new : new = GoingOn(l, identity)
      OBVIOUS
    <3>2. new \in LoopState /\ (new.pc = Idle \/ (new.pc = "beat" /\ new.held = identity))
      BY <1>0, <3>1, GoingOnFields
    <3> QED  BY <2>2, <3>1, <3>2 DEF GoOn, Engaged
  <2>3. CASE Load(l) /\ identity \in aged
    <3>1. PICK new : new = [pc |-> "renew", held |-> identity, call |-> NoRow]
      OBVIOUS
    <3>2. new \in LoopState /\ new.pc = "renew" /\ new.held = identity
      BY <1>0, <3>1 DEF LoopState
    <3> QED  BY <2>3, <3>1, <3>2 DEF Load
  <2>4. CASE LoopGoto(l, "revoked") /\ Heartbeat(l) /\ ~Authenticates(loops[l].held)
    <3>0. PICK new : new = [loops[l] EXCEPT !.pc = "revoked"]
      OBVIOUS
    <3>1. new \in LoopState /\ new.pc = "revoked" /\ new.held = loops[l].held
      BY <1>0, <3>0 DEF LoopState
    <3>2. loops[l].held = identity /\ identity # NoRow /\ identity' = identity
      BY <1>0, <2>4 DEF Heartbeat, Engaged
    <3>3. Excused(identity)
      BY <2>4, <3>2 DEF LifeInv, Sound
    <3> QED  BY <2>4, <3>0, <3>1, <3>2, <3>3 DEF LoopGoto
  <2>5. CASE LoopGoto(l, "stop")
    <3>0. PICK new : new = [loops[l] EXCEPT !.pc = "stop"]
      OBVIOUS
    <3>1. new \in LoopState /\ new.pc = "stop"
      BY <1>0, <3>0 DEF LoopState
    <3> QED  BY <2>5, <3>0, <3>1 DEF LoopGoto, Engaged
  <2>6. Load(l) => identity # NoRow /\ identity' = identity
    BY DEF Load
  <2>7. RenewTimeout(l) => loops[l].held = identity /\ identity' = identity /\ identity # NoRow
    BY <1>0 DEF RenewTimeout, Engaged
  <2> QED  BY <2>1, <2>2, <2>3, <2>4, <2>5, <2>6, <2>7
           DEF LocalStep, Load, RenewRejected, RenewTimeout, Heartbeat, HeartbeatRevoked,
               StopServing, HeartbeatTimeout
<1>5. BridgeTypeOK'
  <2>1. loops' \in [Loops -> LoopState]
    BY <1>0, <1>4
  <2> QED  BY <1>1, <1>3, <2>1 DEF Cell, BridgeInv, BridgeTypeOK
<1>6. PICK new \in LoopState :
        /\ loops' = [loops EXCEPT ![l] = new] /\ new.pc # "await"
        /\ new.pc \in Engaged => identity' # NoRow /\ new.held = identity'
        /\ new.pc = "revoked" => Excused(identity)
  BY <1>4
<1> QED  BY <1>1, <1>3, <1>5, <1>6, LocalKeeps

(* Every step of the two is a step of Cloud's, or none.                    *)
LEMMA NextIsRelays ==
  ASSUME BridgeInv, [Next]_vars
  PROVE  [RelayNext]_relayVars
<1>1. CASE Cloud
  BY <1>1 DEF Cloud, CloudStep, CloudAnswer, CloudFailure, RelayNext
<1>2. ASSUME NEW c \in Calls, NEW p \in Codes, SetupPoll(c, p)  PROVE RelayNext
  BY <1>2 DEF SetupPoll, RelayNext, DeviceBegins
<1>3. CASE SetupAnswered
  BY <1>3 DEF SetupAnswered, RelayNext, BridgeInv, BridgeTypeOK
<1>4. ASSUME NEW l \in Loops, LoopNext(l)  PROVE [RelayNext]_relayVars
  <2>1. CASE LocalStep(l)
    BY <2>1 DEF LocalStep, Load, RenewRejected, RenewTimeout, Heartbeat, HeartbeatRevoked,
                StopServing, HeartbeatTimeout
  <2>2. CASE RenewAnswered(l)
    BY <2>2 DEF RenewAnswered, RelayNext, BridgeInv
  <2>3. ASSUME NEW c \in Calls, RenewSend(l, c)  PROVE RelayNext
    <3>1. loops[l].held \in Creds
      BY <2>3, HeldStored DEF RenewSend, BridgeInv, Engaged
    <3> QED  BY <2>3, <3>1 DEF RenewSend, RelayNext, DeviceBegins
  <2> QED  BY <1>4, <2>1, <2>2, <2>3 DEF LoopNext, LoopStep, LocalStep
<1>5. ASSUME NEW k \in Creds, Age(k)  PROVE UNCHANGED relayVars
  BY <1>5 DEF Age
<1>6. CASE UNCHANGED vars
  BY <1>6 DEF vars
<1> QED  BY <1>1, <1>2, <1>3, <1>4, <1>5, <1>6 DEF Next

LEMMA NextHandInv ==
  ASSUME StepInv, OwnedInv, HandInv, TablesAdvance, "expiry" \notin Faults, [RelayNext]_relayVars
  PROVE  HandInv'
<1>1. CASE Environment
  BY <1>1, EnvironmentFates DEF HandInv
<1>2. ASSUME NEW c \in Calls, CallActs(c)  PROVE HandInv'
  BY <1>2, CallActsFates, StepHandInv
<1>3. CASE UNCHANGED relayVars
  BY <1>3 DEF relayVars, HandInv
<1> QED  BY <1>1, <1>2, <1>3 DEF RelayNext, CallActs

(* A step of Cloud of which the bridge takes note, or none.                *)
LEMMA CloudKeeps ==
  ASSUME StepInv, OwnedInv, HandInv, BridgeInv, LifeInv, StepInv', OwnedInv', TablesAdvance,
         NEW c \in Calls, CallActs(c), Waits
  PROVE  BridgeInv' /\ LifeInv'
<1>1. Moves(c) /\ Fates
  BY CallActsFates
<1>2. delivered \subseteq delivered'
  <2>1. CASE Answer(c)
    BY <2>1 DEF Answer
  <2>2. CASE ~Answer(c)
    BY <2>2 DEF CallActs, AdminBegins, DeviceBegins, HumanAuthorizes, RevokeForm, AuthorizeRead,
         RotateRead, RevokeDevice, PollRead, RenewRead, CallStep, CallFails, Authorize, PollAgain,
         PollExpire, PollClaim, PollDiscard, UndoDevice, UndoSession, IssueRead, IssueOrphaned,
         IssueRetire, IssueUndo, RevokeCreds, PollDevice, IssueInsert, Crash, Refused, OnlyCalls
  <2> QED  BY <2>1, <2>2
<1>3. BridgeInv'
  BY <1>1, <1>2, CloudBridgeInv
<1>4. LifeInv'
  BY <1>1, <1>3, NextInHand, CloudLifeInv
<1> QED  BY <1>3, <1>4

LEMMA SameBridge ==
  ASSUME BridgeInv, LifeInv, UNCHANGED Cell,
         UNCHANGED <<identity, marker, serving, setup, loops>>, aged' \subseteq Creds
  PROVE  BridgeInv' /\ LifeInv'
<1>1. \A k : (Excused(k)' <=> Excused(k)) /\ (Sound(k)' <=> Sound(k))
             /\ (BridgeCred(k)' <=> BridgeCred(k))
  BY SameExcused
<1>2. BridgeInv'
  BY <1>1 DEF Cell, BridgeInv, BridgeTypeOK
<1>3. PICK u : u = identity
  OBVIOUS
<1>4. (identity' # NoRow => Sound(identity)')
      /\ (\A l \in Loops : loops'[l].pc = "revoked" => Excused(identity)')
  BY <1>1, <1>3 DEF LifeInv
<1>5. marker' => \E k \in stored' : Excused(k)'
  BY <1>1 DEF Cell, LifeInv
<1>6. ASSUME NEW x \in Calls, Awaited(x)', calls'[x].pc \in {"retire", "answer"}
      PROVE  Sound(calls[x].cred)'
  <2>1. PICK v : v = calls[x].cred
    OBVIOUS
  <2>2. Awaited(x) /\ calls'[x] = calls[x]
    BY <1>6 DEF Awaited, Cell
  <2>3. Sound(v)
    BY <1>6, <2>1, <2>2 DEF LifeInv
  <2> QED  BY <1>1, <2>1, <2>2, <2>3
<1> QED  BY <1>2, <1>4, <1>5, <1>6 DEF LifeInv

LEMMA NextKeeps ==
  ASSUME StepInv, OwnedInv, HandInv, BridgeInv, LifeInv, "expiry" \notin Faults, OneLoop,
         [Next]_vars
  PROVE  StepInv' /\ OwnedInv' /\ HandInv' /\ BridgeInv' /\ LifeInv'
<1>0. [RelayNext]_relayVars
  BY NextIsRelays
<1>1. StepInv' /\ TablesAdvance
  BY <1>0, NextStepInv
<1>2. OwnedInv' /\ HandInv'
  BY <1>0, <1>1, NextOwnedInv, NextHandInv
<1>3. ASSUME Environment, UNCHANGED bridgeVars  PROVE BridgeInv' /\ LifeInv'
  <2>1. UNCHANGED Cell
    BY <1>3, EnvironmentFates DEF Cell, bridgeVars
  <2> QED  BY <1>3, <2>1, SameBridge DEF bridgeVars, BridgeInv, BridgeTypeOK
<1>4. ASSUME NEW c \in Calls, AdminBegins(c), UNCHANGED bridgeVars  PROVE BridgeInv' /\ LifeInv'
  <2>1. CallActs(c) /\ calls[c].pc = Idle
    BY <1>4 DEF CallActs, AdminBegins, HumanAuthorizes, RevokeForm, AuthorizeRead, RotateRead,
                RevokeDevice, Begin
  <2>2. Moves(c)
    BY <2>1, CallActsFates
  <2>3. Waits
    BY <1>4, <2>1, <2>2, BeginWaits
  <2> QED  BY <1>1, <1>2, <2>1, <2>3, CloudKeeps
<1>5. ASSUME NEW c \in Calls, CloudStep(c) \/ CloudAnswer(c) \/ CloudFailure(c)
      PROVE  BridgeInv' /\ LifeInv'
  <2>1. CallActs(c) /\ BridgeWaits
    BY <1>5 DEF CallActs, CloudStep, CloudAnswer, CloudFailure
  <2> QED  BY <1>1, <1>2, <2>1, FollowWaits, CloudKeeps
<1>6. ASSUME NEW c \in Calls, NEW p \in Codes, SetupPoll(c, p)  PROVE BridgeInv' /\ LifeInv'
  BY <1>1, <1>2, <1>6, SetupPollKeeps
<1>7. ASSUME SetupAnswered  PROVE BridgeInv' /\ LifeInv'
  BY <1>1, <1>7, SetupAnsweredKeeps
<1>8. ASSUME NEW l \in Loops, LoopNext(l)  PROVE BridgeInv' /\ LifeInv'
  <2>1. ASSUME NEW c \in Calls, RenewSend(l, c)  PROVE BridgeInv' /\ LifeInv'
    BY <1>1, <1>2, <2>1, RenewSendKeeps
  <2>2. CASE RenewAnswered(l)
    BY <1>1, <2>2, RenewAnsweredKeeps
  <2>3. CASE LocalStep(l)
    BY <2>3, LocalStepKeeps
  <2> QED  BY <1>8, <2>1, <2>2, <2>3 DEF LoopNext, LoopStep, LocalStep
<1>9. ASSUME NEW k \in Creds, Age(k)  PROVE BridgeInv' /\ LifeInv'
  <2>1. UNCHANGED Cell /\ aged' \subseteq Creds
    BY <1>9 DEF Age, Cell, relayVars, BridgeInv, BridgeTypeOK
  <2> QED  BY <1>9, <2>1, SameBridge DEF Age
<1>10. ASSUME UNCHANGED vars  PROVE BridgeInv' /\ LifeInv'
  <2>1. UNCHANGED Cell
    BY <1>10 DEF vars, relayVars, bridgeVars, Cell
  <2> QED  BY <1>10, <2>1, SameBridge DEF vars, bridgeVars, BridgeInv, BridgeTypeOK
<1>11. BridgeInv' /\ LifeInv'
  BY <1>3, <1>4, <1>5, <1>6, <1>7, <1>8, <1>9, <1>10 DEF Next, Cloud
<1> QED  BY <1>1, <1>2, <1>11

LEMMA InitBridge == Init => StepInv /\ OwnedInv /\ HandInv /\ BridgeInv /\ LifeInv
<1> SUFFICES ASSUME Init  PROVE StepInv /\ OwnedInv /\ HandInv /\ BridgeInv /\ LifeInv
  OBVIOUS
<1>1. StepInv /\ OwnedInv
  BY InitStepInv, InitOwnedInv DEF Init
<1>2. HandInv
  BY IdleFields DEF Init, RelayInit, HandInv
<1>3. \A l \in Loops : loops[l] \in LoopState /\ loops[l].pc = Idle
  BY DEF Init, BridgeInit, IdleLoop, LoopState
<1>4. BridgeTypeOK
  BY <1>3 DEF Init, BridgeInit, BridgeTypeOK
<1>5. BridgeInv
  BY <1>3, <1>4 DEF Init, BridgeInit, BridgeInv, Engaged
<1>6. LifeInv
  BY <1>3, IdleFields DEF Init, BridgeInit, RelayInit, LifeInv
<1> QED  BY <1>1, <1>2, <1>5, <1>6

(* A bridge that has but its heartbeat, and whose credentials do not lapse *)
(* unrenewed, erases its identity only when its device was revoked or when *)
(* Cloud has issued it a credential that it never got: whatever replies    *)
(* are lost, statements fail, and admins rotate or revoke meanwhile.       *)
THEOREM ErasedOnlyForACause ==
  ASSUME OneLoop, "expiry" \notin Faults
  PROVE  Spec => []ErasedForACause
<1> DEFINE All == StepInv /\ OwnedInv /\ HandInv /\ BridgeInv /\ LifeInv
<1>1. Init => All
  BY InitBridge
<1>2. All /\ [Next]_vars => All'
  BY NextKeeps
<1>3. All => ErasedForACause
  <2> SUFFICES ASSUME All, marker  PROVE ErasedForACause
    BY DEF ErasedForACause
  <2>1. PICK k \in stored : Excused(k)
    BY DEF LifeInv
  <2>2. k \in Creds /\ creds[k] # NoRow /\ creds[k].device \in Devices
    BY <2>1, StoredFacts DEF BridgeInv, BridgeTypeOK
  <2>3. CASE devices[creds[k].device] = "revoked"
    BY <2>2, <2>3 DEF ErasedForACause, SomeRevoked
  <2>4. CASE Superseded(k)
    BY <2>4 DEF ErasedForACause, Superseded
  <2> QED  BY <2>1, <2>3, <2>4 DEF Excused
<1> HIDE DEF All
<1> QED  BY <1>1, <1>2, <1>3, PTL DEF Spec
=============================================================================
