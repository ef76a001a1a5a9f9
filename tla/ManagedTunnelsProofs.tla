------------------------ MODULE ManagedTunnelsProofs ------------------------
(***************************************************************************)
(* Proofs about ManagedTunnels, for any number of devices, tunnels and     *)
(* calls in flight, and every set and number of faults.                    *)
(***************************************************************************)
EXTENDS ManagedTunnels, TLAPS

(* The steps at which a fetch holds a tunnel it has created, a revocation  *)
(* one it takes down, and a pass one of the ledger's.                      *)
Making == {"ingress", "publish", "undo", "token", "write"}
Releasing == {"creds", "hide", "drop", "record", "clear"}
Settling == {"passHide", "passDrop", "passDone", "passFail"}
Pcs == {"idle", "create", "again", "next"} \union Making \union Releasing \union Settling

(* A tunnel only its maker knows of; one no device in service uses.        *)
Fresh(t) == /\ t \in Tunnels /\ cloud[t] = "live" /\ ledger[t] = None /\ t \notin answered
            /\ \A d \in Devices : rows[d].tunnel # t
Unwanted(t) == /\ t \in Tunnels /\ cloud[t] # "unused"
               /\ \A d \in Devices : rows[d].tunnel = t => rows[d].revoked
Deleted(t) == t \in Tunnels /\ cloud[t] = "deleted"
Listed(t) == t \in Tunnels /\ ledger[t] # None
Knows(call, t) == t # None /\ (call.tunnel = t \/ t \in call.todo)

(* What a call has read or done, and what it may still count on.           *)
InStep(call) ==
  /\ call.pc \notin {"idle", "next"} => call.device \in Devices
  /\ call.pc \in Making => Fresh(call.tunnel)
  /\ call.pc \in Releasing => call.tunnel = None \/ Unwanted(call.tunnel)
  /\ call.pc \in Releasing \ {"creds"} => call.tunnel \in Tunnels
  /\ call.pc \in {"clear", "passDone"} => Deleted(call.tunnel)
  /\ call.pc \in Settling => Listed(call.tunnel)
  /\ \A t \in call.todo : Listed(t)
  /\ \A t \in Tunnels : Knows(call, t) => cloud[t] # "unused"
Exclusive ==
  \A c, o \in Calls : c # o /\ calls[c].pc \in Making => ~Knows(calls[o], calls[c].tunnel)

RowsInStep ==
  \A d \in Devices : rows[d].tunnel # None =>
    /\ cloud[rows[d].tunnel] # "unused"
    /\ ~rows[d].revoked => cloud[rows[d].tunnel] = "live"
    /\ \A e \in Devices : e # d => rows[e].tunnel # rows[d].tunnel
LedgerInStep ==
  \A t \in Tunnels : ledger[t] # None =>
    Unwanted(t) /\ (ledger[t].released => Deleted(t))
AnswersInStep == \A t \in answered : Deleted(t) \/ Listed(t)

TunnelInv ==
  /\ TunnelTypeOK /\ RowsInStep /\ LedgerInStep /\ AnswersInStep
  /\ \A c \in Calls : InStep(calls[c])
  /\ Exclusive

-----------------------------------------------------------------------------
(* The records a step writes, field by field.                              *)
Moves(c, new) == new \in CallState /\ calls' = [calls EXCEPT ![c] = new]
SameTunnel(new, call) ==
  new.device = call.device /\ new.tunnel = call.tunnel /\ new.todo = call.todo

LEMMA IdleFields ==
  /\ IdleCall \in CallState /\ IdleCall.pc = "idle" /\ IdleCall.device = None
  /\ IdleCall.tunnel = None /\ IdleCall.todo = {}
BY DEF IdleCall, CallState

LEMMA GotoMoves ==
  ASSUME calls \in [Calls -> CallState], NEW c \in Calls, NEW pc \in Pcs, Goto(c, pc)
  PROVE  \E new \in CallState : Moves(c, new) /\ new.pc = pc /\ SameTunnel(new, calls[c])
<1> DEFINE new == [calls[c] EXCEPT !.pc = pc]
<1>1. calls[c] \in CallState
  OBVIOUS
<1>2. new \in CallState
  BY <1>1 DEF CallState, Pcs, Making, Releasing, Settling
<1>3. new.pc = pc /\ SameTunnel(new, calls[c])
  BY <1>1 DEF CallState, SameTunnel
<1>4. calls' = [calls EXCEPT ![c] = new]
  BY DEF Goto
<1> HIDE DEF new
<1> QED  BY <1>2, <1>3, <1>4 DEF Moves

LEMMA EndMoves ==
  ASSUME NEW c \in Calls, End(c)
  PROVE  Moves(c, IdleCall)
BY IdleFields DEF End, Moves

-----------------------------------------------------------------------------
(* A step of one call, when the tables move the way the others count on:   *)
(* what is unwanted, deleted or listed stays so, and a tunnel the call     *)
(* does not know of stays fresh.                                           *)
Holds(c, t) == calls[c].pc \in Making /\ calls[c].tunnel = t
TablesAdvance(c, new) ==
  \A t \in Tunnels :
    /\ Unwanted(t) /\ ~Holds(c, t) => Unwanted(t)'
    /\ Deleted(t) => Deleted(t)'
    /\ Listed(t) => Listed(t)'
    /\ cloud[t] # "unused" => cloud'[t] # "unused"
    /\ Fresh(t) /\ ~Knows(calls[c], t) => Fresh(t)' /\ ~Knows(new, t)
TablesInStep == TunnelTypeOK /\ RowsInStep /\ LedgerInStep /\ AnswersInStep

LEMMA StepKeeps ==
  ASSUME TunnelInv, TablesInStep', NEW c \in Calls, NEW new, Moves(c, new),
         TablesAdvance(c, new), InStep(new)',
         new.pc \in Making => \A o \in Calls : o # c => ~Knows(calls[o], new.tunnel)
  PROVE  TunnelInv'
<1>0. calls \in [Calls -> CallState] /\ calls' = [calls EXCEPT ![c] = new]
  BY DEF TunnelInv, TunnelTypeOK, Moves
<1>1. calls'[c] = new /\ \A o \in Calls : o # c => calls'[o] = calls[o]
  BY <1>0
<1>2. ASSUME NEW o \in Calls, o # c  PROVE InStep(calls[o])'
  <2>0. PICK call : call = calls[o]
    OBVIOUS
  <2>1. call \in CallState /\ InStep(call) /\ calls'[o] = call
    BY <1>0, <1>1, <1>2, <2>0 DEF TunnelInv
  <2>2. call.pc \in Making => Fresh(call.tunnel) /\ ~Knows(calls[c], call.tunnel)
    BY <1>2, <2>0, <2>1 DEF TunnelInv, Exclusive, InStep
  <2>3. call.pc \in Making => Fresh(call.tunnel)'
    <3> QED  BY <2>2 DEF TablesAdvance, Fresh
  <2>4. call.pc \in Releasing => call.tunnel = None \/ Unwanted(call.tunnel)'
    <3>1. call.pc \in Releasing /\ call.tunnel # None => ~Holds(c, call.tunnel)
      BY <1>2, <2>0, <2>1 DEF TunnelInv, Exclusive, Holds, Knows
    <3>2. call.pc \in Releasing => call.tunnel = None \/ Unwanted(call.tunnel)
      BY <2>1 DEF InStep
    <3> QED  BY <3>1, <3>2 DEF TablesAdvance, Unwanted
  <2>5. call.pc \in {"clear", "passDone"} => Deleted(call.tunnel)'
    <3>1. call.pc \in {"clear", "passDone"} => Deleted(call.tunnel)
      BY <2>1 DEF InStep
    <3> QED  BY <3>1 DEF TablesAdvance, Deleted
  <2>6. call.pc \in Settling => Listed(call.tunnel)'
    <3>1. call.pc \in Settling => Listed(call.tunnel)
      BY <2>1 DEF InStep
    <3> QED  BY <3>1 DEF TablesAdvance, Listed
  <2>7. \A t \in call.todo : Listed(t)'
    <3>1. \A t \in call.todo : Listed(t)
      BY <2>1 DEF InStep
    <3> QED  BY <3>1 DEF TablesAdvance, Listed
  <2>8. \A t \in Tunnels : Knows(call, t) => cloud'[t] # "unused"
    <3>1. \A t \in Tunnels : Knows(call, t) => cloud[t] # "unused"
      BY <2>1 DEF InStep
    <3> QED  BY <3>1 DEF TablesAdvance
  <2>9. /\ call.pc \notin {"idle", "next"} => call.device \in Devices
        /\ call.pc \in Releasing \ {"creds"} => call.tunnel \in Tunnels
    BY <2>1 DEF InStep
  <2> QED  BY <2>1, <2>3, <2>4, <2>5, <2>6, <2>7, <2>8, <2>9 DEF InStep, Knows
<1>3. \A o \in Calls : InStep(calls[o])'
  BY <1>1, <1>2
<1>4. Exclusive'
  <2> SUFFICES ASSUME NEW a \in Calls, NEW o \in Calls, a # o, calls'[a].pc \in Making
               PROVE  ~Knows(calls'[o], calls'[a].tunnel)
    BY DEF Exclusive
  <2>1. CASE a = c
    BY <1>1, <2>1
  <2>2. CASE a # c /\ o # c
    BY <1>1, <2>2 DEF TunnelInv, Exclusive
  <2>3. CASE a # c /\ o = c
    <3>1. calls'[a] = calls[a] /\ calls'[o] = new
      BY <1>1, <2>3
    <3>2. Fresh(calls[a].tunnel) /\ ~Knows(calls[c], calls[a].tunnel)
      BY <2>3, <3>1 DEF TunnelInv, Exclusive, InStep
    <3>3. \A t \in Tunnels : Fresh(t) /\ ~Knows(calls[c], t) => ~Knows(new, t)
      BY DEF TablesAdvance
    <3> QED  BY <3>1, <3>2, <3>3 DEF Fresh
  <2> QED  BY <2>1, <2>2, <2>3
<1> QED  BY <1>3, <1>4 DEF TunnelInv, TablesInStep

(* A step that leaves the tables, and one that leaves the rows too.        *)
LEMMA TablesStand ==
  ASSUME TunnelInv, TunnelTypeOK', UNCHANGED <<rows, ledger, cloud, answered>>
  PROVE  /\ TablesInStep'
         /\ \A t : /\ Unwanted(t)' = Unwanted(t) /\ Deleted(t)' = Deleted(t)
                   /\ Listed(t)' = Listed(t) /\ Fresh(t)' = Fresh(t)
<1>1. \A t : /\ Unwanted(t)' = Unwanted(t) /\ Deleted(t)' = Deleted(t)
             /\ Listed(t)' = Listed(t) /\ Fresh(t)' = Fresh(t)
  BY DEF Unwanted, Deleted, Listed, Fresh
<1>2. RowsInStep' /\ LedgerInStep' /\ AnswersInStep'
  BY DEF TunnelInv, RowsInStep, LedgerInStep, AnswersInStep, Unwanted, Deleted, Listed
<1> QED  BY <1>1, <1>2 DEF TablesInStep

LEMMA QuietKeeps ==
  ASSUME TunnelInv, TunnelTypeOK', NEW c \in Calls, NEW new, Moves(c, new),
         UNCHANGED <<rows, ledger, cloud, answered>>, InStep(new),
         \A t \in Tunnels : Fresh(t) /\ Knows(new, t) => Knows(calls[c], t),
         new.pc \in Making => calls[c].pc \in Making /\ new.tunnel = calls[c].tunnel
  PROVE  TunnelInv'
<1>1. TablesInStep' /\ TablesAdvance(c, new)
  BY TablesStand DEF TablesAdvance
<1>2. InStep(new)'
  BY TablesStand DEF InStep, Knows
<1>3. new.pc \in Making => \A o \in Calls : o # c => ~Knows(calls[o], new.tunnel)
  BY DEF TunnelInv, Exclusive
<1> QED  BY <1>1, <1>2, <1>3, StepKeeps

LEMMA IdleInStep == InStep(IdleCall) /\ \A t : ~Knows(IdleCall, t)
BY IdleFields DEF InStep, Knows, Making, Releasing, Settling

LEMMA EndKeeps ==
  ASSUME TunnelInv, TunnelTypeOK', NEW c \in Calls, End(c),
         UNCHANGED <<rows, ledger, cloud, answered>>
  PROVE  TunnelInv'
BY IdleInStep, IdleFields, EndMoves, QuietKeeps DEF Making

LEMMA GotoKeeps ==
  ASSUME TunnelInv, TunnelTypeOK', NEW c \in Calls, NEW pc \in Pcs, Goto(c, pc),
         UNCHANGED <<rows, ledger, cloud, answered>>,
         calls[c].pc \notin {"idle", "next"},
         pc \in Making => calls[c].pc \in Making,
         pc \in Releasing => calls[c].pc \in Releasing /\ calls[c].tunnel \in Tunnels,
         pc \in {"clear", "passDone"} => Deleted(calls[c].tunnel),
         pc \in Settling => calls[c].pc \in Settling
  PROVE  TunnelInv'
<1>0. calls \in [Calls -> CallState] /\ InStep(calls[c])
  BY DEF TunnelInv, TunnelTypeOK
<1>1. PICK new \in CallState : Moves(c, new) /\ new.pc = pc /\ SameTunnel(new, calls[c])
  BY <1>0, GotoMoves
<1>2. InStep(new) /\ \A t : Knows(new, t) <=> Knows(calls[c], t)
  BY <1>0, <1>1 DEF InStep, SameTunnel, Knows
<1> QED  BY <1>1, <1>2, QuietKeeps DEF SameTunnel

-----------------------------------------------------------------------------
(* The steps that leave rows, ledger, tunnels and answers as they are.     *)
Counted == Calm \/ \E kind \in TunnelFaults : Fault(kind)
TablesUnchanged == UNCHANGED <<rows, ledger, cloud, answered>>

LEMMA Counting ==
  ASSUME trouble \in 0..MaxTrouble, Counted
  PROVE  trouble' \in 0..MaxTrouble
BY TroubleAssumption DEF Counted, Calm, Fault

LEMMA QuietType ==
  ASSUME TunnelTypeOK, TablesUnchanged, Counted, calls' \in [Calls -> CallState],
         dns' \in [Devices -> Tunnels \union {None}], configured' \in BOOLEAN
  PROVE  TunnelTypeOK'
<1>1. trouble' \in 0..MaxTrouble
  BY Counting DEF TunnelTypeOK
<1> QED  BY <1>1 DEF TunnelTypeOK, TablesUnchanged

LEMMA MovesType ==
  ASSUME calls \in [Calls -> CallState], NEW c \in Calls, NEW new, Moves(c, new)
  PROVE  calls' \in [Calls -> CallState]
BY DEF Moves

LEMMA GotoType ==
  ASSUME calls \in [Calls -> CallState], NEW c \in Calls, NEW pc \in Pcs, Goto(c, pc)
  PROVE  calls' \in [Calls -> CallState]
BY GotoMoves, MovesType

LEMMA EndType ==
  ASSUME calls \in [Calls -> CallState], NEW c \in Calls, End(c)
  PROVE  calls' \in [Calls -> CallState]
BY EndMoves, MovesType

LEMMA QuietEnds ==
  ASSUME TunnelInv, NEW c \in Calls, End(c), TablesUnchanged, Counted, UNCHANGED <<dns, configured>>
  PROVE  TunnelInv'
<1>1. TunnelTypeOK'
  BY EndType, QuietType DEF TunnelInv, TunnelTypeOK
<1> QED  BY <1>1, EndKeeps DEF TablesUnchanged

LEMMA QuietGoes ==
  ASSUME TunnelInv, NEW c \in Calls, NEW pc \in Pcs, Goto(c, pc), TablesUnchanged, Counted,
         dns' \in [Devices -> Tunnels \union {None}], UNCHANGED configured,
         calls[c].pc \notin {"idle", "next"},
         pc \in Making => calls[c].pc \in Making,
         pc \in Releasing => calls[c].pc \in Releasing /\ calls[c].tunnel \in Tunnels,
         pc \in {"clear", "passDone"} => Deleted(calls[c].tunnel),
         pc \in Settling => calls[c].pc \in Settling
  PROVE  TunnelInv'
<1>1. TunnelTypeOK'
  BY GotoType, QuietType DEF TunnelInv, TunnelTypeOK
<1> QED  BY <1>1, GotoKeeps DEF TablesUnchanged

(* A request that changes hostnames alone, or nothing.                     *)
LEMMA Hostnames ==
  ASSUME TunnelTypeOK, NEW d \in Devices, NEW t \in Tunnels \union {None},
         dns' = [dns EXCEPT ![d] = t] \/ UNCHANGED dns
  PROVE  dns' \in [Devices -> Tunnels \union {None}]
BY DEF TunnelTypeOK

LEMMA CallParts ==
  ASSUME TunnelInv, NEW c \in Calls
  PROVE  calls[c] \in CallState /\ InStep(calls[c])
BY DEF TunnelInv, TunnelTypeOK

LEMMA PublishKeeps ==
  ASSUME TunnelInv, NEW c \in Calls, Ingress(c) \/ Publish(c)
  PROVE  TunnelInv'
<1>1. /\ calls[c].pc \in {"ingress", "publish"} /\ calls[c].device \in Devices
      /\ calls[c].tunnel \in Tunnels /\ TunnelTypeOK
  BY CallParts DEF Ingress, Publish, At, InStep, Making, Fresh, TunnelInv
<1>2. /\ \E pc \in {"publish", "token", "undo"} : Goto(c, pc)
      /\ Counted /\ UNCHANGED <<rows, ledger, cloud, configured, answered>>
      /\ UNCHANGED dns \/ dns' = [dns EXCEPT ![calls[c].device] = calls[c].tunnel]
  BY DEF Ingress, Publish, Request, PointHostname, cloudflare, OnlyCloudflare, store, Counted,
     TunnelFaults
<1>3. dns' \in [Devices -> Tunnels \union {None}]
  BY <1>1, <1>2, Hostnames
<1> QED  BY <1>1, <1>2, <1>3, QuietGoes DEF TablesUnchanged, Making, Releasing, Settling, Pcs

LEMMA TokenKeeps ==
  ASSUME TunnelInv, NEW c \in Calls, Token(c)
  PROVE  TunnelInv'
<1>1. /\ calls[c].pc = "token" /\ TunnelTypeOK /\ UNCHANGED <<dns, configured>>
      /\ TablesUnchanged /\ Counted /\ (Goto(c, "write") \/ End(c))
  BY DEF Token, At, TunnelInv, cloudflare, OnlyCloudflare, store, TablesUnchanged, Counted,
     TunnelFaults
<1>2. dns' \in [Devices -> Tunnels \union {None}]
  BY <1>1 DEF TunnelTypeOK
<1> QED  BY <1>1, <1>2, QuietGoes, QuietEnds DEF Making, Releasing, Settling, Pcs

LEMMA HideKeeps ==
  ASSUME TunnelInv, NEW c \in Calls, Hide(c) \/ PassHide(c)
  PROVE  TunnelInv'
<1>1. /\ calls[c].pc \in {"hide", "passHide"} /\ calls[c].device \in Devices
      /\ calls[c].tunnel \in Tunnels /\ TunnelTypeOK
  BY CallParts DEF Hide, PassHide, At, InStep, Releasing, Settling, Listed, TunnelInv
<1>2. /\ \/ calls[c].pc = "hide" /\ \E pc \in {"drop", "record"} : Goto(c, pc)
         \/ calls[c].pc = "passHide" /\ \E pc \in {"passDrop", "passFail"} : Goto(c, pc)
      /\ Counted /\ UNCHANGED <<rows, ledger, cloud, configured, answered>>
      /\ UNCHANGED dns \/ dns' = [dns EXCEPT ![calls[c].device] = None]
  BY DEF Hide, PassHide, Request, DeleteHostname, cloudflare, OnlyCloudflare, store, Counted,
     TunnelFaults, At
<1>3. dns' \in [Devices -> Tunnels \union {None}]
  BY <1>1, <1>2, Hostnames
<1> QED  BY <1>1, <1>2, <1>3, QuietGoes DEF TablesUnchanged, Making, Releasing, Settling, Pcs

LEMMA CredsKeeps ==
  ASSUME TunnelInv, NEW c \in Calls, RevokeCreds(c)
  PROVE  TunnelInv'
<1>1. /\ calls[c].pc = "creds" /\ TunnelTypeOK /\ UNCHANGED <<dns, configured>>
      /\ TablesUnchanged /\ Counted
      /\ End(c) \/ \E pc \in {"hide", "record"} : Goto(c, pc) /\ calls[c].tunnel # None
  BY DEF RevokeCreds, Statement, At, TunnelInv, cloudflare, OnlyStore, store, TablesUnchanged,
     Counted, TunnelFaults
<1>2. dns' \in [Devices -> Tunnels \union {None}] /\ (calls[c].tunnel # None => calls[c].tunnel \in Tunnels)
  BY <1>1, CallParts DEF TunnelTypeOK, CallState
<1> QED  BY <1>1, <1>2, QuietGoes, QuietEnds DEF Making, Releasing, Settling, Pcs

LEMMA QuietEndKeeps ==
  ASSUME TunnelInv, NEW c \in Calls, Again(c) \/ PassEnd(c) \/ Crash(c)
  PROVE  TunnelInv'
<1>1. End(c) /\ TablesUnchanged /\ Counted /\ UNCHANGED <<dns, configured>>
  BY DEF Again, PassEnd, Crash, cloudflare, store, TablesUnchanged, Counted, TunnelFaults
<1> QED  BY <1>1, QuietEnds

LEMMA ConfigureKeeps ==
  ASSUME TunnelInv, Unconfigure \/ Configure
  PROVE  TunnelInv'
<1>1. /\ TablesUnchanged /\ Counted /\ UNCHANGED <<dns, calls>> /\ configured' \in BOOLEAN
  BY DEF Unconfigure, Configure, cloudflare, store, TablesUnchanged, Counted, TunnelFaults
<1>2. TunnelTypeOK'
  BY <1>1, QuietType DEF TunnelInv, TunnelTypeOK
<1>3. TablesInStep' /\ \A c \in Calls : InStep(calls[c])'
  BY <1>1, <1>2, TablesStand DEF TablesUnchanged, TunnelInv, InStep, Knows
<1>4. Exclusive'
  BY <1>1 DEF TunnelInv, Exclusive, Knows
<1> QED  BY <1>3, <1>4 DEF TunnelInv, TablesInStep

LEMMA FetchBeginKeeps ==
  ASSUME TunnelInv, NEW c \in Calls, NEW d \in Devices, FetchBegin(c, d)
  PROVE  TunnelInv'
<1> DEFINE new == [IdleCall EXCEPT !.device = d, !.tunnel = rows[d].tunnel,
                                   !.pc = IF rows[d].tunnel = None THEN "create" ELSE "again"]
<1>0. TunnelTypeOK /\ rows[d].tunnel \in Tunnels \union {None} /\ RowsInStep
  BY DEF TunnelInv, TunnelTypeOK, DeviceRow
<1>1. /\ new.pc \in {"create", "again"} /\ new.device = d /\ new.tunnel = rows[d].tunnel
      /\ new.todo = {}
  BY DEF IdleCall
<1>2. new \in CallState
  BY <1>0 DEF IdleCall, CallState
<1>3. Moves(c, new) /\ Counted /\ UNCHANGED <<rows, ledger, cloud, dns, configured, answered>>
  BY <1>2 DEF FetchBegin, Moves, Counted, store, cloudflare
<1> HIDE DEF new
<1>4. TunnelTypeOK'
  BY <1>0, <1>3, QuietType, MovesType DEF TablesUnchanged, TunnelTypeOK
<1>5. InStep(new) /\ \A t : Knows(new, t) => t = rows[d].tunnel
  BY <1>0, <1>1 DEF InStep, Knows, RowsInStep, Making, Releasing, Settling
<1> QED  BY <1>1, <1>3, <1>4, <1>5, QuietKeeps DEF Fresh, Making

LEMMA PassBeginKeeps ==
  ASSUME TunnelInv, NEW c \in Calls, PassBegin(c)
  PROVE  TunnelInv'
<1> DEFINE new == [IdleCall EXCEPT !.pc = "next", !.todo = Due]
<1>0. TunnelTypeOK /\ LedgerInStep /\ Due \in SUBSET Tunnels /\ \A t \in Due : Listed(t)
  BY DEF TunnelInv, Due, Listed
<1>1. new.pc = "next" /\ new.tunnel = None /\ new.todo = Due
  BY DEF IdleCall
<1>2. new \in CallState
  BY <1>0 DEF IdleCall, CallState
<1>3. Moves(c, new) /\ Counted /\ UNCHANGED <<rows, ledger, cloud, dns, configured, answered>>
  BY <1>2 DEF PassBegin, Moves, Counted, store, cloudflare
<1> HIDE DEF new
<1>4. TunnelTypeOK'
  BY <1>0, <1>3, QuietType, MovesType DEF TablesUnchanged, TunnelTypeOK
<1>5. InStep(new) /\ \A t : Knows(new, t) => ledger[t] # None
  BY <1>0, <1>1 DEF InStep, Knows, LedgerInStep, Unwanted, Listed, Making, Releasing, Settling
<1> QED  BY <1>1, <1>3, <1>4, <1>5, QuietKeeps DEF Fresh, Making

LEMMA PassNextKeeps ==
  ASSUME TunnelInv, NEW c \in Calls, PassNext(c)
  PROVE  TunnelInv'
<1>1. PICK t \in calls[c].todo :
        calls' = [calls EXCEPT ![c].pc = "passHide", ![c].tunnel = t,
                               ![c].device = ledger[t].device, ![c].todo = @ \ {t}]
  BY DEF PassNext
<1> DEFINE new == [calls[c] EXCEPT !.pc = "passHide", !.tunnel = t,
                                   !.device = ledger[t].device, !.todo = calls[c].todo \ {t}]
<1>2. /\ TunnelTypeOK /\ calls[c] \in CallState /\ InStep(calls[c]) /\ Listed(t)
      /\ ledger[t].device \in Devices
  BY CallParts DEF TunnelInv, TunnelTypeOK, InStep, Listed, LedgerRow
<1>3. /\ new.pc = "passHide" /\ new.tunnel = t /\ new.device = ledger[t].device
      /\ new.todo = calls[c].todo \ {t}
  BY <1>2 DEF CallState
<1>4. new \in CallState
  BY <1>2 DEF CallState, Listed
<1>5. calls' = [calls EXCEPT ![c] = new]
  BY <1>1, <1>2 DEF CallState, TunnelTypeOK
<1> HIDE DEF new
<1>6. Moves(c, new) /\ Counted /\ UNCHANGED <<rows, ledger, cloud, dns, configured, answered>>
  BY <1>4, <1>5 DEF PassNext, Moves, Counted, store, cloudflare
<1>7. TunnelTypeOK'
  BY <1>2, <1>6, QuietType, MovesType DEF TablesUnchanged, TunnelTypeOK
<1>8. InStep(new) /\ \A x : Knows(new, x) => Knows(calls[c], x)
  BY <1>2, <1>3 DEF InStep, Knows, Making, Releasing, Settling
<1> QED  BY <1>3, <1>6, <1>7, <1>8, QuietKeeps DEF Making

-----------------------------------------------------------------------------
(* The steps that create, delete, point at or record a tunnel.             *)
LEMMA CreateKeeps ==
  ASSUME TunnelInv, NEW c \in Calls, Create(c)
  PROVE  TunnelInv'
<1>0. /\ TunnelTypeOK /\ RowsInStep /\ LedgerInStep /\ AnswersInStep
      /\ calls[c] \in CallState /\ InStep(calls[c]) /\ calls[c].pc = "create"
  BY CallParts DEF TunnelInv, Create, At
<1>1. PICK t \in Unused :
        \/ /\ cloud' = [cloud EXCEPT ![t] = "live"]
           /\ calls' = [calls EXCEPT ![c].tunnel = t, ![c].pc = "ingress"]
           /\ Calm
        \/ /\ Fault("lost")
           /\ cloud' = [cloud EXCEPT ![t] = "live"]
           /\ End(c)
        \/ Fault("refused") /\ UNCHANGED cloud /\ End(c)
  BY DEF Create
<1>2. t \in Tunnels /\ cloud[t] = "unused"
  BY DEF Unused
<1>3. UNCHANGED <<rows, ledger, dns, configured, answered>> /\ Counted
  BY <1>1 DEF Create, OnlyCloudflare, store, Counted, TunnelFaults
<1>4. CASE UNCHANGED cloud
  <2>1. End(c)
    BY <1>1, <1>2, <1>4 DEF TunnelTypeOK, TunnelInv
  <2> QED  BY <1>3, <1>4, <2>1, QuietEnds DEF TablesUnchanged
<1>5. ASSUME cloud' = [cloud EXCEPT ![t] = "live"], NEW new, Moves(c, new), InStep(new)',
             new.tunnel \in {t, None}, new.pc \in {"idle", "ingress"},
             new.todo = calls[c].todo \/ new.todo = {}
      PROVE  TunnelInv'
  <2>1. \A x \in Tunnels : cloud[x] # "unused" => cloud'[x] = cloud[x]
    BY <1>0, <1>2, <1>5 DEF TunnelTypeOK
  <2>2. TunnelTypeOK'
    BY <1>0, <1>3, <1>5, MovesType, Counting DEF TunnelTypeOK
  <2>3. RowsInStep' /\ LedgerInStep' /\ AnswersInStep'
    <3>1. \A d \in Devices : rows[d].tunnel \in Tunnels \union {None}
      BY <1>0 DEF TunnelTypeOK, DeviceRow
    <3>2. RowsInStep'
      BY <1>0, <1>3, <2>1, <3>1 DEF RowsInStep
    <3>3. LedgerInStep'
      BY <1>0, <1>3, <2>1 DEF LedgerInStep, Unwanted, Deleted
    <3>4. AnswersInStep'
      BY <1>0, <1>3, <2>1 DEF AnswersInStep, Deleted, Listed
    <3> QED  BY <3>2, <3>3, <3>4
  <2>4. TablesAdvance(c, new)
    BY <1>0, <1>2, <1>3, <1>5, <2>1, NoTunnelAssumption
       DEF TablesAdvance, Unwanted, Deleted, Listed, Fresh, Knows
  <2>5. \A o \in Calls : ~Knows(calls[o], t)
    BY <1>2, CallParts DEF InStep
  <2> QED  BY <1>5, <2>2, <2>3, <2>4, <2>5, StepKeeps DEF TablesInStep, Making, Knows
<1>6. CASE cloud' = [cloud EXCEPT ![t] = "live"] /\ End(c)
  <2>1. InStep(IdleCall)'
    BY IdleFields DEF InStep, Knows, Making, Releasing, Settling
  <2> QED  BY <1>5, <1>6, <2>1, IdleFields, EndMoves
<1>7. CASE /\ cloud' = [cloud EXCEPT ![t] = "live"]
           /\ calls' = [calls EXCEPT ![c].tunnel = t, ![c].pc = "ingress"]
  <2> DEFINE new == [calls[c] EXCEPT !.tunnel = t, !.pc = "ingress"]
  <2>1. /\ new.pc = "ingress" /\ new.tunnel = t /\ new.device = calls[c].device
        /\ new.todo = calls[c].todo /\ new \in CallState
    BY <1>0, <1>2 DEF CallState
  <2>2. calls' = [calls EXCEPT ![c] = new]
    BY <1>0, <1>7 DEF CallState, TunnelTypeOK
  <2> HIDE DEF new
  <2>3. PICK r : r = new
    OBVIOUS
  <2>4. /\ r.pc = "ingress" /\ r.tunnel = t /\ r.device = calls[c].device
        /\ r.todo = calls[c].todo /\ Moves(c, r)
    BY <2>1, <2>2, <2>3 DEF Moves
  <2>5. /\ cloud'[t] = "live" /\ \A x \in Tunnels : cloud[x] # "unused" => cloud'[x] # "unused"
        /\ ledger'[t] = None /\ t \notin answered' /\ \A d \in Devices : rows'[d].tunnel # t
    BY <1>0, <1>2, <1>3, <1>7, NoTunnelAssumption
       DEF TunnelTypeOK, RowsInStep, LedgerInStep, AnswersInStep, Unwanted, Deleted, Listed
  <2>6. Fresh(t)'
    BY <1>2, <2>5 DEF Fresh
  <2>7. /\ calls[c].device \in Devices /\ \A x \in calls[c].todo : Listed(x)
        /\ \A x \in Tunnels : Knows(calls[c], x) => cloud[x] # "unused"
    BY <1>0 DEF InStep
  <2>8. InStep(r)'
    <3>1. \A x \in r.todo : Listed(x)'
      BY <1>3, <2>4, <2>7 DEF Listed
    <3>2. \A x \in Tunnels : Knows(r, x) => cloud'[x] # "unused"
      BY <2>4, <2>5, <2>7 DEF Knows
    <3>3. Fresh(r.tunnel)'
      BY <2>4, <2>6
    <3> QED  BY <2>4, <2>7, <3>1, <3>2, <3>3 DEF InStep, Making, Releasing, Settling, Knows
  <2> QED  BY <1>5, <1>7, <2>4, <2>8
<1> QED  BY <1>1, <1>4, <1>6, <1>7

(* deleteTunnel, of a tunnel no device in service uses.                    *)
LEMMA Deleting ==
  ASSUME TunnelInv, NEW c \in Calls, NEW t \in Tunnels, calls[c].tunnel = t, NEW new,
         Unwanted(t) \/ (Fresh(t) /\ Holds(c, t)),
         cloud' = [cloud EXCEPT ![t] = "deleted"], UNCHANGED <<rows, ledger, answered>>,
         \A x \in Tunnels : Knows(new, x) => Knows(calls[c], x)
  PROVE  /\ RowsInStep' /\ LedgerInStep' /\ AnswersInStep' /\ TablesAdvance(c, new)
         /\ cloud' \in [Tunnels -> {"unused", "live", "deleted"}] /\ Deleted(t)'
<1>0. TunnelTypeOK /\ RowsInStep /\ LedgerInStep /\ AnswersInStep
  BY DEF TunnelInv
<1>1. /\ cloud'[t] = "deleted" /\ \A x \in Tunnels : x # t => cloud'[x] = cloud[x]
      /\ cloud' \in [Tunnels -> {"unused", "live", "deleted"}]
  BY <1>0 DEF TunnelTypeOK
<1>2. \A d \in Devices : rows[d].tunnel \in Tunnels \union {None}
  BY <1>0 DEF TunnelTypeOK, DeviceRow
<1>3. \A d \in Devices : rows[d].tunnel = t => rows[d].revoked
  BY DEF Unwanted, Fresh
<1>4. RowsInStep'
  BY <1>0, <1>1, <1>2, <1>3 DEF RowsInStep
<1>5. LedgerInStep'
  BY <1>0, <1>1 DEF LedgerInStep, Unwanted, Deleted
<1>6. AnswersInStep'
  BY <1>0, <1>1 DEF AnswersInStep, Deleted, Listed
<1>7. Knows(calls[c], t)
  BY NoTunnelAssumption DEF Knows
<1>8. TablesAdvance(c, new)
  BY <1>1, <1>7 DEF TablesAdvance, Unwanted, Deleted, Listed, Fresh
<1> QED  BY <1>1, <1>4, <1>5, <1>6, <1>8 DEF Deleted

LEMMA UndoKeeps ==
  ASSUME TunnelInv, NEW c \in Calls, Undo(c)
  PROVE  TunnelInv'
<1>1. /\ calls[c].pc = "undo" /\ End(c) /\ UNCHANGED <<rows, ledger, dns, configured, answered>>
      /\ Counted /\ (UNCHANGED cloud \/ cloud' = [cloud EXCEPT ![calls[c].tunnel] = "deleted"])
  BY DEF Undo, At, OnlyCloudflare, store, cloudflare, DeleteTunnel, Counted, TunnelFaults
<1>2. CASE UNCHANGED cloud
  BY <1>1, <1>2, QuietEnds DEF TablesUnchanged
<1>3. CASE cloud' = [cloud EXCEPT ![calls[c].tunnel] = "deleted"]
  <2>1. PICK t : t = calls[c].tunnel
    OBVIOUS
  <2>2. t \in Tunnels /\ Fresh(t) /\ Holds(c, t) /\ TunnelTypeOK
    BY <1>1, <2>1, CallParts DEF InStep, Making, Fresh, Holds, TunnelInv
  <2>3. /\ RowsInStep' /\ LedgerInStep' /\ AnswersInStep' /\ TablesAdvance(c, IdleCall)
        /\ cloud' \in [Tunnels -> {"unused", "live", "deleted"}]
    BY <1>1, <1>3, <2>1, <2>2, Deleting, IdleInStep
  <2>4. TunnelTypeOK'
    BY <1>1, <2>2, <2>3, EndType, Counting DEF TunnelTypeOK
  <2>5. InStep(IdleCall)'
    BY IdleFields DEF InStep, Knows, Making, Releasing, Settling
  <2> QED  BY <1>1, <2>3, <2>4, <2>5, EndMoves, IdleFields, StepKeeps DEF TablesInStep, Making
<1> QED  BY <1>1, <1>2, <1>3

LEMMA DropKeeps ==
  ASSUME TunnelInv, NEW c \in Calls, Drop(c) \/ PassDrop(c)
  PROVE  TunnelInv'
<1>0. /\ calls[c].pc \in {"drop", "passDrop"} /\ calls[c].device \in Devices
      /\ calls[c].tunnel \in Tunnels /\ Unwanted(calls[c].tunnel)
      /\ TunnelTypeOK /\ InStep(calls[c]) /\ calls[c] \in CallState
  BY CallParts, NoTunnelAssumption
     DEF Drop, PassDrop, At, InStep, Releasing, Settling, Listed, TunnelInv, LedgerInStep
<1>1. /\ UNCHANGED <<rows, ledger, dns, configured, answered>> /\ Counted
      /\ \/ UNCHANGED cloud /\ calls[c].pc = "drop" /\ Goto(c, "record")
         \/ UNCHANGED cloud /\ calls[c].pc = "passDrop" /\ Goto(c, "passFail")
         \/ /\ cloud' = [cloud EXCEPT ![calls[c].tunnel] = "deleted"]
            /\ \/ calls[c].pc = "drop" /\ \E pc \in {"clear", "record"} : Goto(c, pc)
               \/ calls[c].pc = "passDrop" /\ \E pc \in {"passDone", "passFail"} : Goto(c, pc)
  BY DEF Drop, PassDrop, At, Request, DeleteTunnel, OnlyCloudflare, store, cloudflare, Counted,
     TunnelFaults
<1>2. CASE UNCHANGED cloud
  <2>1. dns' \in [Devices -> Tunnels \union {None}] /\ TablesUnchanged
    BY <1>0, <1>1, <1>2 DEF TunnelTypeOK, TablesUnchanged
  <2>2. cloud = [cloud EXCEPT ![calls[c].tunnel] = "deleted"] => Deleted(calls[c].tunnel)
    BY <1>0 DEF TunnelTypeOK, Deleted
  <2> QED  BY <1>0, <1>1, <1>2, <2>1, <2>2, QuietGoes DEF Making, Releasing, Settling, Pcs
<1>3. ASSUME cloud' = [cloud EXCEPT ![calls[c].tunnel] = "deleted"],
             NEW pc \in Pcs, Goto(c, pc),
             \/ calls[c].pc = "drop" /\ pc \in {"clear", "record"}
             \/ calls[c].pc = "passDrop" /\ pc \in {"passDone", "passFail"}
      PROVE  TunnelInv'
  <2>1. PICK t : t = calls[c].tunnel
    OBVIOUS
  <2>2. PICK new \in CallState : Moves(c, new) /\ new.pc = pc /\ SameTunnel(new, calls[c])
    BY <1>0, <1>3, GotoMoves DEF TunnelTypeOK
  <2>3. \A x \in Tunnels : Knows(new, x) => Knows(calls[c], x)
    BY <2>2 DEF Knows, SameTunnel
  <2>4. /\ RowsInStep' /\ LedgerInStep' /\ AnswersInStep' /\ TablesAdvance(c, new)
        /\ cloud' \in [Tunnels -> {"unused", "live", "deleted"}] /\ Deleted(t)'
    BY <1>0, <1>1, <1>3, <2>1, <2>3, Deleting
  <2>5. TunnelTypeOK'
    BY <1>0, <1>1, <2>2, <2>4, MovesType, Counting DEF TunnelTypeOK
  <2>6. InStep(new)'
    <3>1. new.device \in Devices /\ new.tunnel = t /\ t \in Tunnels
      BY <1>0, <2>1, <2>2 DEF SameTunnel
    <3>2. Unwanted(t)' /\ Unwanted(t)
      BY <1>0, <2>1, <2>4 DEF TablesAdvance, Holds, Making
    <3>3. pc \in Settling => Listed(t)'
      BY <1>0, <1>1, <1>3, <2>1 DEF InStep, Settling, Listed
    <3>4. \A x \in new.todo : Listed(x)'
      BY <1>0, <1>1, <2>2 DEF InStep, SameTunnel, Listed
    <3>5. \A x \in Tunnels : Knows(new, x) => cloud'[x] # "unused"
      BY <1>0, <2>3, <2>4 DEF InStep, TablesAdvance
    <3>6. pc \notin Making
      BY <1>3 DEF Making
    <3> QED  BY <1>3, <2>2, <2>4, <3>1, <3>2, <3>3, <3>4, <3>5, <3>6 DEF InStep, Knows
  <2> QED  BY <1>3, <2>2, <2>4, <2>5, <2>6, StepKeeps DEF TablesInStep, Making
<1>4. {"record", "clear", "passDone", "passFail"} \subseteq Pcs
  BY DEF Pcs, Releasing, Settling
<1> QED  BY <1>1, <1>2, <1>3, <1>4

(* updateDevice: a new tunnel goes to its device's row; and a released one *)
(* out of it.                                                              *)
LEMMA WriteKeeps ==
  ASSUME TunnelInv, NEW c \in Calls, Write(c)
  PROVE  TunnelInv'
<1>0. /\ calls[c].pc = "write" /\ calls[c].device \in Devices /\ Fresh(calls[c].tunnel)
      /\ TunnelTypeOK /\ RowsInStep /\ LedgerInStep /\ AnswersInStep
  BY CallParts DEF Write, At, InStep, Making, TunnelInv
<1>1. /\ End(c) /\ UNCHANGED <<ledger, cloud, dns, configured, answered>> /\ Counted
      /\ UNCHANGED rows \/ rows' = [rows EXCEPT ![calls[c].device].tunnel = calls[c].tunnel]
  BY DEF Write, Statement, SetTunnel, OnlyStore, store, cloudflare, Counted, TunnelFaults
<1>2. CASE UNCHANGED rows
  BY <1>1, <1>2, QuietEnds DEF TablesUnchanged
<1>3. CASE rows' = [rows EXCEPT ![calls[c].device].tunnel = calls[c].tunnel]
  <2>1. PICK t, d : t = calls[c].tunnel /\ d = calls[c].device
    OBVIOUS
  <2>2. /\ t \in Tunnels /\ t # None /\ d \in Devices /\ cloud[t] = "live" /\ ledger[t] = None
        /\ \A e \in Devices : rows[e].tunnel # t
    BY <1>0, <2>1, NoTunnelAssumption DEF Fresh
  <2>3. /\ rows' \in [Devices -> DeviceRow] /\ rows'[d].tunnel = t
        /\ rows'[d].revoked = rows[d].revoked /\ \A e \in Devices : e # d => rows'[e] = rows[e]
    BY <1>0, <1>3, <2>1, <2>2 DEF TunnelTypeOK, DeviceRow
  <2>4. RowsInStep'
    BY <1>0, <1>1, <2>2, <2>3 DEF RowsInStep
  <2>5. \A x \in Tunnels : Unwanted(x) /\ x # t => Unwanted(x)'
    BY <1>1, <2>3 DEF Unwanted
  <2>6. LedgerInStep'
    BY <1>0, <1>1, <2>2, <2>5 DEF LedgerInStep, Deleted
  <2>7. AnswersInStep'
    BY <1>0, <1>1 DEF AnswersInStep, Deleted, Listed
  <2>8. TablesAdvance(c, IdleCall)
    <3>1. \A x : ~Knows(IdleCall, x)
      BY IdleInStep
    <3>2. Holds(c, t) /\ Knows(calls[c], t)
      BY <1>0, <2>1, <2>2 DEF Holds, Knows, Making
    <3> QED  BY <1>1, <2>3, <2>5, <3>1, <3>2 DEF TablesAdvance, Deleted, Listed, Fresh
  <2>9. TunnelTypeOK'
    BY <1>0, <1>1, <2>3, EndType, Counting DEF TunnelTypeOK
  <2>10. InStep(IdleCall)'
    BY IdleFields DEF InStep, Knows, Making, Releasing, Settling
  <2> QED  BY <1>1, <2>4, <2>6, <2>7, <2>8, <2>9, <2>10, EndMoves, IdleFields, StepKeeps
           DEF TablesInStep, Making
<1> QED  BY <1>1, <1>2, <1>3

LEMMA ClearKeeps ==
  ASSUME TunnelInv, NEW c \in Calls, Clear(c)
  PROVE  TunnelInv'
<1>0. /\ calls[c].pc = "clear" /\ calls[c].device \in Devices /\ Deleted(calls[c].tunnel)
      /\ TunnelTypeOK /\ RowsInStep /\ LedgerInStep /\ AnswersInStep
  BY CallParts DEF Clear, At, InStep, Making, TunnelInv
<1>1. /\ End(c) /\ UNCHANGED <<ledger, cloud, dns, configured>> /\ Counted
      /\ \/ UNCHANGED <<rows, answered>>
         \/ /\ rows' = [rows EXCEPT ![calls[c].device].tunnel = None]
            /\ answered' = answered \union {calls[c].tunnel}
  BY DEF Clear, Answer, SetTunnel, store, cloudflare, Counted, TunnelFaults
<1>2. CASE UNCHANGED <<rows, answered>>
  BY <1>1, <1>2, QuietEnds DEF TablesUnchanged
<1>3. CASE /\ rows' = [rows EXCEPT ![calls[c].device].tunnel = None]
           /\ answered' = answered \union {calls[c].tunnel}
  <2>1. PICK t, d : t = calls[c].tunnel /\ d = calls[c].device
    OBVIOUS
  <2>2. t \in Tunnels /\ t # None /\ d \in Devices /\ Deleted(t)
    BY <1>0, <2>1, NoTunnelAssumption DEF Deleted
  <2>3. /\ rows' \in [Devices -> DeviceRow] /\ rows'[d].tunnel = None
        /\ \A e \in Devices : rows'[e].revoked = rows[e].revoked
        /\ \A e \in Devices : e # d => rows'[e] = rows[e]
    BY <1>0, <1>3, <2>1, <2>2 DEF TunnelTypeOK, DeviceRow
  <2>4. RowsInStep'
    BY <1>0, <1>1, <2>2, <2>3 DEF RowsInStep
  <2>5. \A x \in Tunnels : Unwanted(x) => Unwanted(x)'
    BY <1>1, <2>3, NoTunnelAssumption DEF Unwanted
  <2>6. LedgerInStep'
    BY <1>0, <1>1, <2>2, <2>5 DEF LedgerInStep, Deleted
  <2>7. AnswersInStep'
    BY <1>0, <1>1, <1>3, <2>1, <2>2 DEF AnswersInStep, Deleted, Listed
  <2>8. TablesAdvance(c, IdleCall)
    <3>1. \A x : ~Knows(IdleCall, x)
      BY IdleInStep
    <3>2. Knows(calls[c], t)
      BY <2>1, <2>2 DEF Knows
    <3>3. \A x \in Tunnels : Fresh(x) /\ x # t => Fresh(x)'
      BY <1>1, <1>3, <2>1, <2>3, NoTunnelAssumption DEF Fresh
    <3> QED  BY <1>1, <2>5, <3>1, <3>2, <3>3 DEF TablesAdvance, Deleted, Listed
  <2>9. TunnelTypeOK'
    BY <1>0, <1>1, <1>3, <2>1, <2>2, <2>3, EndType, Counting DEF TunnelTypeOK
  <2>10. InStep(IdleCall)'
    BY IdleFields DEF InStep, Knows, Making, Releasing, Settling
  <2> QED  BY <1>1, <2>4, <2>6, <2>7, <2>8, <2>9, <2>10, EndMoves, IdleFields, StepKeeps
           DEF TablesInStep, Making
<1> QED  BY <1>1, <1>2, <1>3

LEMMA RevokeBeginKeeps ==
  ASSUME TunnelInv, NEW c \in Calls, NEW d \in Devices, RevokeBegin(c, d)
  PROVE  TunnelInv'
<1> DEFINE made == [IdleCall EXCEPT !.pc = "creds", !.device = d, !.tunnel = rows[d].tunnel]
<1>0. /\ TunnelTypeOK /\ rows[d].tunnel \in Tunnels \union {None}
      /\ RowsInStep /\ LedgerInStep /\ AnswersInStep
  BY DEF TunnelInv, TunnelTypeOK, DeviceRow
<1>a. /\ made.pc = "creds" /\ made.device = d /\ made.tunnel = rows[d].tunnel /\ made.todo = {}
       /\ made \in CallState
  BY <1>0 DEF IdleCall, CallState
<1>1. PICK new \in CallState : /\ new.pc = "creds" /\ new.device = d /\ new.tunnel = rows[d].tunnel
                               /\ new.todo = {} /\ new = made
  BY <1>a
<1>3. /\ Moves(c, new) /\ Counted /\ UNCHANGED <<ledger, cloud, dns, configured, answered>>
      /\ rows' = [rows EXCEPT ![d].revoked = TRUE]
  BY <1>1 DEF RevokeBegin, Moves, Counted, cloudflare
<1> HIDE DEF made
<1>4. /\ rows' \in [Devices -> DeviceRow] /\ rows'[d].revoked
      /\ \A e \in Devices : rows'[e].tunnel = rows[e].tunnel /\ (rows[e].revoked => rows'[e].revoked)
      /\ \A e \in Devices : e # d => rows'[e] = rows[e]
  BY <1>0, <1>3 DEF TunnelTypeOK, DeviceRow
<1>5. TunnelTypeOK'
  BY <1>0, <1>3, <1>4, MovesType, Counting DEF TunnelTypeOK
<1>6. RowsInStep'
  BY <1>0, <1>3, <1>4 DEF RowsInStep
<1>7. \A x \in Tunnels : Unwanted(x) => Unwanted(x)'
  BY <1>3, <1>4 DEF Unwanted
<1>8. LedgerInStep'
  BY <1>0, <1>3, <1>7 DEF LedgerInStep, Deleted
<1>9. AnswersInStep'
  BY <1>0, <1>3 DEF AnswersInStep, Deleted, Listed
<1>10. \A x : Knows(new, x) => x = rows[d].tunnel
  BY <1>1 DEF Knows
<1>11. \A x \in Tunnels : Fresh(x) => Fresh(x)' /\ x # rows[d].tunnel
  BY <1>3, <1>4 DEF Fresh
<1>12. TablesAdvance(c, new)
  BY <1>3, <1>7, <1>10, <1>11 DEF TablesAdvance, Deleted, Listed
<1>13. InStep(new)'
  <2>1. rows[d].tunnel # None => cloud'[rows[d].tunnel] # "unused"
    BY <1>0, <1>3 DEF RowsInStep
  <2>2. PICK t : t = rows[d].tunnel
    OBVIOUS
  <2>3. t # None => Unwanted(t)'
    BY <1>0, <1>4, <2>1, <2>2 DEF RowsInStep, Unwanted
  <2>4. new.tunnel = t /\ \A x \in Tunnels : Knows(new, x) => cloud'[x] # "unused"
    BY <1>1, <1>10, <2>1, <2>2, NoTunnelAssumption
  <2> QED  BY <1>1, <2>3, <2>4 DEF InStep, Knows, Making, Releasing, Settling
<1> QED  BY <1>1, <1>3, <1>5, <1>6, <1>8, <1>9, <1>12, <1>13, StepKeeps DEF TablesInStep, Making

-----------------------------------------------------------------------------
(* Writes of the ledger: the row of a tunnel that is not wanted.           *)
LEMMA ListingTables ==
  ASSUME TunnelInv, NEW t \in Tunnels, Unwanted(t),
         NEW row \in LedgerRow, ledger' = [ledger EXCEPT ![t] = row],
         row.released => Deleted(t), UNCHANGED <<rows, cloud, dns, configured>>,
         calls' \in [Calls -> CallState], Counted,
         answered' = answered \/ answered' = answered \union {t}
  PROVE  /\ TablesInStep' /\ Listed(t)'
         /\ \A x \in Tunnels : /\ Unwanted(x)' = Unwanted(x) /\ Deleted(x)' = Deleted(x)
                               /\ (Listed(x) => Listed(x)') /\ (Fresh(x) /\ x # t => Fresh(x)')
<1>0. TunnelTypeOK /\ RowsInStep /\ LedgerInStep /\ AnswersInStep
  BY DEF TunnelInv
<1>1. /\ ledger' \in [Tunnels -> LedgerRow \union {None}] /\ ledger'[t] = row /\ row # None
      /\ \A x \in Tunnels : x # t => ledger'[x] = ledger[x]
  BY <1>0, RowAssumption DEF TunnelTypeOK
<1>2. \A x \in Tunnels : /\ Unwanted(x)' = Unwanted(x) /\ Deleted(x)' = Deleted(x)
                         /\ (Listed(x) => Listed(x)') /\ (Fresh(x) /\ x # t => Fresh(x)')
  BY <1>1 DEF Unwanted, Deleted, Listed, Fresh
<1>3. Listed(t)'
  BY <1>1 DEF Listed
<1>4. TunnelTypeOK'
  BY <1>0, <1>1, Counting DEF TunnelTypeOK
<1>5. RowsInStep' /\ LedgerInStep' /\ AnswersInStep'
  <2>1. RowsInStep'
    BY <1>0 DEF RowsInStep
  <2>2. LedgerInStep'
    BY <1>0, <1>1, <1>2 DEF LedgerInStep
  <2>3. AnswersInStep'
    <3>1. \A x \in answered : x \in Tunnels
      BY <1>0 DEF TunnelTypeOK
    <3> QED  BY <1>0, <1>2, <1>3, <3>1 DEF AnswersInStep
  <2> QED  BY <2>1, <2>2, <2>3
<1> QED  BY <1>2, <1>3, <1>4, <1>5 DEF TablesInStep

LEMMA Listing ==
  ASSUME TunnelInv, NEW c \in Calls, NEW t \in Tunnels, calls[c].tunnel = t, Unwanted(t),
         NEW row \in LedgerRow, ledger' = [ledger EXCEPT ![t] = row],
         row.released => Deleted(t), UNCHANGED <<rows, cloud, dns, configured>>, Counted,
         answered' = answered \/ answered' = answered \union {t},
         NEW new \in CallState, Moves(c, new), InStep(new) \/ new.pc = "next",
         new.pc \in {"idle", "next", "passFail"}, new.todo \subseteq calls[c].todo,
         new.tunnel \in {t, None}
  PROVE  TunnelInv'
<1>0. calls \in [Calls -> CallState] /\ InStep(calls[c])
  BY DEF TunnelInv, TunnelTypeOK
<1>1. /\ TablesInStep' /\ Listed(t)'
      /\ \A x \in Tunnels : /\ Unwanted(x)' = Unwanted(x) /\ Deleted(x)' = Deleted(x)
                            /\ (Listed(x) => Listed(x)') /\ (Fresh(x) /\ x # t => Fresh(x)')
  BY <1>0, MovesType, ListingTables
<1>2. Knows(calls[c], t) /\ \A x : Knows(new, x) => Knows(calls[c], x)
  BY NoTunnelAssumption DEF Knows
<1>3. TablesAdvance(c, new)
  BY <1>1, <1>2 DEF TablesAdvance
<1>4. InStep(new)'
  <2>1. \A x \in new.todo : Listed(x)'
    BY <1>0, <1>1 DEF InStep, Listed
  <2>2. \A x \in Tunnels : Knows(new, x) => cloud'[x] # "unused"
    BY <1>0, <1>2 DEF InStep
  <2>3. new.pc = "passFail" => new.tunnel = t /\ new.device \in Devices
    BY NoTunnelAssumption DEF InStep, Settling, Listed
  <2> QED  BY <1>1, <2>1, <2>2, <2>3 DEF InStep, Knows, Making, Releasing, Settling
<1> QED  BY <1>1, <1>3, <1>4, StepKeeps DEF Making

LEMMA RecordKeeps ==
  ASSUME TunnelInv, NEW c \in Calls, Record(c)
  PROVE  TunnelInv'
<1>0. /\ calls[c].pc = "record" /\ calls[c].device \in Devices /\ calls[c].tunnel \in Tunnels
      /\ Unwanted(calls[c].tunnel) /\ TunnelTypeOK /\ LedgerInStep
  BY CallParts, NoTunnelAssumption DEF Record, At, InStep, Releasing, TunnelInv
<1>1. /\ End(c) /\ UNCHANGED <<rows, cloud, dns, configured>> /\ Counted
      /\ \/ UNCHANGED <<ledger, answered>>
         \/ /\ SetPending(calls[c].device, calls[c].tunnel)
            /\ answered' = answered \union {calls[c].tunnel}
  BY DEF Record, Answer, SetPending, store, cloudflare, Counted, TunnelFaults
<1>2. CASE UNCHANGED <<ledger, answered>>
  BY <1>1, <1>2, QuietEnds DEF TablesUnchanged
<1>3. CASE SetPending(calls[c].device, calls[c].tunnel) /\ answered' = answered \union {calls[c].tunnel}
  <2>1. PICK t, d : t = calls[c].tunnel /\ d = calls[c].device
    OBVIOUS
  <2>2. \E row \in LedgerRow : ledger' = [ledger EXCEPT ![t] = row] /\ (row.released => Deleted(t))
    <3>1. CASE ledger[t] = None
      <4> DEFINE row == [device |-> d, fresh |-> TRUE, released |-> FALSE]
      <4>1. row \in LedgerRow /\ ~row.released
        BY <1>0, <2>1 DEF LedgerRow
      <4>2. ledger' = [ledger EXCEPT ![t] = row]
        BY <1>0, <1>3, <2>1, <3>1 DEF SetPending, TunnelTypeOK
      <4> QED  BY <4>1, <4>2
    <3>2. CASE ledger[t] # None
      <4> DEFINE row == [ledger[t] EXCEPT !.fresh = TRUE]
      <4>1. ledger[t] \in LedgerRow /\ (ledger[t].released => Deleted(t))
        BY <1>0, <2>1, <3>2 DEF TunnelTypeOK, LedgerInStep
      <4>2. row \in LedgerRow /\ row.released = ledger[t].released
        BY <4>1 DEF LedgerRow
      <4>3. ledger' = [ledger EXCEPT ![t] = row]
        BY <1>0, <1>3, <2>1, <3>2 DEF SetPending, TunnelTypeOK
      <4> QED  BY <4>1, <4>2, <4>3
    <3> QED  BY <3>1, <3>2
  <2> QED  BY <1>0, <1>1, <1>3, <2>1, <2>2, EndMoves, IdleFields, IdleInStep, Listing
<1> QED  BY <1>1, <1>2, <1>3

LEMMA SettleKeeps ==
  ASSUME TunnelInv, NEW c \in Calls, PassDone(c) \/ PassFail(c)
  PROVE  TunnelInv'
<1>0. /\ calls[c].pc \in {"passDone", "passFail"} /\ calls[c].device \in Devices
      /\ Listed(calls[c].tunnel) /\ Unwanted(calls[c].tunnel) /\ calls[c].tunnel \in Tunnels
      /\ calls[c].pc = "passDone" => Deleted(calls[c].tunnel)
      /\ TunnelTypeOK /\ LedgerInStep /\ InStep(calls[c])
  BY CallParts DEF PassDone, PassFail, At, InStep, Settling, Listed, TunnelInv, LedgerInStep
<1>1. /\ UNCHANGED <<rows, cloud, dns, configured, answered>> /\ Counted
      /\ \/ UNCHANGED ledger /\ (End(c) \/ Goto(c, "passFail"))
         \/ /\ Goto(c, "next")
            /\ \E released \in BOOLEAN : /\ Settle(calls[c].tunnel, released)
                                         /\ released => calls[c].pc = "passDone"
  BY DEF PassDone, PassFail, At, Statement, Settle, OnlyStore, store, cloudflare, Counted,
     TunnelFaults
<1>2. CASE UNCHANGED ledger /\ End(c)
  BY <1>1, <1>2, QuietEnds DEF TablesUnchanged
<1>3. CASE UNCHANGED ledger /\ Goto(c, "passFail")
  <2>1. dns' \in [Devices -> Tunnels \union {None}] /\ TablesUnchanged
    BY <1>0, <1>1, <1>3 DEF TunnelTypeOK, TablesUnchanged
  <2> QED  BY <1>0, <1>1, <1>3, <2>1, QuietGoes DEF Making, Releasing, Settling, Pcs
<1>4. ASSUME Goto(c, "next"), NEW released \in BOOLEAN, Settle(calls[c].tunnel, released),
             released => calls[c].pc = "passDone"
      PROVE  TunnelInv'
  <2>1. PICK t : t = calls[c].tunnel
    OBVIOUS
  <2>2. PICK new \in CallState : Moves(c, new) /\ new.pc = "next" /\ SameTunnel(new, calls[c])
    BY <1>0, <1>4, GotoMoves DEF TunnelTypeOK, Pcs
  <2>3. \E row \in LedgerRow : ledger' = [ledger EXCEPT ![t] = row] /\ (row.released => Deleted(t))
    <3> DEFINE row == [ledger[t] EXCEPT !.fresh = TRUE, !.released = ledger[t].released \/ released]
    <3>1. ledger[t] \in LedgerRow /\ (ledger[t].released => Deleted(t)) /\ t \in Tunnels
      BY <1>0, <2>1 DEF TunnelTypeOK, LedgerInStep, Listed
    <3>2. row \in LedgerRow /\ row.released = (ledger[t].released \/ released)
      BY <3>1 DEF LedgerRow
    <3>3. ledger' = [ledger EXCEPT ![t] = row]
      BY <1>0, <1>4, <2>1, <3>1 DEF Settle, TunnelTypeOK, LedgerRow
    <3> HIDE DEF row
    <3> QED  BY <1>0, <1>4, <2>1, <3>1, <3>2, <3>3
  <2> QED  BY <1>0, <1>1, <1>4, <2>1, <2>2, <2>3, Listing DEF SameTunnel
<1> QED  BY <1>1, <1>2, <1>3, <1>4

LEMMA ElapseKeeps ==
  ASSUME TunnelInv, NEW t \in Tunnels, Elapse(t)
  PROVE  TunnelInv'
<1> DEFINE row == [ledger[t] EXCEPT !.fresh = FALSE]
<1>0. /\ TunnelTypeOK /\ ledger[t] \in LedgerRow /\ Unwanted(t) /\ ledger[t] # None
      /\ ledger[t].released => Deleted(t)
  BY DEF Elapse, TunnelInv, TunnelTypeOK, LedgerInStep
<1>1. row \in LedgerRow /\ row.released = ledger[t].released
  BY <1>0 DEF LedgerRow
<1>2. /\ ledger' = [ledger EXCEPT ![t] = row] /\ Counted
      /\ UNCHANGED <<rows, cloud, dns, configured, calls, answered>>
  BY <1>0 DEF Elapse, cloudflare, Counted, TunnelTypeOK
<1> HIDE DEF row
<1>3. /\ TablesInStep' /\ Listed(t)'
      /\ \A x \in Tunnels : /\ Unwanted(x)' = Unwanted(x) /\ Deleted(x)' = Deleted(x)
                            /\ (Listed(x) => Listed(x)') /\ (Fresh(x) /\ x # t => Fresh(x)')
  BY <1>0, <1>1, <1>2, ListingTables DEF TunnelTypeOK
<1>4. ASSUME NEW c \in Calls  PROVE InStep(calls[c])'
  <2>1. PICK call : call = calls[c]
    OBVIOUS
  <2>2. InStep(call) /\ calls'[c] = call
    BY <1>2, <2>1, CallParts
  <2>3. Fresh(call.tunnel) => Fresh(call.tunnel)'
    BY <1>0, <1>3 DEF Fresh
  <2>4. /\ Unwanted(call.tunnel) => Unwanted(call.tunnel)'
        /\ Deleted(call.tunnel) => Deleted(call.tunnel)'
        /\ Listed(call.tunnel) => Listed(call.tunnel)'
        /\ (\A x \in call.todo : Listed(x)) => \A x \in call.todo : Listed(x)'
    BY <1>3 DEF Unwanted, Deleted, Listed
  <2> QED  BY <1>2, <2>2, <2>3, <2>4 DEF InStep, Knows
<1>5. Exclusive'
  BY <1>2 DEF TunnelInv, Exclusive, Knows
<1> QED  BY <1>3, <1>4, <1>5 DEF TunnelInv, TablesInStep

-----------------------------------------------------------------------------
LEMMA NextKeeps ==
  ASSUME TunnelInv, [TunnelNext]_tunnelVars
  PROVE  TunnelInv'
<1>1. CASE UNCHANGED tunnelVars
  <2>1. TablesUnchanged /\ UNCHANGED <<dns, configured, calls, trouble>>
    BY <1>1 DEF tunnelVars, store, cloudflare, TablesUnchanged
  <2>2. TunnelTypeOK'
    BY <2>1 DEF TunnelInv, TunnelTypeOK, TablesUnchanged
  <2>3. TablesInStep' /\ \A c \in Calls : InStep(calls[c])'
    BY <2>1, <2>2, TablesStand DEF TablesUnchanged, TunnelInv, InStep, Knows
  <2>4. Exclusive'
    BY <2>1 DEF TunnelInv, Exclusive, Knows
  <2> QED  BY <2>3, <2>4 DEF TunnelInv, TablesInStep
<1>2. ASSUME NEW c \in Fetches, TunnelRoute(c) \/ FetchStep(c)  PROVE TunnelInv'
  <2>1. c \in Calls
    BY DEF Calls
  <2> QED  BY <1>2, <2>1, FetchBeginKeeps, CreateKeeps, PublishKeeps, UndoKeeps, TokenKeeps,
           WriteKeeps, QuietEndKeeps DEF TunnelRoute, FetchStep
<1>3. ASSUME NEW c \in Revokes, (\E d \in Devices : RevokeBegin(c, d)) \/ RevokeStep(c)
      PROVE  TunnelInv'
  <2>1. c \in Calls
    BY DEF Calls
  <2> QED  BY <1>3, <2>1, RevokeBeginKeeps, CredsKeeps, HideKeeps, DropKeeps, RecordKeeps,
           ClearKeeps DEF RevokeStep
<1>4. ASSUME NEW c \in Passes, PassBegin(c) \/ PassStep(c)  PROVE TunnelInv'
  <2>1. c \in Calls
    BY DEF Calls
  <2> QED  BY <1>4, <2>1, PassBeginKeeps, PassNextKeeps, QuietEndKeeps, HideKeeps, DropKeeps,
           SettleKeeps DEF PassStep
<1> QED  BY <1>1, <1>2, <1>3, <1>4, ElapseKeeps, QuietEndKeeps, ConfigureKeeps DEF TunnelNext

LEMMA InitTunnelInv == TunnelInit => TunnelInv
<1> SUFFICES ASSUME TunnelInit  PROVE TunnelInv
  OBVIOUS
<1>1. TunnelTypeOK
  BY IdleFields, TroubleAssumption DEF TunnelInit, TunnelTypeOK, DeviceRow
<1>2. RowsInStep /\ LedgerInStep /\ AnswersInStep
  BY DEF TunnelInit, RowsInStep, LedgerInStep, AnswersInStep
<1>3. \A c \in Calls : calls[c] = IdleCall
  BY DEF TunnelInit
<1> QED  BY <1>1, <1>2, <1>3, IdleInStep, IdleFields DEF TunnelInv, Exclusive, Making

LEMMA Invariance == TunnelSpec => []TunnelInv
<1>1. TunnelInv /\ [TunnelNext]_tunnelVars => TunnelInv'
  BY NextKeeps
<1> QED  BY <1>1, InitTunnelInv, PTL DEF TunnelSpec

(* The tables, what Cloudflare holds and the calls keep their types: a     *)
(* ledger row always names the device whose hostname is to be hidden.      *)
THEOREM TunnelTypeCorrect == TunnelSpec => []TunnelTypeOK
<1>1. TunnelInv => TunnelTypeOK
  BY DEF TunnelInv
<1> QED  BY <1>1, Invariance, PTL

(* provision, release and reconcile: none of them ever deletes the tunnel  *)
(* in the row of a device in service.                                      *)
THEOREM ServedWhileActive == TunnelSpec => []ActiveIsServed
<1>1. TunnelInv => ActiveIsServed
  BY DEF TunnelInv, RowsInStep, ActiveIsServed
<1> QED  BY <1>1, Invariance, PTL

(* revokeDevice and reconcile: the tunnel of a revocation that answered is *)
(* deleted or in the ledger, and what the ledger calls released is gone.   *)
THEOREM RevocationIsKept == TunnelSpec => []AnsweredIsKept
<1>1. TunnelInv => AnsweredIsKept
  BY DEF TunnelInv, AnswersInStep, LedgerInStep, Deleted, Listed, AnsweredIsKept
<1> QED  BY <1>1, Invariance, PTL

=============================================================================
