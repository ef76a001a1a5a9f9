--------------------------- MODULE BridgeIdentity ---------------------------
(***************************************************************************)
(* One Mailwarden Bridge beside Mailwarden Cloud: apps/bridge/src/core/    *)
(* identity.ts, bridge.ts and daemon.ts over the calls of RelayDevices.    *)
(*                                                                         *)
(* The bridge keeps one identity record in its secret store.  Its          *)
(* heartbeat cycle and its refresh_registration repair each load the       *)
(* record, renew the credential in the last quarter of its life, and go on *)
(* with what they loaded; both are asynchronous and nothing keeps them     *)
(* apart.  A reply that does not come within the client's timeout is lost: *)
(* Cloud may have done the work all the same.                              *)
(***************************************************************************)
EXTENDS RelayDevices

CONSTANTS
  Loops,       \* the activities of the bridge, of AllLoops
  LinkFaults   \* {"lost"} when a reply of Cloud may be lost

AllLoops == {"heartbeat", "refresh"}
ASSUME LoopsAssumption == Loops \subseteq AllLoops
ASSUME LinkAssumption == LinkFaults \subseteq {"lost"}
ASSUME NoCallAssumption == NoRow \notin Calls

VARIABLES
  identity,    \* the credential in the secret store, or NoRow
  stored,      \* every credential it has held
  marker,      \* the revocation marker that erasing an identity leaves
  serving,     \* gateway and tunnel are up
  aged,        \* credentials in the last quarter of their life
  setup,       \* the call of a running setup that will register this bridge
  loops        \* the activities, each with the credential it loaded

bridgeVars == <<identity, stored, marker, serving, aged, setup, loops>>
vars == <<relayVars, bridgeVars>>

LoopState == [pc : {Idle, "renew", "await", "beat", "revoked", "stop"},
              held : Creds \union {NoRow}, call : Calls \union {NoRow}]
IdleLoop == [pc |-> Idle, held |-> NoRow, call |-> NoRow]

BridgeInit == /\ identity = NoRow
              /\ stored = {}
              /\ marker = FALSE
              /\ serving = FALSE
              /\ aged = {}
              /\ setup = NoRow
              /\ loops = [l \in Loops |-> IdleLoop]
Init == RelayInit /\ BridgeInit

LoopGoto(l, pc) == loops' = [loops EXCEPT ![l].pc = pc]
LoopEnds(l) == loops' = [loops EXCEPT ![l] = IdleLoop]

(* The secret store's one record: a credential, or the marker of a revocation. *)
StoreDevice(k) ==                   \* the device's id in place of the credential
  identity' = creds[k].device /\ marker' = FALSE /\ stored' = stored \union {k}
Store(k) == identity' = k /\ marker' = FALSE /\ stored' = stored \union {k}

RenewalForgotten(k) ==              \* a renewed credential is not written
  stored' = stored \union {k} /\ UNCHANGED <<identity, marker>>
StoreRenewal(k) == Store(k)

EraseForgotten == marker' = TRUE /\ identity' = identity   \* the credential stays
Erase == marker' = TRUE /\ identity' = NoRow

-----------------------------------------------------------------------------
(* provision: the poll that claims the code is this bridge's.  Its answer  *)
(* is stored, and the daemon serves with what it finds.                    *)
SetupPoll(c, p) ==
  /\ identity = NoRow /\ setup = NoRow
  /\ PollRead(c, p)
  /\ calls'[c].pc = "device"
  /\ setup' = c
  /\ UNCHANGED <<identity, stored, marker, serving, aged, loops>>

SetupAnswered ==
  /\ setup # NoRow
  /\ Answer(setup)
  /\ Store(calls[setup].cred)
  /\ serving' = TRUE
  /\ setup' = NoRow
  /\ UNCHANGED <<aged, loops>>

-----------------------------------------------------------------------------
(* What follows the renewal: a heartbeat, or for the repair the fetch of   *)
(* the tunnel credential, whose failure is swallowed.                      *)
GoingOn(l, k) == IF l = "heartbeat" THEN [pc |-> "beat", held |-> k, call |-> NoRow]
                                    ELSE IdleLoop
GoOn(l, k) == loops' = [loops EXCEPT ![l] = GoingOn(l, k)]

(* Each activity loads the identity and renews it if it is aged. *)
Load(l) ==
  /\ loops[l].pc = Idle
  /\ identity # NoRow
  /\ IF identity \in aged
       THEN loops' = [loops EXCEPT ![l] =
              [pc |-> "renew", held |-> identity, call |-> NoRow]]
       ELSE GoOn(l, identity)
  /\ UNCHANGED <<relayVars, identity, stored, marker, serving, aged, setup>>

RenewSend(l, c) ==
  /\ loops[l].pc = "renew"
  /\ RenewRead(c, loops[l].held)
  /\ loops' = [loops EXCEPT ![l].pc = "await", ![l].call = c]
  /\ UNCHANGED <<identity, stored, marker, serving, aged, setup>>

(* Cloud answers 401: the identity is erased and the activity throws, past *)
(* the lines of the heartbeat that stop the gateway.                       *)
RenewRejected(l) ==
  /\ loops[l].pc = "renew"
  /\ ~Authenticates(loops[l].held)
  /\ Erase
  /\ LoopEnds(l)
  /\ UNCHANGED <<relayVars, stored, serving, aged, setup>>

RenewAnswered(l) ==
  LET c == loops[l].call IN
  /\ loops[l].pc = "await"
  /\ Answer(c)
  /\ StoreRenewal(calls[c].cred)
  /\ GoOn(l, calls[c].cred)
  /\ UNCHANGED <<serving, aged, setup>>

(* The reply does not come in time: the activity goes on with the          *)
(* credential it loaded, as it does when the call fails (BridgeWaits).     *)
RenewTimeout(l) ==
  /\ "lost" \in LinkFaults
  /\ loops[l].pc = "await"
  /\ GoOn(l, loops[l].held)
  /\ UNCHANGED <<relayVars, identity, stored, marker, serving, aged, setup>>

-----------------------------------------------------------------------------
(* heartbeat: a good answer changes nothing, for Cloud never sends a       *)
(* credential with it; ...                                                 *)
Heartbeat(l) ==
  /\ loops[l].pc = "beat"
  /\ IF Authenticates(loops[l].held) THEN LoopEnds(l) ELSE LoopGoto(l, "revoked")
  /\ UNCHANGED <<relayVars, identity, stored, marker, serving, aged, setup>>

(* ... "revoked" erases whatever the store holds when it arrives.          *)
HeartbeatRevoked(l) ==
  /\ loops[l].pc = "revoked"
  /\ Erase
  /\ LoopGoto(l, "stop")
  /\ UNCHANGED <<relayVars, stored, serving, aged, setup>>

StopServing(l) ==
  /\ loops[l].pc = "stop"
  /\ serving' = FALSE
  /\ LoopEnds(l)
  /\ UNCHANGED <<relayVars, identity, stored, marker, aged, setup>>

HeartbeatTimeout(l) ==
  /\ "lost" \in LinkFaults
  /\ loops[l].pc \in {"beat", "revoked"}
  /\ LoopEnds(l)
  /\ UNCHANGED <<relayVars, identity, stored, marker, serving, aged, setup>>

(* Only the age of the stored credential is ever asked for. *)
Age(k) == /\ k = identity
          /\ k \notin aged
          /\ aged' = aged \union {k}
          /\ UNCHANGED <<relayVars, identity, stored, marker, serving, setup, loops>>

-----------------------------------------------------------------------------
(* Cloud's own steps.  An answer nobody awaits is dropped: its caller is   *)
(* an admin, or a bridge that has given up.  When a call ends without an   *)
(* answer, the setup that made it throws and a renewal goes on without it. *)
BridgeWaits ==
  /\ setup' = IF setup # NoRow /\ calls'[setup].pc = Idle THEN NoRow ELSE setup
  /\ loops' = [l \in Loops |->
       IF loops[l].pc = "await" /\ calls'[loops[l].call].pc = Idle
         THEN GoingOn(l, loops[l].held) ELSE loops[l]]
  /\ UNCHANGED <<identity, stored, marker, serving, aged>>

RenewalCalls == {loops[l].call : l \in Loops}
CloudStep(c) == CallStep(c) /\ BridgeWaits
CloudAnswer(c) == /\ c \notin RenewalCalls
                  /\ c # setup \/ "lost" \in LinkFaults
                  /\ Answer(c) /\ BridgeWaits
CloudFailure(c) == CallFails(c) /\ BridgeWaits

Cloud == \/ Environment /\ UNCHANGED bridgeVars
         \/ \E c \in Calls : \/ AdminBegins(c) /\ UNCHANGED bridgeVars
                             \/ CloudStep(c) \/ CloudAnswer(c) \/ CloudFailure(c)

LoopStep(l) == \/ Load(l) \/ RenewRejected(l) \/ RenewAnswered(l)
               \/ Heartbeat(l) \/ HeartbeatRevoked(l) \/ StopServing(l)
               \/ \E c \in Calls : RenewSend(l, c)

LoopNext(l) == LoopStep(l) \/ RenewTimeout(l) \/ HeartbeatTimeout(l)

Next == \/ Cloud
        \/ \E c \in Calls, p \in Codes : SetupPoll(c, p)
        \/ SetupAnswered
        \/ \E l \in Loops : LoopNext(l)
        \/ \E k \in Creds : Age(k)

Spec == Init /\ [][Next]_vars

(* The daemon schedules a heartbeat after every heartbeat, a Worker that   *)
(* has started a call goes on with it, and a link that loses replies does  *)
(* not lose every one of them.                                             *)
FairSpec == Spec /\ \A l \in Loops : /\ WF_vars(LoopStep(l))
                                     /\ SF_vars(Heartbeat(l))
                                     /\ SF_vars(HeartbeatRevoked(l))
                 /\ \A c \in Calls : WF_vars(CloudStep(c))

-----------------------------------------------------------------------------
(* Type invariant of the bridge's half. *)
BridgeTypeOK ==
  /\ identity \in stored \union {NoRow} /\ stored \subseteq Creds
  /\ marker \in BOOLEAN
  /\ serving \in BOOLEAN
  /\ aged \subseteq Creds
  /\ setup \in Calls \union {NoRow}
  /\ loops \in [Loops -> LoopState]

(* An identity is erased only when its device has been revoked, or when    *)
(* Cloud has issued a credential for it that never reached the bridge.     *)
SomeRevoked == \E d \in Devices : devices[d] = "revoked"
ErasedForACause ==
  marker => \/ SomeRevoked
            \/ \E k \in Creds \ stored : creds[k] # NoRow /\ creds[k].status # "deleted"

(* An identity is erased only when an admin has revoked the device: no     *)
(* transient failure and no repair discards a credential that was valid.   *)
ErasedOnlyOnRevocation == marker => SomeRevoked

(* The bridge of a revoked device in time forgets its credential. *)
RevokedIsForgotten ==
  \A k \in Creds :
    identity = k /\ devices[creds[k].device] = "revoked" ~> identity # k
=============================================================================
