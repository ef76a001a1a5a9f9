--------------------------- MODULE ManagedTunnels ---------------------------
(***************************************************************************)
(* The managed Cloudflare tunnels of relay devices:                        *)
(* src/services/cloudflare-tunnels.ts and its callers, getTunnelCredential *)
(* and revokeDevice of src/services/relay-devices.ts and the cron of       *)
(* src/worker.ts.                                                          *)
(*                                                                         *)
(* A device fetches its tunnel, which is created the first time; a         *)
(* revocation takes tunnel and hostname down, and what Cloudflare does not *)
(* take down waits in a ledger for a scheduled pass.  Cloud's tables and   *)
(* Cloudflare are two stores no transaction spans: a call is a record      *)
(* whose pc names the request or statement it makes next.  Credentials     *)
(* are the business of RelayDevices: here a fetch needs a device that is   *)
(* not revoked.                                                            *)
(***************************************************************************)
EXTENDS Naturals

CONSTANTS
  Devices,     \* relay devices, each with the hostname derived from its id
  Tunnels,     \* ids Cloudflare may hand out
  Fetches,     \* fetches of the tunnel credential in flight
  Revokes,     \* revocations in flight
  Passes,      \* reconciliation passes in flight
  Faults,      \* which of TunnelFaults may happen
  MaxTrouble,  \* bound: faults in one behaviour
  None

TunnelFaults == {"refused",   \* Cloudflare does not do it and the caller is told so
                 "lost",      \* Cloudflare does it, the answer does not arrive
                 "crash", "db", "config"}
Calls == Fetches \union Revokes \union Passes

ASSUME FaultsAssumption == Faults \subseteq TunnelFaults
ASSUME TroubleAssumption == MaxTrouble \in Nat
ASSUME NoTunnelAssumption == None \notin Devices \union Tunnels

VARIABLES
  rows,        \* table relay_devices: revokedAt and the tunnel columns
  ledger,      \* table relay_tunnel_cleanup, by its unique tunnelId
  cloud,       \* Cloudflare: the tunnels of the account
  dns,         \* Cloudflare: the CNAME of each device's hostname
  configured,  \* the four settings tunnelCredentials wants are set
  calls,       \* the calls in flight
  trouble,     \* faults so far
  answered     \* history: the tunnels of revocations that have answered

store == <<rows, ledger>>
cloudflare == <<cloud, dns>>
tunnelVars == <<store, cloudflare, configured, calls, trouble, answered>>

-----------------------------------------------------------------------------
DeviceRow == [revoked : BOOLEAN, tunnel : Tunnels \union {None}]
(* fresh: lastAttemptAt is less than fifteen minutes old. *)
LedgerRow == [device : Devices, fresh : BOOLEAN, released : BOOLEAN]
ASSUME RowAssumption == None \notin LedgerRow

CallState == [pc : {"idle", "create", "ingress", "publish", "undo", "token", "write",
                    "again", "creds", "hide", "drop", "record", "clear",
                    "next", "passHide", "passDrop", "passDone", "passFail"},
              device : Devices \union {None}, tunnel : Tunnels \union {None},
              todo : SUBSET Tunnels]
IdleCall == [pc |-> "idle", device |-> None, tunnel |-> None, todo |-> {}]

TunnelInit ==
  /\ rows = [d \in Devices |-> [revoked |-> FALSE, tunnel |-> None]]
  /\ ledger = [t \in Tunnels |-> None]
  /\ cloud = [t \in Tunnels |-> "unused"]
  /\ dns = [d \in Devices |-> None]
  /\ configured = TRUE
  /\ calls = [c \in Calls |-> IdleCall]
  /\ trouble = 0
  /\ answered = {}

At(c, pc) == calls[c].pc = pc
Goto(c, pc) == calls' = [calls EXCEPT ![c].pc = pc]
End(c) == calls' = [calls EXCEPT ![c] = IdleCall]

(* A fault of a kind that may happen, counted against the bound. *)
Fault(kind) == /\ kind \in Faults
               /\ trouble < MaxTrouble
               /\ trouble' = trouble + 1
Calm == UNCHANGED trouble

(* HttpCloudflareTunnelApi.request: a request that does `effect` to        *)
(* Cloudflare; the call goes on at `then`, or at `failed` when the request *)
(* throws, whether or not Cloudflare has done what was asked.  Only        *)
(* request's failure is told, never which of the two it was.               *)
Request(c, effect, then, failed) ==
  \/ effect /\ Goto(c, then) /\ Calm
  \/ Fault("refused") /\ UNCHANGED cloudflare /\ Goto(c, failed)
  \/ Fault("lost") /\ effect /\ Goto(c, failed)

(* A statement on Cloud's tables that does `effect`, and when it throws    *)
(* ends the call.                                                          *)
Statement(c, effect, then) ==
  \/ effect /\ Calm /\ (IF then = "idle" THEN End(c) ELSE Goto(c, then))
  \/ Fault("db") /\ UNCHANGED store /\ End(c)

OnlyStore == UNCHANGED <<cloudflare, configured, answered>>
OnlyCloudflare == UNCHANGED <<store, configured, answered>>

-----------------------------------------------------------------------------
(* getTunnelCredential: requireActiveCredential reads the device's row; a  *)
(* deployment without Cloudflare answers null.  provision then goes on     *)
(* with the tunnel of the row that was read, or creates one.               *)
FetchBegin(c, d) ==
  /\ At(c, "idle")
  /\ configured
  /\ ~rows[d].revoked
  /\ calls' = [calls EXCEPT ![c] = [IdleCall EXCEPT
                 !.device = d, !.tunnel = rows[d].tunnel,
                 !.pc = IF rows[d].tunnel = None THEN "create" ELSE "again"]]
  /\ Calm
  /\ UNCHANGED <<store, cloudflare, configured, answered>>

Unused == {t \in Tunnels : cloud[t] = "unused"}

(* createTunnel; a lost answer leaves a tunnel whose id nobody has. *)
Create(c) ==
  /\ At(c, "create")
  /\ \E t \in Unused :
       \/ /\ cloud' = [cloud EXCEPT ![t] = "live"]
          /\ calls' = [calls EXCEPT ![c].tunnel = t, ![c].pc = "ingress"]
          /\ Calm
       \/ /\ Fault("lost")
          /\ cloud' = [cloud EXCEPT ![t] = "live"]
          /\ End(c)
       \/ Fault("refused") /\ UNCHANGED cloud /\ End(c)
  /\ UNCHANGED dns
  /\ OnlyCloudflare

(* configureIngress of the new tunnel: what it is set to is left out. *)
Ingress(c) ==
  /\ At(c, "ingress")
  /\ Request(c, UNCHANGED cloudflare, "publish", "undo")
  /\ OnlyCloudflare

(* upsertDnsRecord: its lookup and its PATCH or POST as one request. *)
PointHostname(d, t) == dns' = [dns EXCEPT ![d] = t] /\ UNCHANGED cloud
Publish(c) ==
  /\ At(c, "publish")
  /\ Request(c, PointHostname(calls[c].device, calls[c].tunnel), "token", "undo")
  /\ OnlyCloudflare

(* The catch of provision: deleteTunnel, whose own failure is dropped.     *)
(* The hostname may already point at the tunnel.                           *)
DeleteTunnel(t) == cloud' = [cloud EXCEPT ![t] = "deleted"] /\ UNCHANGED dns
Undo(c) ==
  /\ At(c, "undo")
  /\ \/ DeleteTunnel(calls[c].tunnel) /\ Calm
     \/ Fault("refused") /\ UNCHANGED cloudflare
  /\ End(c)
  /\ OnlyCloudflare

(* getRunToken: outside the try, so a failure leaves tunnel and hostname. *)
Token(c) ==
  /\ At(c, "token")
  /\ \/ Goto(c, "write") /\ Calm
     \/ Fault("refused") /\ End(c)
  /\ UNCHANGED cloudflare
  /\ OnlyCloudflare

(* The new tunnel goes to the device's row, whatever the row now says. *)
SetTunnel(d, t) == rows' = [rows EXCEPT ![d].tunnel = t] /\ UNCHANGED ledger
Write(c) ==
  /\ At(c, "write")
  /\ Statement(c, SetTunnel(calls[c].device, calls[c].tunnel), "idle")
  /\ OnlyStore

(* A tunnel that was there: configureIngress and getRunToken again.  A     *)
(* deleted tunnel is refused by Cloudflare; either way only the answer     *)
(* differs.                                                                *)
AgainOrUndo(c) ==                            \* inside the try, as for a new tunnel
  /\ At(c, "again")
  /\ \/ End(c) /\ Calm
     \/ Fault("refused") /\ Goto(c, "undo")
  /\ UNCHANGED <<store, cloudflare, configured, answered>>
Again(c) ==
  /\ At(c, "again")
  /\ End(c)
  /\ Calm
  /\ UNCHANGED <<store, cloudflare, configured, answered>>

-----------------------------------------------------------------------------
(* revokeDevice: the compare-and-set on revokedAt, whose returned row is   *)
(* where the tunnel to release comes from; the device's credentials; then  *)
(* release, and the columns are cleared when it succeeded.                 *)
RevokeBegin(c, d) ==
  /\ At(c, "idle")
  /\ ~rows[d].revoked
  /\ rows' = [rows EXCEPT ![d].revoked = TRUE]
  /\ calls' = [calls EXCEPT ![c] = [IdleCall EXCEPT !.pc = "creds", !.device = d,
                                                    !.tunnel = rows[d].tunnel]]
  /\ Calm
  /\ UNCHANGED <<ledger, cloudflare, configured, answered>>

RevokeCreds(c) ==
  /\ At(c, "creds")
  /\ Statement(c, UNCHANGED store, IF calls[c].tunnel = None THEN "idle"
                                   ELSE IF configured THEN "hide" ELSE "record")
  /\ OnlyStore

(* deleteDnsRecord: every record of the hostname, whatever it points at.   *)
(* Its lookup and its deletes are one request.                             *)
DeleteHostname(d) == dns' = [dns EXCEPT ![d] = None] /\ UNCHANGED cloud

Hide(c) ==
  /\ At(c, "hide")
  /\ Request(c, DeleteHostname(calls[c].device), "drop", "record")
  /\ OnlyCloudflare

DropThenClear(c) ==                         \* release reports success either way
  /\ At(c, "drop")
  /\ Request(c, DeleteTunnel(calls[c].tunnel), "clear", "clear")
  /\ OnlyCloudflare
Drop(c) ==
  /\ At(c, "drop")
  /\ Request(c, DeleteTunnel(calls[c].tunnel), "clear", "record")
  /\ OnlyCloudflare

Answer(c) == End(c) /\ answered' = answered \union {calls[c].tunnel}

(* recordPending: an upsert on the tunnel id. *)
SetPendingUnowned(d, t) ==                   \* release called without its owner
  /\ ledger' = [ledger EXCEPT ![t] = [device |-> None, fresh |-> TRUE, released |-> FALSE]]
  /\ UNCHANGED rows
SetPending(d, t) ==
  /\ ledger' = [ledger EXCEPT ![t] = IF @ = None
                  THEN [device |-> d, fresh |-> TRUE, released |-> FALSE]
                  ELSE [@ EXCEPT !.fresh = TRUE]]
  /\ UNCHANGED rows
Record(c) ==
  /\ At(c, "record")
  /\ \/ SetPending(calls[c].device, calls[c].tunnel) /\ Answer(c) /\ Calm
     \/ Fault("db") /\ UNCHANGED <<store, answered>> /\ End(c)
  /\ UNCHANGED <<cloudflare, configured>>

Clear(c) ==
  /\ At(c, "clear")
  /\ \/ SetTunnel(calls[c].device, None) /\ Answer(c) /\ Calm
     \/ Fault("db") /\ UNCHANGED <<store, answered>> /\ End(c)
  /\ UNCHANGED <<cloudflare, configured>>

-----------------------------------------------------------------------------
(* reconcile, from the cron: the rows due, then hostname, tunnel and row   *)
(* of each.  The order of createdAt and the limit of 20 are left out.      *)
DueJustTried ==                              \* the comparison turned round
  {t \in Tunnels : ledger[t] # None /\ ~ledger[t].released /\ ledger[t].fresh}
Due == {t \in Tunnels : ledger[t] # None /\ ~ledger[t].released /\ ~ledger[t].fresh}

PassBegin(c) ==
  /\ At(c, "idle")
  /\ configured
  /\ Due # {}
  /\ calls' = [calls EXCEPT ![c] = [IdleCall EXCEPT !.pc = "next", !.todo = Due]]
  /\ Calm
  /\ UNCHANGED <<store, cloudflare, configured, answered>>

PassNext(c) ==
  /\ At(c, "next")
  /\ configured                              \* tunnelCredentials()! throws otherwise
  /\ \E t \in calls[c].todo :
       calls' = [calls EXCEPT ![c].pc = "passHide", ![c].tunnel = t,
                              ![c].device = ledger[t].device, ![c].todo = @ \ {t}]
  /\ Calm
  /\ UNCHANGED <<store, cloudflare, configured, answered>>

PassEnd(c) ==
  /\ At(c, "next")
  /\ calls[c].todo = {} \/ ~configured
  /\ End(c)
  /\ Calm
  /\ UNCHANGED <<store, cloudflare, configured, answered>>

PassHide(c) ==
  /\ At(c, "passHide")
  /\ Request(c, DeleteHostname(calls[c].device), "passDrop", "passFail")
  /\ OnlyCloudflare

PassDrop(c) ==
  /\ At(c, "passDrop")
  /\ Request(c, DeleteTunnel(calls[c].tunnel), "passDone", "passFail")
  /\ OnlyCloudflare

(* Both updates go by the row's id and do not look at releasedAt; a        *)
(* failing one of PassDone is caught and becomes PassFail's.               *)
Settle(t, released) == /\ ledger' = [ledger EXCEPT ![t].fresh = TRUE, ![t].released = @ \/ released]
                       /\ UNCHANGED rows
PassDone(c) ==
  /\ At(c, "passDone")
  /\ \/ Settle(calls[c].tunnel, TRUE) /\ Goto(c, "next") /\ Calm
     \/ Fault("db") /\ UNCHANGED store /\ Goto(c, "passFail")
  /\ OnlyStore

PassFail(c) ==
  /\ At(c, "passFail")
  /\ Statement(c, Settle(calls[c].tunnel, FALSE), "next")
  /\ OnlyStore

-----------------------------------------------------------------------------
Elapse(t) ==
  /\ ledger[t] # None
  /\ ledger[t].fresh
  /\ ledger' = [ledger EXCEPT ![t].fresh = FALSE]
  /\ Calm
  /\ UNCHANGED <<rows, cloudflare, configured, calls, answered>>

Crash(c) ==
  /\ ~At(c, "idle")
  /\ Fault("crash")
  /\ End(c)
  /\ UNCHANGED <<store, cloudflare, configured, answered>>

(* A deployment without the settings, and the next one with them again. *)
Unconfigure ==
  /\ configured
  /\ Fault("config")
  /\ configured' = FALSE
  /\ UNCHANGED <<store, cloudflare, calls, answered>>
Configure ==
  /\ ~configured
  /\ configured' = TRUE
  /\ Calm
  /\ UNCHANGED <<store, cloudflare, calls, answered>>

(* The device's endpoint, for a device of the relay alone.                 *)
TunnelRoute(c) == \E d \in Devices : FetchBegin(c, d)

FetchStep(c) == \/ Create(c) \/ Ingress(c) \/ Publish(c) \/ Undo(c)
                \/ Token(c) \/ Write(c) \/ Again(c)
RevokeStep(c) == RevokeCreds(c) \/ Hide(c) \/ Drop(c) \/ Record(c) \/ Clear(c)
PassStep(c) == \/ PassNext(c) \/ PassEnd(c) \/ PassHide(c)
               \/ PassDrop(c) \/ PassDone(c) \/ PassFail(c)

TunnelNext ==
  \/ \E c \in Fetches : TunnelRoute(c) \/ FetchStep(c)
  \/ \E c \in Revokes, d \in Devices : RevokeBegin(c, d)
  \/ \E c \in Revokes : RevokeStep(c)
  \/ \E c \in Passes : PassBegin(c) \/ PassStep(c)
  \/ \E t \in Tunnels : Elapse(t)
  \/ \E c \in Calls : Crash(c)
  \/ Unconfigure
  \/ Configure

(* The cron comes back, what was started goes on, and time passes. *)
TunnelFairness ==
  /\ \A c \in Passes : WF_tunnelVars(PassBegin(c)) /\ WF_tunnelVars(PassStep(c))
  /\ \A c \in Revokes : WF_tunnelVars(RevokeStep(c))
  /\ \A t \in Tunnels : WF_tunnelVars(Elapse(t))
  /\ WF_tunnelVars(Configure)

TunnelSpec == TunnelInit /\ [][TunnelNext]_tunnelVars /\ TunnelFairness

-----------------------------------------------------------------------------
(* Rows, Cloudflare's answers and the calls are what their tables and      *)
(* types say: a ledger row always names the device whose hostname to hide. *)
TunnelTypeOK ==
  /\ rows \in [Devices -> DeviceRow]
  /\ ledger \in [Tunnels -> LedgerRow \union {None}]
  /\ cloud \in [Tunnels -> {"unused", "live", "deleted"}]
  /\ dns \in [Devices -> Tunnels \union {None}]
  /\ configured \in BOOLEAN
  /\ calls \in [Calls -> CallState]
  /\ trouble \in 0..MaxTrouble
  /\ answered \subseteq Tunnels

(* A device that is not revoked has a tunnel that exists: neither a failed *)
(* setup, nor a revocation, nor the cron ever deletes the tunnel in the    *)
(* row of a device in service.                                             *)
ActiveIsServed ==
  \A d \in Devices : ~rows[d].revoked /\ rows[d].tunnel # None => cloud[rows[d].tunnel] = "live"

(* A revocation that answers leaves nothing behind: the tunnel it found in *)
(* the row is deleted, or the ledger has it; and what the ledger says is   *)
(* released is gone.                                                       *)
AnsweredIsKept ==
  /\ \A t \in answered : cloud[t] = "deleted" \/ ledger[t] # None
  /\ \A t \in Tunnels : ledger[t] # None => (ledger[t].released => cloud[t] = "deleted")

(* What is in the ledger ends released, its tunnel deleted, however often  *)
(* Cloudflare, the database or the process fails on the way (the comment   *)
(* of reconcile: "an outage during revocation resolves itself once         *)
(* Cloudflare is reachable again").                                        *)
PendingIsReleased ==
  \A t \in Tunnels : (ledger[t] # None) ~> (ledger[t] # None /\ ledger[t].released
                                              /\ cloud[t] = "deleted")

(* The table relay_tunnel_cleanup: "Local revocation is authoritative even *)
(* when Cloudflare cannot be reached, so the orphaned tunnel is recorded   *)
(* here and retried rather than leaked."  When nothing is in flight, a     *)
(* revoked device has no live tunnel behind its hostname that no ledger    *)
(* row remembers.                                                          *)
RevokedIsDark ==
  (\A c \in Calls : At(c, "idle")) =>
    \A d \in Devices : rows[d].revoked /\ dns[d] # None =>
      (cloud[dns[d]] = "live" => ledger[dns[d]] # None)
=============================================================================
