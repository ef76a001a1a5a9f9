------------------------------ MODULE RelayHost ------------------------------
(***************************************************************************)
(* The host a Mailwarden Bridge runs on: the gateway on its port, the      *)
(* cloudflared processes, the secret file, and the activities of the       *)
(* daemon that start, stop, repair and report them: apps/bridge/src/core/  *)
(* bridge.ts, tunnel.ts, secrets.ts, gateway.ts and local-api.ts,          *)
(* daemon.ts and cli.ts, with the signed requests of packages/relay/src/   *)
(* gateway-auth.ts that Cloud's bridge-control.ts makes.                   *)
(*                                                                         *)
(* An activity is asynchronous: a call is a record whose pc names what it  *)
(* runs up to the next await.  What is awaited in the runtime and the host *)
(* (a server that has stopped, a process that exits, the systemd unit,     *)
(* another program on the port) is external.  The dialogue with Cloud that *)
(* renews and revokes the identity is in BridgeIdentity.                   *)
(***************************************************************************)
EXTENDS Naturals, FiniteSets, BridgeHealth

CONSTANTS
  Calls,         \* activities under way at a time
  Kinds,         \* which of AllKinds are begun
  Tunnels,       \* cloudflared processes
  Actions,       \* the repairs that Cloud asks for
  Environments,  \* what an observation finds beside the state below
  Window,        \* SIGNATURE_WINDOW_SECONDS
  MaxClock,      \* bound: the clock
  MaxSent,       \* bound: signatures in use at a time
  MaxRaces,      \* bound: activities begun beside another
  None

AllKinds == {"boot", "beat", "gateway", "tunnel", "refresh", "setup", "stop"}
Repairs == {"gateway", "tunnel", "refresh"}
Keys == {"device", "tunnel"}

(* What an observation reads from the host and from Proton Bridge. *)
EnvironmentFields ==
  [cloud : {"unconfigured", "unreachable", "reachable"},
   secrets : [secure : BOOLEAN, permissionsOk : BOOLEAN],
   accounts : {"none", "all", "some", "unreachable"},
   binary : BOOLEAN, version : Versions, imap : BOOLEAN,
   mailwarden : BOOLEAN, installed : BOOLEAN, edge : BOOLEAN]

ASSUME KindsOfActivity == Kinds \subseteq AllKinds
                          /\ Actions \subseteq Kinds \intersect Repairs
ASSUME HostBounds == {Window, MaxClock, MaxSent, MaxRaces} \subseteq Nat /\ Window > 0
ASSUME NoProcess == None \notin Tunnels
ASSUME EnvironmentsObserved == Environments \subseteq EnvironmentFields

VARIABLES
  up,        \* the daemon
  port,      \* who listens on the gateway's port
  handle,    \* BridgeCore.gateway is set
  failed,    \* BridgeCore.gatewayError is set
  child,     \* TunnelManager.child
  live,      \* cloudflared processes that run
  strays,    \* those of them that no daemon's TunnelManager has started
  unit,      \* a cloudflared service of the host's is active
  file,      \* the secret store: the identity record and the tunnel credential
  managed,   \* config.tunnel.managed
  trusted,   \* Cloud still honours the identity in the file
  clock,
  sent,      \* signatures Cloud has made under the stored gateway secret
  seen,      \* the running gateway's replay cache
  calls,     \* the activities
  raced,     \* history: activities begun beside another
  told,      \* history: the value last stored under each key
  taken,     \* history: signatures this gateway has accepted
  twice,     \* history: whether it has accepted one twice
  dark       \* history: a heartbeat has stopped the relay, and nothing was begun since

gatewayVars == <<port, handle, failed>>
tunnelVars == <<child, live, strays>>
fileVars == <<file, managed, trusted, told>>
signVars == <<clock, sent, seen, taken, twice>>
hostVars == <<up, gatewayVars, tunnelVars, unit, fileVars, signVars, calls, raced, dark>>

-----------------------------------------------------------------------------
File == [device : {"none", "held", "revoked"}, tunnel : BOOLEAN]
Empty == [device |-> "none", tunnel |-> FALSE]
Signatures == [action : Actions, at : 0..MaxClock]

IdleCall == [kind |-> "idle", pc |-> "idle", file |-> None, key |-> None, value |-> None,
             next |-> None, child |-> None]

HostInit ==
  /\ up = "down" /\ port = "nobody" /\ handle = FALSE /\ failed = FALSE
  /\ child = None /\ live = {} /\ strays = {} /\ unit = FALSE
  /\ file = Empty /\ told = Empty /\ managed = FALSE /\ trusted = FALSE
  /\ clock = 0 /\ sent = {} /\ seen = {} /\ taken = {} /\ twice = FALSE
  /\ calls = [c \in Calls |-> IdleCall]
  /\ raced = 0 /\ dark = FALSE

At(c, pc) == calls[c].pc = pc
Goto(c, pc) == calls' = [calls EXCEPT ![c] = IF pc = "end" THEN IdleCall ELSE [@ EXCEPT !.pc = pc]]
Quiet == \A c \in Calls : At(c, "idle")
CountRace == IF Quiet THEN UNCHANGED raced ELSE raced < MaxRaces /\ raced' = raced + 1
Running(kind) == \E c \in Calls : calls[c].kind = kind

Begin(c, kind, pc) ==
  /\ kind \in Kinds
  /\ At(c, "idle")
  /\ calls' = [calls EXCEPT ![c] = [IdleCall EXCEPT !.kind = kind, !.pc = pc]]
  /\ CountRace
  /\ dark' = (dark /\ kind \in {"beat", "stop"})

-----------------------------------------------------------------------------
(* The activities.  startDaemon serves before anything else can call it;   *)
(* the loop has one heartbeat at a time; the local API repairs and sets    *)
(* up; the CLI sets up where no daemon runs.                               *)
FirstStep == [gateway |-> "stopGateway", tunnel |-> "credential", refresh |-> "load"]

BeginBoot(c) ==
  /\ up = "down"
  /\ Begin(c, "boot", "startGateway")
  /\ up' = "starting"
  /\ UNCHANGED <<gatewayVars, tunnelVars, unit, fileVars, signVars>>

BeginBeat(c) ==
  /\ up = "up" /\ ~Running("beat")
  /\ Begin(c, "beat", "load")
  /\ UNCHANGED <<up, gatewayVars, tunnelVars, unit, fileVars, signVars>>

BeginRepair(c, kind) ==
  /\ up = "up"
  /\ Begin(c, kind, FirstStep[kind])
  /\ UNCHANGED <<up, gatewayVars, tunnelVars, unit, fileVars, signVars>>

(* While a setup waits for its human another is refused, but not before    *)
(* Cloud has answered with the code to show.                               *)
BeginSetup(c) ==
  /\ up \in {"up", "down"}
  /\ \A o \in Calls : ~At(o, "authorized")
  /\ Begin(c, "setup", "prompt")
  /\ UNCHANGED <<up, gatewayVars, tunnelVars, unit, fileVars, signVars>>

BeginStop(c) ==
  /\ up = "up"
  /\ Begin(c, "stop", "stopGateway")
  /\ up' = "stopping"
  /\ UNCHANGED <<gatewayVars, tunnelVars, unit, fileVars, signVars>>

-----------------------------------------------------------------------------
(* The gateway *)
AfterGatewayStop(kind) == IF kind = "gateway" THEN "startGateway" ELSE "stopTunnel"
AfterGatewayStart(kind) == IF kind = "boot" THEN "credential" ELSE "end"

(* stopGateway: the server stops listening at once and drops what it       *)
(* serves, and when it has stopped all who wait for it go on.              *)
StopGateway(c) ==
  /\ At(c, "stopGateway")
  /\ Goto(c, IF handle THEN "gatewayStopping" ELSE AfterGatewayStop(calls[c].kind))
  /\ port' = IF handle /\ port = "ours" THEN "nobody" ELSE port
  /\ UNCHANGED <<up, handle, failed, tunnelVars, unit, fileVars, signVars, raced, dark>>

GatewayStopped ==
  /\ \E c \in Calls : At(c, "gatewayStopping")
  /\ handle' = FALSE
  /\ seen' = {} /\ taken' = {}
  /\ calls' = [c \in Calls |-> IF At(c, "gatewayStopping")
                               THEN [calls[c] EXCEPT !.pc = AfterGatewayStop(calls[c].kind)]
                               ELSE calls[c]]
  /\ UNCHANGED <<up, port, failed, tunnelVars, unit, fileVars, clock, sent, twice, raced, dark>>

(* startGateway: the one that runs, or a new one if the port is free.  The *)
(* daemon goes on without.                                                 *)
StartGateway(c) ==
  /\ At(c, "startGateway")
  /\ IF handle THEN UNCHANGED gatewayVars
     ELSE IF port = "nobody" THEN port' = "ours" /\ handle' = TRUE /\ failed' = FALSE
     ELSE failed' = TRUE /\ UNCHANGED <<port, handle>>
  /\ Goto(c, AfterGatewayStart(calls[c].kind))
  /\ UNCHANGED <<up, tunnelVars, unit, fileVars, signVars, raced, dark>>

-----------------------------------------------------------------------------
(* The tunnel *)
AfterTunnelStop == [tunnel |-> "startTunnel", beat |-> "end", stop |-> "exit"]
AfterTunnelStart(kind) == IF kind = "boot" THEN "booted" ELSE "end"

(* startTunnel and restart_tunnel take the stored credential as it is. *)
ReadCredential(c) ==
  LET boot == calls[c].kind = "boot" IN
  /\ At(c, "credential")
  /\ Goto(c, IF file.tunnel /\ (boot => managed)
             THEN IF boot THEN "startTunnel" ELSE "stopTunnel"
             ELSE AfterTunnelStart(calls[c].kind))
  /\ UNCHANGED <<up, gatewayVars, tunnelVars, unit, fileVars, signVars, raced, dark>>

(* TunnelManager.stop: the child is killed and its end awaited.            *)
StopTunnelForgotten(c) ==                    \* the child is forgotten, not killed
  /\ At(c, "stopTunnel")
  /\ Goto(c, AfterTunnelStop[calls[c].kind])
  /\ child' = None
  /\ dark' = (dark \/ calls[c].kind = "beat")
  /\ UNCHANGED <<up, gatewayVars, live, strays, unit, fileVars, signVars, raced>>
StopTunnel(c) ==
  /\ At(c, "stopTunnel")
  /\ IF child = None
     THEN Goto(c, AfterTunnelStop[calls[c].kind]) /\ dark' = (dark \/ calls[c].kind = "beat")
     ELSE /\ calls' = [calls EXCEPT ![c].pc = "tunnelStopping", ![c].child = child]
          /\ UNCHANGED dark
  /\ UNCHANGED <<up, gatewayVars, tunnelVars, unit, fileVars, signVars, raced>>

(* A process ends, killed or by itself.  Its handler clears the manager's  *)
(* child, whichever that is by now.                                        *)
TunnelExits(t) ==
  LET waits(c) == At(c, "tunnelStopping") /\ calls[c].child = t
      ends(c)  == waits(c) /\ calls[c].kind = "beat"
  IN
  /\ t \in live
  /\ live' = live \ {t} /\ strays' = strays \ {t}
  /\ child' = IF t \in strays THEN child ELSE None
  /\ calls' = [c \in Calls |->
       IF ends(c) THEN IdleCall
       ELSE IF waits(c) THEN [calls[c] EXCEPT !.pc = AfterTunnelStop[calls[c].kind], !.child = None]
       ELSE calls[c]]
  /\ dark' = (dark \/ \E c \in Calls : ends(c))
  /\ UNCHANGED <<up, gatewayVars, unit, fileVars, signVars, raced>>

(* TunnelManager.start looks at the child, then for the binary and for the *)
(* host's own service, and only then spawns.                               *)
StartTunnel(c) ==
  /\ At(c, "startTunnel")
  /\ Goto(c, IF child # None THEN AfterTunnelStart(calls[c].kind) ELSE "spawn")
  /\ UNCHANGED <<up, gatewayVars, tunnelVars, unit, fileVars, signVars, raced, dark>>

Unused == Tunnels \ (live \union {child} \union {calls[c].child : c \in Calls})
SpawnTunnel(c) ==
  /\ At(c, "spawn")
  /\ \/ ~unit /\ \E t \in Unused : child' = t /\ live' = live \union {t}
     \/ UNCHANGED <<child, live>>            \* the service runs, or cloudflared is missing
  /\ Goto(c, AfterTunnelStart(calls[c].kind))
  /\ UNCHANGED <<up, gatewayVars, strays, unit, fileVars, signVars, raced, dark>>

(* The CLI repairs in a process of its own where no daemon runs, or where  *)
(* the daemon's answer does not come within five seconds.                  *)
CliRestartsTunnel ==
  /\ up = "down" \/ Running("tunnel")
  /\ file.tunnel /\ ~unit
  /\ \E t \in Unused : live' = live \union {t} /\ strays' = strays \union {t}
  /\ dark' = FALSE
  /\ UNCHANGED <<up, gatewayVars, child, unit, fileVars, signVars, calls, raced>>

-----------------------------------------------------------------------------
(* FileSecretStore: set reads the whole file and writes it with one key    *)
(* changed.                                                                *)
Store(c, key, value, next) ==
  calls' = [calls EXCEPT ![c].pc = "read", ![c].key = key, ![c].value = value, ![c].next = next]

ReadFile(c) ==
  /\ At(c, "read")
  /\ calls' = [calls EXCEPT ![c].file = file, ![c].pc = "write"]
  /\ UNCHANGED <<up, gatewayVars, tunnelVars, unit, fileVars, signVars, raced, dark>>

WrittenAlone(read, key, value) == [Empty EXCEPT ![key] = value]   \* the other key is lost
Written(read, key, value) == [read EXCEPT ![key] = value]

(* A new identity comes with a new gateway secret, under which none of the *)
(* signatures made or seen before is ever met again; a tunnel credential   *)
(* makes the tunnel a managed one.                                         *)
WriteFile(c) ==
  LET call == calls[c] IN
  /\ At(c, "write")
  /\ file' = Written(call.file, call.key, call.value)
  /\ told' = [told EXCEPT ![call.key] = call.value]
  /\ managed' = (managed \/ call.key = "tunnel")
  /\ trusted' = (trusted \/ (call.kind = "setup" /\ call.key = "device"))
  /\ IF call.key = "device" THEN sent' = {} /\ seen' = {} /\ taken' = {}
                             ELSE UNCHANGED <<sent, seen, taken>>
  /\ calls' = [calls EXCEPT ![c] = IF call.next = "end" THEN IdleCall
                                   ELSE [IdleCall EXCEPT !.kind = call.kind, !.pc = call.next]]
  /\ UNCHANGED <<up, gatewayVars, tunnelVars, unit, clock, twice, raced, dark>>

(* heartbeatOnce and refresh_registration load the identity and renew it   *)
(* when it is due; a rejected renewal erases it and throws.                *)
AfterRenewal == [beat |-> "answer", refresh |-> "fetch"]
LoadIdentity(c) ==
  LET next == AfterRenewal[calls[c].kind] IN
  /\ At(c, "load")
  /\ IF file.device # "held" THEN Goto(c, "end")
     ELSE \/ Goto(c, next)
          \/ IF trusted THEN Store(c, "device", "held", next)
                        ELSE Store(c, "device", "revoked", "end")
  /\ UNCHANGED <<up, gatewayVars, tunnelVars, unit, fileVars, signVars, raced, dark>>

AnsweredTunnelOnly(c) ==                     \* the gateway is left to serve
  /\ At(c, "answer")
  /\ IF trusted THEN Goto(c, "end") ELSE Store(c, "device", "revoked", "stopTunnel")
  /\ UNCHANGED <<up, gatewayVars, tunnelVars, unit, fileVars, signVars, raced, dark>>
Answered(c) ==
  /\ At(c, "answer")
  /\ IF trusted THEN Goto(c, "end") ELSE Store(c, "device", "revoked", "stopGateway")
  /\ UNCHANGED <<up, gatewayVars, tunnelVars, unit, fileVars, signVars, raced, dark>>

(* Setup: a code to show, its human's consent, the identity, and the       *)
(* tunnel credential, without which it is complete too: Cloud may not      *)
(* manage tunnels, refuse this one or not answer.                          *)
Prompt(c) ==
  /\ At(c, "prompt")
  /\ Goto(c, "authorized")
  /\ UNCHANGED <<up, gatewayVars, tunnelVars, unit, fileVars, signVars, raced, dark>>
Authorized(c) ==
  /\ At(c, "authorized")
  /\ Store(c, "device", "held", "fetch")
  /\ UNCHANGED <<up, gatewayVars, tunnelVars, unit, fileVars, signVars, raced, dark>>
fetchTunnelCredential == IF trusted THEN {"credential", "none"} ELSE {"none"}
FetchCredential(c) ==
  /\ At(c, "fetch")
  /\ \E answer \in fetchTunnelCredential :
       IF answer = "credential" THEN Store(c, "tunnel", TRUE, "end") ELSE Goto(c, "end")
  /\ UNCHANGED <<up, gatewayVars, tunnelVars, unit, fileVars, signVars, raced, dark>>

(* Cloud does not answer, or the file cannot be written: the call throws.  *)
Throws(c) ==
  /\ \E pc \in {"answer", "prompt", "authorized", "read", "write"} : At(c, pc)
  /\ Goto(c, "end")
  /\ UNCHANGED <<up, gatewayVars, tunnelVars, unit, fileVars, signVars, raced, dark>>

-----------------------------------------------------------------------------
Booted(c) ==
  /\ At(c, "booted")
  /\ up' = "up"
  /\ Goto(c, "end")
  /\ UNCHANGED <<gatewayVars, tunnelVars, unit, fileVars, signVars, raced, dark>>

(* The process exits: its calls end, the port is free, and a process it    *)
(* has spawned meanwhile stays.                                            *)
Exit(c) ==
  /\ At(c, "exit")
  /\ up' = "down"
  /\ port' = IF port = "ours" THEN "nobody" ELSE port
  /\ handle' = FALSE /\ failed' = FALSE
  /\ child' = None /\ strays' = live /\ UNCHANGED live
  /\ seen' = {} /\ taken' = {}
  /\ calls' = [o \in Calls |-> IdleCall]
  /\ UNCHANGED <<unit, fileVars, clock, sent, twice, raced, dark>>

-----------------------------------------------------------------------------
(* The host, and Cloud. *)
PortTaken == /\ port = "nobody" /\ port' = "other"
             /\ UNCHANGED <<up, handle, failed, tunnelVars, unit, fileVars, signVars, calls, raced, dark>>
PortLeft == /\ port = "other" /\ port' = "nobody"
            /\ UNCHANGED <<up, handle, failed, tunnelVars, unit, fileVars, signVars, calls, raced, dark>>
UnitToggles == /\ unit' = ~unit
               /\ UNCHANGED <<up, gatewayVars, tunnelVars, fileVars, signVars, calls, raced, dark>>
Revoke == /\ trusted /\ trusted' = FALSE
          /\ UNCHANGED <<up, gatewayVars, tunnelVars, unit, file, managed, told, signVars, calls,
                         raced, dark>>
Tick == /\ clock < MaxClock /\ clock' = clock + 1
        /\ UNCHANGED <<up, gatewayVars, tunnelVars, unit, fileVars, sent, seen, taken, twice,
                       calls, raced, dark>>

(* BridgeControlService signs the action and the second, and no nonce, for *)
(* a device that is not revoked.                                           *)
Sign(action) ==
  /\ trusted /\ file.device = "held"
  /\ Cardinality(sent) < MaxSent
  /\ sent' = sent \union {[action |-> action, at |-> clock]}
  /\ UNCHANGED <<up, gatewayVars, tunnelVars, unit, fileVars, clock, seen, taken, twice, calls,
                 raced, dark>>

(* verifyGatewayRequest: the secret, the window and the replay cache, whose*)
(* entries outlive the window.                                             *)
ExpiryTooSoon(now) == now + Window
Expiry(now) == now + 2 * Window

InWindow(sig) == clock - sig.at <= Window
Remembered == {e \in seen : e.expiry > clock}
verifyGatewayRequest(sig) ==
  /\ file.device = "held"
  /\ sig \in sent /\ InWindow(sig)
  /\ \A e \in Remembered : e.sig # sig

(* The routes of the control plane: one for diagnostics only reads, and a  *)
(* repair asks for a signature, where other requests may bear the secret.  *)
RepairRoute(c, action) == Begin(c, action, FirstStep[action])

(* What the gateway does with each request before its route; how many a    *)
(* minute and how large they may be only refuses.  The network delivers a  *)
(* request any number of times.                                            *)
Accept(c, sig) ==
  /\ port = "ours"
  /\ verifyGatewayRequest(sig)
  /\ seen' = Remembered \union {[sig |-> sig, expiry |-> Expiry(clock)]}
  /\ taken' = taken \union {sig}
  /\ twice' = (twice \/ sig \in taken)
  /\ RepairRoute(c, sig.action)
  /\ UNCHANGED <<up, gatewayVars, tunnelVars, unit, fileVars, clock, sent>>

(* An admin of the organization asks for one of the repairs there are.     *)
RepairForm == \E action \in Actions : Sign(action)

HostNext ==
  \/ \E c \in Calls :
       \/ BeginBoot(c) \/ BeginBeat(c) \/ BeginSetup(c) \/ BeginStop(c)
       \/ \E kind \in Repairs : BeginRepair(c, kind)
       \/ StopGateway(c) \/ StartGateway(c)
       \/ ReadCredential(c) \/ StopTunnel(c) \/ StartTunnel(c) \/ SpawnTunnel(c)
       \/ ReadFile(c) \/ WriteFile(c) \/ LoadIdentity(c) \/ Answered(c)
       \/ Prompt(c) \/ Authorized(c) \/ FetchCredential(c) \/ Throws(c)
       \/ Booted(c) \/ Exit(c)
       \/ \E sig \in Signatures : Accept(c, sig)
  \/ GatewayStopped \/ CliRestartsTunnel
  \/ \E t \in Tunnels : TunnelExits(t)
  \/ RepairForm
  \/ PortTaken \/ PortLeft \/ UnitToggles \/ Revoke \/ Tick

HostSpec == HostInit /\ [][HostNext]_hostVars

-----------------------------------------------------------------------------
(* observe, with env for what is not modelled; what is observed of the     *)
(* gateway is probeGateway, of the tunnel TunnelManager.status.            *)
ProbeByHandle(env) == [listening |-> handle, portConflict |-> FALSE]
probeGateway(env) ==
  LET found(listening, conflict) == [listening |-> listening, portConflict |-> conflict] IN
  IF handle THEN found(TRUE, FALSE)
  ELSE IF port = "nobody" THEN found(FALSE, FALSE)
  ELSE IF failed THEN found(FALSE, TRUE)
  ELSE found(env.mailwarden, ~env.mailwarden)
TunnelStatus(env) ==
  LET ready == env.installed /\ env.edge /\ (live # {} \/ unit) IN
  [managed |-> managed, installed |-> env.installed, credentialPresent |-> file.tunnel,
   running |-> env.installed /\ (child # None \/ unit \/ ready), ready |-> ready]
Observed(env) ==
  [identity |-> CASE file.device = "held"    -> "registered"
                  [] file.device = "revoked" -> "revoked"
                  [] OTHER                   -> "none",
   cloud |-> env.cloud, secrets |-> env.secrets, accounts |-> env.accounts,
   proton |-> DiscoverProton(env.binary, env.version, env.imap),
   gateway |-> probeGateway(env), tunnel |-> TunnelStatus(env)]

-----------------------------------------------------------------------------
(* What is observed is an observation, and what the host holds is of its   *)
(* types.                                                                  *)
HostTypeOK ==
  /\ up \in {"down", "starting", "up", "stopping"} /\ port \in {"nobody", "ours", "other"}
  /\ file \in File /\ told \in File
  /\ child \in Tunnels \union {None} /\ strays \subseteq live /\ live \subseteq Tunnels
  /\ sent \subseteq Signatures /\ taken \subseteq sent \union Signatures
  /\ \A env \in Environments : Observed(env) \in Observations

(* Doctor names the broken edge in every state the host can be in.         *)
BrokenIsExplained == \A env \in Environments : Explained(Observed(env))

(* Its advice works: where it advises restart_gateway the port is free to  *)
(* bind, where it blames another process one holds the port, and where it  *)
(* advises restart_tunnel there is a credential and a binary to do it with.*)
AdviceWorks ==
  \A env \in Environments :
    LET o       == Observed(env)
        gateway == GatewayDiagnosis(o.gateway).id
    IN
    /\ gateway = "gateway.down" => port = "nobody"
    /\ gateway = "gateway.port_conflict" => port = "other"
    /\ TunnelDiagnosis(o.tunnel).id = "tunnel.not_ready" => file.tunnel /\ env.installed

(* A gateway accepts a signature at most once in its life, however often   *)
(* and late it is delivered.                                               *)
AcceptedOnce == ~twice

(* As long as activities come one at a time there is one cloudflared       *)
(* process of the daemon's, the one it can stop, and none when it is down. *)
OneTunnelWhenAlone == raced = 0 => live \ strays \subseteq {child} /\ (up = "down" => child = None)

(* As long as activities come one at a time, once a heartbeat has heard    *)
(* that the device is revoked nothing serves and no tunnel of the daemon's *)
(* runs until someone repairs, sets up or restarts.                        *)
StaysDark == raced = 0 /\ dark => port # "ours" /\ live \subseteq strays

(* As long as activities come one at a time the secret store holds what    *)
(* was last stored under each key.                                         *)
SecretsWhenAlone == raced = 0 => file = told

(* docs/operations/RELAY_OPERATIONS.md:53: a device whose identity was     *)
(* erased stops serving.                                                   *)
ErasedIsDark == Quiet /\ raced = 0 /\ file.device = "revoked" => port # "ours"
=============================================================================
