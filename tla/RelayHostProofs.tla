--------------------------- MODULE RelayHostProofs ---------------------------
(***************************************************************************)
(* Proofs about RelayHost, for any number of activities, processes and     *)
(* environments, any window and any time; and about BridgeHealth, for      *)
(* whatever may be observed.                                               *)
(***************************************************************************)
EXTENDS RelayHost, TLAPS

Pcs == {"idle", "startGateway", "stopGateway", "gatewayStopping", "credential", "startTunnel",
        "spawn", "stopTunnel", "tunnelStopping", "load", "read", "write", "answer", "fetch",
        "prompt", "authorized", "booted", "exit"}
Values == {"held", "revoked", TRUE}
Nexts == {"end", "answer", "stopGateway", "fetch"}
HostCall == [kind : AllKinds \union {"idle"}, pc : Pcs, file : File \union {None},
             key : Keys \union {None}, value : Values \union {None},
             next : Nexts \union {None}, child : Tunnels \union {None}]

(* Which activity is at which of its steps, and what it has in hand there. *)
InPlace(call) ==
  /\ call.pc \in Pcs
  /\ call.pc = "idle" <=> call.kind = "idle"
  /\ call.pc = "startGateway" => call.kind \in {"boot", "gateway"}
  /\ call.pc \in {"stopGateway", "gatewayStopping"} => call.kind \in {"gateway", "beat", "stop"}
  /\ call.pc \in {"credential", "startTunnel", "spawn"} => call.kind \in {"boot", "tunnel"}
  /\ call.pc \in {"stopTunnel", "tunnelStopping"} => call.kind \in {"tunnel", "beat", "stop"}
  /\ call.pc = "load" => call.kind \in {"beat", "refresh"}
  /\ call.pc = "answer" => call.kind = "beat"
  /\ call.pc = "fetch" => call.kind \in {"refresh", "setup"}
  /\ call.pc \in {"prompt", "authorized"} => call.kind = "setup"
  /\ call.pc = "booted" => call.kind = "boot"
  /\ call.pc = "exit" => call.kind = "stop"
(* A value is stored under its own key, and then the activity goes on.     *)
Storing(call) ==
  call.pc \in {"read", "write"} =>
    /\ \/ call.key = "device" /\ call.value \in {"held", "revoked"}
       \/ call.key = "tunnel" /\ call.value = TRUE
    /\ \/ call.kind = "beat" /\ call.next \in {"answer", "stopGateway", "end"}
       \/ call.kind \in {"refresh", "setup"} /\ call.next \in {"fetch", "end"}
    /\ call.pc = "write" => call.file \in File
(* What it waits for is under way, and only a setup goes on without the    *)
(* daemon.                                                                 *)
Awaits(call) ==
  /\ call.pc = "tunnelStopping" => call.child \in live \ strays
  /\ call.pc = "gatewayStopping" => handle /\ port # "ours"
  /\ up = "down" => call.kind \in {"idle", "setup"}
InStep(call) == InPlace(call) /\ Storing(call) /\ Awaits(call)

(* The port is the gateway's as long as the core has its handle, and the   *)
(* manager's child is a process that runs, of this daemon's.               *)
Handled ==
  /\ up \in {"down", "starting", "up", "stopping"} /\ port \in {"nobody", "ours", "other"}
  /\ handle \in BOOLEAN
  /\ child \in Tunnels \union {None} /\ strays \subseteq live /\ live \subseteq Tunnels
  /\ port = "ours" => handle
  /\ handle => up # "down"
  /\ child # None => child \in live \ strays
  /\ up = "down" => child = None
Filed == file \in File /\ told \in File /\ managed \in BOOLEAN

(* A signature that was accepted is in the replay cache until it is out of *)
(* the window.                                                             *)
Sealed(sig) ==
  \/ clock >= sig.at + 2 * Window
  \/ \E e \in seen : e.sig = sig /\ e.expiry >= sig.at + 2 * Window
Signed ==
  /\ clock \in 0..MaxClock /\ sent \subseteq Signatures /\ taken \subseteq Signatures
  /\ seen \subseteq [sig : Signatures, expiry : Nat]
  /\ \A sig \in sent : sig.at <= clock
  /\ \A sig \in taken : Sealed(sig)
  /\ ~twice

HostInv ==
  /\ Handled /\ Filed /\ Signed /\ raced \in Nat
  /\ calls \in [Calls -> HostCall] /\ \A c \in Calls : InStep(calls[c])

(* While activities come one at a time: the child is the one process of    *)
(* the daemon's, nobody looks for it while another starts one, whoever     *)
(* makes the relay dark finds nothing begun since, and the file is as it   *)
(* was when it was read to be written.                                     *)
CallAlone(call) ==
  /\ call.pc = "spawn" => child = None
  /\ call.kind = "beat" /\ call.pc \in {"stopTunnel", "tunnelStopping"} => port # "ours"
  /\ dark => call.kind \in {"idle", "beat", "stop"}
  /\ call.pc = "write" => call.file = file
Shared ==
  /\ live \ strays \subseteq {child} /\ (dark => port # "ours" /\ live \subseteq strays)
  /\ file = told
OneCall == \A c, o \in Calls : c # o => At(c, "idle") \/ At(o, "idle")
AloneInv == raced = 0 => OneCall /\ Shared /\ \A c \in Calls : CallAlone(calls[c])
Inv == HostInv /\ AloneInv

-----------------------------------------------------------------------------
(* BridgeHealth: whatever is observed, what the health shows as broken has *)
(* a failing diagnostic.                                                   *)
PartExplained(o, part) ==
  buildComponentHealth(o)[part] \in {"down", "degraded", "needs_attention"} =>
    buildDiagnostics(o)[part] # Passes

LEMMA PartsExplained ==
  ASSUME NEW o \in Observations
  PROVE  \A part \in {"deviceIdentity", "cloud", "gateway", "protonBridge", "tunnel"} :
           PartExplained(o, part)
<1>1. PartExplained(o, "deviceIdentity")
  BY DEF Observations, PartExplained, buildComponentHealth, buildDiagnostics,
         IdentityDiagnosis, Fails, Passes
<1>2. PartExplained(o, "cloud")
  BY DEF Observations, PartExplained, buildComponentHealth, buildDiagnostics,
         CloudDiagnosis, Fails, Passes
<1>3. PartExplained(o, "gateway")
  BY DEF Observations, PartExplained, buildComponentHealth, buildDiagnostics,
         GatewayDiagnosis, Fails, Passes
<1>4. PartExplained(o, "protonBridge")
  BY DEF Observations, PartExplained, buildComponentHealth, buildDiagnostics,
         ProtonDiagnosis, Fails, Passes
<1>5. PartExplained(o, "tunnel")
  <2>1. PICK t \in [managed : BOOLEAN, installed : BOOLEAN, credentialPresent : BOOLEAN,
                    running : BOOLEAN, ready : BOOLEAN] : t = o.tunnel
    BY DEF Observations
  <2>2. buildComponentHealth(o).tunnel = TunnelHealth(t)
        /\ buildDiagnostics(o).tunnel = TunnelDiagnosis(t)
    BY <2>1 DEF buildComponentHealth, buildDiagnostics
  <2>3. TunnelHealth(t) \in {"down", "degraded", "needs_attention"} => t.managed /\ (~t.installed \/ ~t.ready)
    BY <2>1 DEF TunnelHealth
  <2>4. t.managed /\ (~t.installed \/ ~t.ready) => TunnelDiagnosis(t).id # "none"
    BY <2>1 DEF TunnelDiagnosis, Fails
  <2>5. Passes.id = "none"
    BY DEF Passes, Fails
  <2> QED  BY <2>2, <2>3, <2>4, <2>5 DEF PartExplained
<1> QED  BY <1>1, <1>2, <1>3, <1>4, <1>5

(* Diagnosed as failing with an error.                                     *)
Err(o, part) == buildDiagnostics(o)[part].severity = "error"
LEMMA BrokenIsAnError ==
  ASSUME NEW o \in Observations,
         buildHealth(o) \in {"offline", "provisioning"} \/ o.identity = "revoked"
  PROVE  Err(o, "deviceIdentity") \/ Err(o, "gateway") \/ Err(o, "tunnel")
<1>1. CASE o.identity \in {"none", "revoked"}
  BY <1>1 DEF Observations, Err, buildDiagnostics, IdentityDiagnosis, Fails, Passes
<1>2. CASE o.identity = "registered"
  <2>1. buildComponentHealth(o).deviceIdentity = "ok"
    BY <1>2 DEF buildComponentHealth
  <2>2. \/ buildComponentHealth(o).gateway = "down"
        \/ buildComponentHealth(o).tunnel = "down"
    BY <1>2, <2>1 DEF buildHealth, aggregateRelayStatus
  <2>3. ASSUME buildComponentHealth(o).gateway = "down"
        PROVE  Err(o, "gateway")
    BY <2>3 DEF Observations, Err, buildComponentHealth, buildDiagnostics, GatewayDiagnosis,
                Fails, Passes
  <2>4. ASSUME buildComponentHealth(o).tunnel = "down"
        PROVE  Err(o, "tunnel")
    BY <2>4 DEF Observations, Err, buildComponentHealth, buildDiagnostics, TunnelHealth,
                TunnelDiagnosis, Fails, Passes
  <2> QED  BY <2>2, <2>3, <2>4
<1> QED  BY <1>1, <1>2 DEF Observations

LEMMA ErrorIsUnhealthy ==
  ASSUME NEW o, NEW part \in {"deviceIdentity", "gateway", "tunnel"}, Err(o, part)
  PROVE  Overall(buildDiagnostics(o)) = "unhealthy"
<1>1. part \in DOMAIN buildDiagnostics(o)
  BY DEF buildDiagnostics
<1>2. "error" \in {buildDiagnostics(o)[p].severity : p \in DOMAIN buildDiagnostics(o)}
  BY <1>1 DEF Err
<1>3. PICK severities : severities = {buildDiagnostics(o)[p].severity : p \in DOMAIN buildDiagnostics(o)}
  OBVIOUS
<1>4. "error" \in severities
  BY <1>2, <1>3
<1> QED  BY <1>3, <1>4 DEF Overall

(* Doctor explains every observation there can be.                         *)
THEOREM DoctorExplains == \A o \in Observations : Explained(o)
<1> SUFFICES ASSUME NEW o \in Observations  PROVE Explained(o)
  OBVIOUS
<1>1. DOMAIN buildComponentHealth(o) \ {"accounts"}
        \subseteq {"deviceIdentity", "cloud", "gateway", "protonBridge", "tunnel"}
  BY DEF buildComponentHealth
<1>2. \A part \in DOMAIN buildComponentHealth(o) \ {"accounts"} : PartExplained(o, part)
  BY <1>1, PartsExplained
<1>3. buildHealth(o) \in {"offline", "provisioning"} \/ o.identity = "revoked"
        => Overall(buildDiagnostics(o)) = "unhealthy"
  BY BrokenIsAnError, ErrorIsUnhealthy
<1> QED  BY <1>2, <1>3 DEF Explained, PartExplained

LEMMA Discovered ==
  \A binary, answering \in BOOLEAN, version \in Versions :
    DiscoverProton(binary, version, answering)
      \in {"running", "not_installed", "unsupported_version", "unknown", "stopped"}
BY DEF DiscoverProton, Versions

LEMMA ObservedParts ==
  ASSUME Handled, Filed, NEW env \in EnvironmentFields
  PROVE  /\ probeGateway(env) \in [listening : BOOLEAN, portConflict : BOOLEAN]
         /\ TunnelStatus(env) \in [managed : BOOLEAN, installed : BOOLEAN, credentialPresent : BOOLEAN,
                                  running : BOOLEAN, ready : BOOLEAN]
<1>1. probeGateway(env) \in [listening : BOOLEAN, portConflict : BOOLEAN]
  BY DEF probeGateway, EnvironmentFields, Handled
<1>2. TunnelStatus(env) \in [managed : BOOLEAN, installed : BOOLEAN, credentialPresent : BOOLEAN,
                             running : BOOLEAN, ready : BOOLEAN]
  <2>1. /\ env.installed \in BOOLEAN /\ managed \in BOOLEAN /\ file.tunnel \in BOOLEAN
    BY DEF EnvironmentFields, Filed, File
  <2> QED  BY <2>1 DEF TunnelStatus
<1> QED  BY <1>1, <1>2

(* What the host observes of itself is an observation.                     *)
LEMMA ObservedIsTyped ==
  ASSUME Handled, Filed, NEW env \in EnvironmentFields
  PROVE  Observed(env) \in Observations
<1>3. DiscoverProton(env.binary, env.version, env.imap)
        \in {"running", "not_installed", "unsupported_version", "unknown", "stopped"}
  BY Discovered DEF EnvironmentFields
<1>4. /\ env.cloud \in {"unconfigured", "unreachable", "reachable"}
      /\ env.secrets \in [secure : BOOLEAN, permissionsOk : BOOLEAN]
      /\ env.accounts \in {"none", "all", "some", "unreachable"}
  BY DEF EnvironmentFields
<1> QED  BY <1>3, <1>4, ObservedParts DEF Observed, Observations

(* Its advice works where the port is the gateway's only by its handle.    *)
LEMMA AdviceOf ==
  ASSUME Handled, Filed, NEW env \in EnvironmentFields
  PROVE  /\ GatewayDiagnosis(Observed(env).gateway).id = "gateway.down" => port = "nobody"
         /\ GatewayDiagnosis(Observed(env).gateway).id = "gateway.port_conflict" => port = "other"
         /\ TunnelDiagnosis(Observed(env).tunnel).id = "tunnel.not_ready"
              => file.tunnel /\ env.installed
<1>1. Observed(env).gateway = probeGateway(env) /\ Observed(env).tunnel = TunnelStatus(env)
  BY DEF Observed
<1>2. ASSUME NEW g \in [listening : BOOLEAN, portConflict : BOOLEAN],
             GatewayDiagnosis(g).id = "gateway.down"
      PROVE  ~g.listening /\ ~g.portConflict
  BY <1>2 DEF GatewayDiagnosis, Fails, Passes
<1>3. ASSUME NEW g \in [listening : BOOLEAN, portConflict : BOOLEAN],
             GatewayDiagnosis(g).id = "gateway.port_conflict"
      PROVE  g.portConflict
  BY <1>3 DEF GatewayDiagnosis, Fails, Passes
<1>4. /\ probeGateway(env).listening \/ probeGateway(env).portConflict \/ port = "nobody"
      /\ probeGateway(env).portConflict => port = "other"
  <2>1. env.mailwarden \in BOOLEAN
    BY DEF EnvironmentFields
  <2>2. CASE handle
    BY <2>1, <2>2 DEF probeGateway, Handled
  <2>3. CASE ~handle /\ port = "nobody"
    BY <2>1, <2>3 DEF probeGateway, Handled
  <2>4. CASE ~handle /\ port = "other" /\ failed
    BY <2>4 DEF probeGateway
  <2>5. CASE ~handle /\ port = "other" /\ ~failed
    BY <2>1, <2>5 DEF probeGateway
  <2> QED  BY <2>2, <2>3, <2>4, <2>5 DEF Handled
<1>5. ASSUME NEW t \in [managed : BOOLEAN, installed : BOOLEAN, credentialPresent : BOOLEAN,
                       running : BOOLEAN, ready : BOOLEAN],
             TunnelDiagnosis(t).id = "tunnel.not_ready"
      PROVE  t.credentialPresent /\ t.installed
  BY <1>5 DEF TunnelDiagnosis, Fails, Passes
<1>6. TunnelStatus(env).credentialPresent = file.tunnel /\ TunnelStatus(env).installed = env.installed
  BY DEF TunnelStatus
<1> QED  BY <1>1, <1>2, <1>3, <1>4, <1>5, <1>6, ObservedParts

-----------------------------------------------------------------------------
(* The records a step writes.                                              *)
Moves(c, new) == new \in HostCall /\ calls' = [calls EXCEPT ![c] = new]
SameCall(new, call) ==
  /\ new.kind = call.kind /\ new.file = call.file /\ new.key = call.key
  /\ new.value = call.value /\ new.next = call.next /\ new.child = call.child

LEMMA IdleFields ==
  /\ IdleCall \in HostCall /\ IdleCall.kind = "idle" /\ IdleCall.pc = "idle"
  /\ IdleCall.key = None /\ IdleCall.child = None /\ IdleCall.file = None
BY DEF IdleCall, HostCall, Pcs

LEMMA IdleInStep == InStep(IdleCall) /\ InStep(IdleCall)' /\ CallAlone(IdleCall) /\ CallAlone(IdleCall)'
BY IdleFields DEF InStep, InPlace, Storing, Awaits, CallAlone, Pcs, fileVars

LEMMA CallParts ==
  ASSUME Inv, NEW c \in Calls
  PROVE  /\ calls \in [Calls -> HostCall] /\ calls[c] \in HostCall /\ InStep(calls[c])
         /\ calls[c].kind \in AllKinds \union {"idle"} /\ calls[c].pc \in Pcs
         /\ Handled /\ Filed /\ Signed /\ raced \in Nat
         /\ raced = 0 => OneCall /\ Shared /\ CallAlone(calls[c])
BY DEF Inv, HostInv, AloneInv, HostCall

LEMMA GotoMoves ==
  ASSUME Inv, NEW c \in Calls, NEW pc \in Pcs \union {"end"}, Goto(c, pc)
  PROVE  \E new \in HostCall : /\ Moves(c, new)
                               /\ \/ pc = "end" /\ new = IdleCall
                                  \/ pc # "end" /\ new.pc = pc /\ SameCall(new, calls[c])
<1>1. CASE pc = "end"
  BY <1>1, IdleFields DEF Goto, Moves
<1>2. CASE pc # "end"
  <2>1. PICK call : call = calls[c]
    OBVIOUS
  <2> DEFINE new == [call EXCEPT !.pc = pc]
  <2>2. new \in HostCall /\ new.pc = pc /\ SameCall(new, call)
    BY <1>2, <2>1, CallParts DEF HostCall, SameCall
  <2>3. calls' = [calls EXCEPT ![c] = new]
    BY <1>2, <2>1 DEF Goto
  <2> HIDE DEF new
  <2> QED  BY <1>2, <2>1, <2>2, <2>3 DEF Moves
<1> QED  BY <1>1, <1>2

LEMMA StoreMoves ==
  ASSUME Inv, NEW c \in Calls, NEW key \in Keys, NEW value \in Values,
         NEW next \in Nexts, Store(c, key, value, next)
  PROVE  \E new \in HostCall : /\ Moves(c, new) /\ new.kind = calls[c].kind /\ new.pc = "read"
                               /\ new.key = key /\ new.value = value /\ new.next = next
<1>1. PICK call : call = calls[c]
  OBVIOUS
<1> DEFINE new == [call EXCEPT !.pc = "read", !.key = key, !.value = value, !.next = next]
<1>2. /\ new \in HostCall /\ new.kind = call.kind /\ new.pc = "read"
      /\ new.key = key /\ new.value = value /\ new.next = next
  BY <1>1, CallParts DEF HostCall, Pcs
<1>3. calls' = [calls EXCEPT ![c] = new]
  BY <1>1, CallParts DEF Store, HostCall
<1> HIDE DEF new
<1> QED  BY <1>1, <1>2, <1>3 DEF Moves

LEMMA MovesFields ==
  ASSUME Inv, NEW c \in Calls, NEW new, Moves(c, new)
  PROVE  /\ calls' \in [Calls -> HostCall] /\ calls'[c] = new
         /\ \A o \in Calls : o # c => calls'[o] = calls[o]
BY DEF Moves, Inv, HostInv

-----------------------------------------------------------------------------
(* A step of one activity keeps the invariant when what others wait for    *)
(* stays under way.                                                        *)
OthersWait ==
  /\ live \ strays \subseteq live' \ strays'
  /\ handle /\ port # "ours" => handle' /\ port' # "ours"
  /\ up' = "down" => up = "down"

LEMMA StepKeeps ==
  ASSUME Inv, NEW c \in Calls, NEW new, Moves(c, new), Handled', Filed', Signed', OthersWait,
         InStep(new)', raced' = raced, ~At(c, "idle"),
         raced = 0 => Shared' /\ CallAlone(new)'
  PROVE  Inv'
<1>1. /\ calls' \in [Calls -> HostCall] /\ calls'[c] = new
      /\ \A o \in Calls : o # c => calls'[o] = calls[o]
  BY MovesFields
<1>2. ASSUME NEW o \in Calls, o # c  PROVE InStep(calls[o])'
  BY <1>1, <1>2, CallParts DEF InStep, InPlace, Storing, Awaits, OthersWait
<1>3. HostInv'
  BY <1>1, <1>2, CallParts DEF HostInv
<1>4. ASSUME raced = 0  PROVE OneCall' /\ Shared' /\ \A o \in Calls : CallAlone(calls[o])'
  <2>1. \A o \in Calls : o # c => calls[o].pc = "idle" /\ calls[o].kind = "idle"
    BY <1>4, CallParts DEF OneCall, At, InStep, InPlace
  <2>2. OneCall'
    BY <1>1, <2>1 DEF OneCall, At
  <2>3. \A o \in Calls : o # c => CallAlone(calls[o])'
    BY <1>1, <2>1 DEF CallAlone, fileVars
  <2> QED  BY <1>1, <1>4, <2>2, <2>3
<1> QED  BY <1>3, <1>4 DEF Inv, AloneInv

(* Nothing but the activities changes.                                     *)
hostOf == <<up, gatewayVars, tunnelVars, unit, fileVars, signVars>>
LEMMA CallKeeps ==
  ASSUME Inv, NEW c \in Calls, NEW new, Moves(c, new), UNCHANGED <<hostOf, raced, dark>>,
         InStep(new), ~At(c, "idle"), raced = 0 => CallAlone(new)
  PROVE  Inv'
<1>1. Handled' /\ Filed' /\ Signed' /\ OthersWait
  BY CallParts DEF hostOf, gatewayVars, tunnelVars, fileVars, signVars, Handled, Filed, Signed,
                   Sealed, OthersWait
<1>2. InStep(new)' /\ (raced = 0 => Shared' /\ CallAlone(new)')
  BY CallParts DEF hostOf, gatewayVars, tunnelVars, fileVars, InStep, InPlace, Storing, Awaits,
                   Shared, CallAlone
<1> QED  BY <1>1, <1>2, StepKeeps

(* An activity goes on to a step at which it is awaited.                   *)
Fits(call, pc) ==
  \/ pc = "end"
  \/ call.kind \in {"boot", "tunnel"} /\ pc \in {"credential", "startTunnel"}
  \/ call.kind \in {"boot", "gateway"} /\ pc = "startGateway"
  \/ call.kind \in {"tunnel", "stop"} /\ pc = "stopTunnel"
  \/ call.kind = "boot" /\ pc = "booted"
  \/ call.kind = "beat" /\ pc = "answer"
  \/ call.kind \in {"refresh", "setup"} /\ pc = "fetch"
  \/ call.kind = "setup" /\ pc = "authorized"
  \/ call.kind = "stop" /\ pc = "exit"

LEMMA FitsInStep ==
  ASSUME Inv, NEW c \in Calls, NEW pc, ~At(c, "idle"), Fits(calls[c], pc), Goto(c, pc)
  PROVE  \E new \in HostCall : /\ Moves(c, new) /\ InStep(new)
                               /\ new = IdleCall \/ (new.pc = pc /\ new.kind = calls[c].kind)
                               /\ raced = 0 => CallAlone(new)
<1>1. pc \in Pcs \union {"end"}
  BY DEF Fits, Pcs
<1>2. PICK new \in HostCall : /\ Moves(c, new)
                              /\ \/ pc = "end" /\ new = IdleCall
                                 \/ pc # "end" /\ new.pc = pc /\ SameCall(new, calls[c])
  BY <1>1, GotoMoves
<1>3. CASE pc = "end"
  BY <1>2, <1>3, IdleInStep
<1>4. CASE pc # "end"
  <2>1. new.pc = pc /\ new.kind = calls[c].kind
    BY <1>2, <1>4 DEF SameCall
  <2>2. InPlace(new)
    BY <1>4, <2>1, CallParts DEF Fits, InPlace, Pcs, AllKinds
  <2>3. Storing(new)
    BY <1>4, <2>1 DEF Fits, Storing
  <2>4. Awaits(new)
    BY <1>4, <2>1, CallParts DEF Fits, Awaits, InStep
  <2>5. raced = 0 => CallAlone(new)
    BY <1>4, <2>1, CallParts DEF Fits, CallAlone, fileVars
  <2> QED  BY <1>2, <2>1, <2>2, <2>3, <2>4, <2>5 DEF InStep
<1> QED  BY <1>3, <1>4

LEMMA CallGoes ==
  ASSUME Inv, NEW c \in Calls, NEW pc, ~At(c, "idle"), Fits(calls[c], pc), Goto(c, pc),
         UNCHANGED <<hostOf, raced, dark>>
  PROVE  Inv'
BY FitsInStep, CallKeeps

LEMMA CallStores ==
  ASSUME Inv, NEW c \in Calls, ~At(c, "idle"),
         NEW key \in Keys, NEW value \in Values, NEW next \in Nexts,
         Store(c, key, value, next),
         \/ key = "device" /\ value \in {"held", "revoked"}
         \/ key = "tunnel" /\ value = TRUE,
         \/ calls[c].kind = "beat" /\ next \in {"answer", "stopGateway", "end"}
         \/ calls[c].kind \in {"refresh", "setup"} /\ next \in {"fetch", "end"},
         UNCHANGED <<hostOf, raced, dark>>
  PROVE  Inv'
<1>1. PICK new \in HostCall : /\ Moves(c, new) /\ new.kind = calls[c].kind /\ new.pc = "read"
                              /\ new.key = key /\ new.value = value /\ new.next = next
  BY StoreMoves
<1>2. InStep(new)
  BY <1>1, CallParts DEF InStep, InPlace, Storing, Awaits, Pcs
<1>3. raced = 0 => CallAlone(new)
  BY <1>1, CallParts DEF CallAlone, fileVars
<1> QED  BY <1>1, <1>2, <1>3, CallKeeps

LEMMA ReadCredentialStep == ASSUME Inv, NEW c \in Calls, ReadCredential(c)  PROVE Inv'
<1>1. calls[c].pc = "credential" /\ calls[c].kind \in {"boot", "tunnel"}
  BY CallParts DEF ReadCredential, At, InStep, InPlace
<1>2. UNCHANGED <<hostOf, raced, dark>>
  BY DEF ReadCredential, hostOf
<1>3. PICK pc : Goto(c, pc) /\ pc = (IF file.tunnel /\ (calls[c].kind = "boot" => managed)
             THEN IF calls[c].kind = "boot" THEN "startTunnel" ELSE "stopTunnel"
             ELSE AfterTunnelStart(calls[c].kind))
  BY DEF ReadCredential
<1>4. Fits(calls[c], pc)
  BY <1>1, <1>3 DEF Fits, AfterTunnelStart
<1> QED  BY <1>1, <1>2, <1>3, <1>4, CallGoes DEF At

LEMMA LoadIdentityStep == ASSUME Inv, NEW c \in Calls, LoadIdentity(c)  PROVE Inv'
<1>1. calls[c].pc = "load" /\ calls[c].kind \in {"beat", "refresh"}
  BY CallParts DEF LoadIdentity, At, InStep, InPlace
<1>2. UNCHANGED <<hostOf, raced, dark>>
  BY DEF LoadIdentity, hostOf
<1>3. PICK next : next = AfterRenewal[calls[c].kind]
  OBVIOUS
<1>4. Fits(calls[c], next) /\ next \in Nexts
  BY <1>1, <1>3 DEF AfterRenewal, Fits, Nexts
<1>5. \/ Goto(c, "end") \/ Goto(c, next)
      \/ Store(c, "device", "held", next) \/ Store(c, "device", "revoked", "end")
  BY <1>3 DEF LoadIdentity
<1>6. CASE Goto(c, "end") \/ Goto(c, next)
  BY <1>1, <1>2, <1>4, <1>6, CallGoes DEF At, Fits
<1>7. CASE Store(c, "device", "held", next)
  <2>1. \/ calls[c].kind = "beat" /\ next \in {"answer", "stopGateway", "end"}
        \/ calls[c].kind \in {"refresh", "setup"} /\ next \in {"fetch", "end"}
    BY <1>1, <1>3 DEF AfterRenewal
  <2> QED  BY <1>1, <1>2, <1>4, <1>7, <2>1, CallStores DEF At, Keys, Values
<1>8. CASE Store(c, "device", "revoked", "end")
  BY <1>1, <1>2, <1>8, CallStores DEF At, Keys, Nexts, Values
<1> QED  BY <1>5, <1>6, <1>7, <1>8

LEMMA AnsweredStep == ASSUME Inv, NEW c \in Calls, Answered(c)  PROVE Inv'
<1>1. calls[c].pc = "answer" /\ calls[c].kind = "beat"
  BY CallParts DEF Answered, At, InStep, InPlace
<1>2. UNCHANGED <<hostOf, raced, dark>>
  BY DEF Answered, hostOf
<1>3. CASE Goto(c, "end")
  BY <1>1, <1>2, <1>3, CallGoes DEF At, Fits
<1>4. CASE Store(c, "device", "revoked", "stopGateway")
  BY <1>1, <1>2, <1>4, CallStores DEF At, Keys, Nexts, Values
<1> QED  BY <1>3, <1>4 DEF Answered

LEMMA PromptStep == ASSUME Inv, NEW c \in Calls, Prompt(c)  PROVE Inv'
<1>1. calls[c].pc = "prompt" /\ calls[c].kind = "setup"
  BY CallParts DEF Prompt, At, InStep, InPlace
<1>2. UNCHANGED <<hostOf, raced, dark>> /\ Goto(c, "authorized")
  BY DEF Prompt, hostOf
<1> QED  BY <1>1, <1>2, CallGoes DEF At, Fits

LEMMA AuthorizedStep == ASSUME Inv, NEW c \in Calls, Authorized(c)  PROVE Inv'
<1>1. calls[c].pc = "authorized" /\ calls[c].kind = "setup"
  BY CallParts DEF Authorized, At, InStep, InPlace
<1>2. UNCHANGED <<hostOf, raced, dark>> /\ Store(c, "device", "held", "fetch")
  BY DEF Authorized, hostOf
<1> QED  BY <1>1, <1>2, CallStores DEF At, Keys, Nexts, Values

LEMMA FetchCredentialStep == ASSUME Inv, NEW c \in Calls, FetchCredential(c)  PROVE Inv'
<1>1. calls[c].pc = "fetch" /\ calls[c].kind \in {"refresh", "setup"}
  BY CallParts DEF FetchCredential, At, InStep, InPlace
<1>2. UNCHANGED <<hostOf, raced, dark>>
  BY DEF FetchCredential, hostOf
<1>3. CASE Goto(c, "end")
  BY <1>1, <1>2, <1>3, CallGoes DEF At, Fits
<1>4. CASE Store(c, "tunnel", TRUE, "end")
  BY <1>1, <1>2, <1>4, CallStores DEF At, Keys, Nexts, Values
<1> QED  BY <1>3, <1>4 DEF FetchCredential

LEMMA ThrowsStep == ASSUME Inv, NEW c \in Calls, Throws(c)  PROVE Inv'
<1>1. ~At(c, "idle") /\ Goto(c, "end") /\ UNCHANGED <<hostOf, raced, dark>>
  BY DEF Throws, At, hostOf
<1> QED  BY <1>1, CallGoes DEF Fits

LEMMA ReadFileStep == ASSUME Inv, NEW c \in Calls, ReadFile(c)  PROVE Inv'
<1>1. PICK call : call = calls[c]
  OBVIOUS
<1> DEFINE new == [call EXCEPT !.file = file, !.pc = "write"]
<1>2. /\ call.pc = "read" /\ call \in HostCall /\ InStep(call) /\ file \in File
      /\ calls' = [calls EXCEPT ![c] = new] /\ UNCHANGED <<hostOf, raced, dark>>
  BY <1>1, CallParts DEF ReadFile, At, hostOf, Filed, HostCall
<1>3. /\ new \in HostCall /\ new.pc = "write" /\ new.kind = call.kind /\ new.file = file
      /\ new.key = call.key /\ new.value = call.value /\ new.next = call.next
  BY <1>2 DEF HostCall, Pcs
<1> HIDE DEF new
<1>4. InStep(new)
  BY <1>2, <1>3 DEF InStep, InPlace, Storing, Awaits, Pcs
<1>5. raced = 0 => CallAlone(new)
  BY <1>1, <1>2, <1>3, CallParts DEF CallAlone, hostOf, fileVars
<1> QED  BY <1>1, <1>2, <1>3, <1>4, <1>5, CallKeeps DEF Moves, At

-----------------------------------------------------------------------------
(* The steps that begin an activity.                                       *)
LEMMA BeginKeeps ==
  ASSUME Inv, NEW c \in Calls, NEW kind \in AllKinds, NEW pc \in Pcs, Begin(c, kind, pc),
         \/ kind = "boot" /\ pc = "startGateway"
         \/ kind = "beat" /\ pc = "load"
         \/ kind = "setup" /\ pc = "prompt"
         \/ kind \in {"gateway", "stop"} /\ pc = "stopGateway"
         \/ kind = "tunnel" /\ pc = "credential"
         \/ kind = "refresh" /\ pc = "load",
         up' = "down" => up = "down" /\ kind = "setup",
         up' \in {"down", "starting", "up", "stopping"}, handle => up' # "down",
         UNCHANGED <<gatewayVars, tunnelVars, fileVars>>, Signed'
  PROVE  Inv'
<1> DEFINE new == [IdleCall EXCEPT !.kind = kind, !.pc = pc]
<1>1. /\ new \in HostCall /\ new.kind = kind /\ new.pc = pc
  BY DEF IdleCall, HostCall
<1>2. Moves(c, new) /\ At(c, "idle") /\ CountRace /\ dark' = (dark /\ kind \in {"beat", "stop"})
  BY <1>1 DEF Begin, Moves
<1> HIDE DEF new
<1>3. /\ calls' \in [Calls -> HostCall] /\ calls'[c] = new
      /\ \A o \in Calls : o # c => calls'[o] = calls[o]
  BY <1>2, MovesFields
<1>4. Handled'
  <2>1. Handled
    BY CallParts
  <2> QED  BY <2>1 DEF Handled, gatewayVars, tunnelVars
<1>5. Filed'
  BY CallParts DEF Filed, fileVars
<1>6. InStep(new)'
  BY <1>1, CallParts DEF InStep, InPlace, Storing, Awaits, Pcs
<1>7. ASSUME NEW o \in Calls, o # c  PROVE InStep(calls[o])'
  <2>1. InStep(calls[o])
    BY CallParts
  <2> QED  BY <1>3, <1>7, <2>1
        DEF InStep, InPlace, Storing, Awaits, gatewayVars, tunnelVars
<1>8. raced' \in Nat /\ (raced' = 0 => raced = 0 /\ Quiet)
  BY <1>2, CallParts DEF CountRace
<1>9. HostInv'
  BY <1>3, <1>4, <1>5, <1>6, <1>7, <1>8 DEF HostInv
<1>10. ASSUME raced' = 0  PROVE OneCall' /\ Shared' /\ \A o \in Calls : CallAlone(calls[o])'
  <2>1. \A o \in Calls : calls[o].pc = "idle" /\ calls[o].kind = "idle"
    BY <1>8, <1>10, CallParts DEF Quiet, At, InStep, InPlace
  <2>2. OneCall'
    BY <1>3, <2>1 DEF OneCall, At
  <2>3. Shared'
    BY <1>2, <1>8, <1>10, CallParts DEF Shared, gatewayVars, tunnelVars, fileVars
  <2>4. \A o \in Calls : o # c => CallAlone(calls[o])'
    BY <1>3, <2>1 DEF CallAlone, fileVars
  <2>5. CallAlone(new)'
    BY <1>1, <1>2 DEF CallAlone, fileVars
  <2> QED  BY <1>3, <2>2, <2>3, <2>4, <2>5
<1> QED  BY <1>9, <1>10 DEF Inv, AloneInv

LEMMA SignedStays == ASSUME Signed, UNCHANGED signVars  PROVE Signed'
BY DEF Signed, Sealed, signVars

LEMMA BeginBootStep == ASSUME Inv, NEW c \in Calls, BeginBoot(c)  PROVE Inv'
<1>1. /\ Begin(c, "boot", "startGateway") /\ up' = "starting"
      /\ UNCHANGED <<gatewayVars, tunnelVars, fileVars, signVars>>
  BY DEF BeginBoot
<1> QED  BY <1>1, SignedStays, CallParts, BeginKeeps DEF AllKinds, Pcs

LEMMA BeginBeatStep == ASSUME Inv, NEW c \in Calls, BeginBeat(c)  PROVE Inv'
<1>1. /\ Begin(c, "beat", "load") /\ up' = "up"
      /\ UNCHANGED <<gatewayVars, tunnelVars, fileVars, signVars>>
  BY DEF BeginBeat
<1> QED  BY <1>1, SignedStays, CallParts, BeginKeeps DEF AllKinds, Pcs

LEMMA BeginRepairStep ==
  ASSUME Inv, NEW c \in Calls, NEW kind \in Repairs, BeginRepair(c, kind)  PROVE Inv'
<1>1. PICK pc : pc = FirstStep[kind]
  OBVIOUS
<1>2. /\ Begin(c, kind, pc) /\ up' = "up"
      /\ UNCHANGED <<gatewayVars, tunnelVars, fileVars, signVars>>
  BY <1>1 DEF BeginRepair
<1>3. /\ kind \in AllKinds /\ pc \in Pcs
      /\ \/ kind = "gateway" /\ pc = "stopGateway"
         \/ kind = "tunnel" /\ pc = "credential"
         \/ kind = "refresh" /\ pc = "load"
  BY <1>1 DEF Repairs, FirstStep, AllKinds, Pcs
<1> QED  BY <1>2, <1>3, SignedStays, CallParts, BeginKeeps

LEMMA BeginSetupStep == ASSUME Inv, NEW c \in Calls, BeginSetup(c)  PROVE Inv'
<1>1. /\ Begin(c, "setup", "prompt") /\ up' = up
      /\ UNCHANGED <<gatewayVars, tunnelVars, fileVars, signVars>>
  BY DEF BeginSetup
<1>2. up \in {"down", "starting", "up", "stopping"} /\ (handle => up # "down")
  BY CallParts DEF Handled
<1> QED  BY <1>1, <1>2, SignedStays, CallParts, BeginKeeps DEF AllKinds, Pcs

LEMMA BeginStopStep == ASSUME Inv, NEW c \in Calls, BeginStop(c)  PROVE Inv'
<1>1. /\ Begin(c, "stop", "stopGateway") /\ up' = "stopping"
      /\ UNCHANGED <<gatewayVars, tunnelVars, fileVars, signVars>>
  BY DEF BeginStop
<1> QED  BY <1>1, SignedStays, CallParts, BeginKeeps DEF AllKinds, Pcs

(* A signature is accepted when it is in the window and not in the cache,  *)
(* and one accepted before is in the cache until the window has passed.    *)
LEMMA AcceptedIsSealed ==
  ASSUME Signed, NEW sig \in Signatures, verifyGatewayRequest(sig), clock' = clock, sent' = sent,
         seen' = Remembered \union {[sig |-> sig, expiry |-> Expiry(clock)]},
         taken' = taken \union {sig}, twice' = (twice \/ sig \in taken)
  PROVE  Signed'
<1>1. /\ clock \in Nat /\ sig.at \in Nat /\ Window \in Nat /\ Window > 0 /\ sig.at <= clock
      /\ clock - sig.at <= Window
  BY HostBounds DEF Signed, Signatures, verifyGatewayRequest, InWindow
<1>2. sig \notin taken
  <2> SUFFICES ASSUME sig \in taken  PROVE FALSE
    OBVIOUS
  <2>1. Sealed(sig)
    BY DEF Signed
  <2>2. CASE clock >= sig.at + 2 * Window
    BY <1>1, <2>2
  <2>3. CASE \E e \in seen : e.sig = sig /\ e.expiry >= sig.at + 2 * Window
    <3>1. PICK e \in seen : e.sig = sig /\ e.expiry >= sig.at + 2 * Window
      BY <2>3
    <3>2. e \notin Remembered
      BY <3>1 DEF verifyGatewayRequest
    <3>3. e.expiry \in Nat /\ ~(e.expiry > clock)
      BY <3>1, <3>2 DEF Remembered, Signed
    <3> QED  BY <1>1, <3>1, <3>3
  <2> QED  BY <2>1, <2>2, <2>3 DEF Sealed
<1> DEFINE entry == [sig |-> sig, expiry |-> Expiry(clock)]
<1>3. entry \in [sig : Signatures, expiry : Nat] /\ entry.sig = sig /\ entry.expiry = clock + 2 * Window
  BY <1>1 DEF Expiry
<1>4. entry \in seen' /\ \A e \in Remembered : e \in seen'
  OBVIOUS
<1> HIDE DEF entry
<1>5. seen' \subseteq [sig : Signatures, expiry : Nat]
  <2>1. seen' = Remembered \union {entry}
    BY DEF entry
  <2> QED  BY <1>3, <2>1 DEF Remembered, Signed
<1>6. ASSUME NEW s \in taken'  PROVE Sealed(s)'
  <2>1. CASE s = sig
    <3>1. entry.expiry >= s.at + 2 * Window
      BY <1>1, <1>3, <2>1
    <3> QED  BY <1>3, <1>4, <2>1, <3>1 DEF Sealed
  <2>2. CASE s # sig
    <3>1. Sealed(s) /\ s.at \in Nat
      BY <1>6, <2>2 DEF Signed, Signatures
    <3>2. CASE clock >= s.at + 2 * Window
      BY <3>2 DEF Sealed
    <3>3. CASE \E e \in seen : e.sig = s /\ e.expiry >= s.at + 2 * Window
      <4>1. PICK e \in seen : e.sig = s /\ e.expiry >= s.at + 2 * Window
        BY <3>3
      <4>2. CASE e \in Remembered
        BY <1>4, <4>1, <4>2 DEF Sealed
      <4>3. CASE e \notin Remembered
        <5>1. e.expiry \in Nat /\ ~(e.expiry > clock)
          BY <4>1, <4>3 DEF Remembered, Signed
        <5>2. clock >= s.at + 2 * Window
          BY <1>1, <3>1, <4>1, <5>1
        <5> QED  BY <5>2 DEF Sealed
      <4> QED  BY <4>2, <4>3
    <3> QED  BY <3>1, <3>2, <3>3 DEF Sealed
  <2> QED  BY <2>1, <2>2
<1>7. ~twice'
  BY <1>2 DEF Signed
<1> QED  BY <1>5, <1>6, <1>7 DEF Signed

LEMMA AcceptStep ==
  ASSUME Inv, NEW c \in Calls, NEW sig \in Signatures, Accept(c, sig)  PROVE Inv'
<1>1. PICK kind : kind = sig.action
  OBVIOUS
<1>2. PICK pc : pc = FirstStep[kind]
  OBVIOUS
<1>3. kind \in Repairs
  BY <1>1, KindsOfActivity DEF Signatures
<1>4. /\ Begin(c, kind, pc) /\ up' = up /\ port = "ours"
      /\ UNCHANGED <<gatewayVars, tunnelVars, fileVars>>
  BY <1>1, <1>2 DEF Accept, RepairRoute
<1>5. Signed'
  BY AcceptedIsSealed, CallParts DEF Accept
<1>6. /\ kind \in AllKinds /\ pc \in Pcs
      /\ \/ kind = "gateway" /\ pc = "stopGateway"
         \/ kind = "tunnel" /\ pc = "credential"
         \/ kind = "refresh" /\ pc = "load"
  BY <1>2, <1>3 DEF Repairs, FirstStep, AllKinds, Pcs
<1>7. up # "down" /\ up \in {"down", "starting", "up", "stopping"}
  BY <1>4, CallParts DEF Handled
<1> QED  BY <1>4, <1>5, <1>6, <1>7, BeginKeeps

-----------------------------------------------------------------------------
(* The gateway and its port.                                               *)
GateKeeps == UNCHANGED <<tunnelVars, fileVars, raced>>

LEMMA StopGatewayStep == ASSUME Inv, NEW c \in Calls, StopGateway(c)  PROVE Inv'
<1>1. calls[c].pc = "stopGateway" /\ calls[c].kind \in {"gateway", "beat", "stop"}
  BY CallParts DEF StopGateway, At, InStep, InPlace
<1>2. PICK pc : /\ Goto(c, pc)
                /\ pc = (IF handle THEN "gatewayStopping" ELSE AfterGatewayStop(calls[c].kind))
  BY DEF StopGateway
<1>3. pc \in Pcs /\ pc # "end"
  BY <1>2 DEF AfterGatewayStop, Pcs
<1>4. PICK new \in HostCall : Moves(c, new) /\ new.pc = pc /\ SameCall(new, calls[c])
  BY <1>2, <1>3, GotoMoves
<1>5. /\ port' = IF handle /\ port = "ours" THEN "nobody" ELSE port
      /\ UNCHANGED <<up, handle, tunnelVars, fileVars, signVars, raced, dark>>
  BY DEF StopGateway, gatewayVars
<1>6. Handled' /\ Filed' /\ Signed' /\ OthersWait /\ port' # "ours"
  BY <1>5, CallParts, SignedStays DEF Handled, Filed, OthersWait, tunnelVars, fileVars
<1>7. InStep(new)'
  BY <1>1, <1>2, <1>4, <1>5, <1>6, CallParts
     DEF InStep, InPlace, Storing, Awaits, Pcs, SameCall, AfterGatewayStop
<1>8. raced = 0 => Shared' /\ CallAlone(new)'
  BY <1>2, <1>3, <1>4, <1>5, <1>6, CallParts
     DEF Shared, CallAlone, SameCall, tunnelVars, AfterGatewayStop, fileVars
<1> QED  BY <1>1, <1>4, <1>5, <1>6, <1>7, <1>8, StepKeeps DEF At

LEMMA StartGatewayStep == ASSUME Inv, NEW c \in Calls, StartGateway(c)  PROVE Inv'
<1>1. calls[c].pc = "startGateway" /\ calls[c].kind \in {"boot", "gateway"}
  BY CallParts DEF StartGateway, At, InStep, InPlace
<1>2. PICK pc : Goto(c, pc) /\ pc = AfterGatewayStart(calls[c].kind)
  BY DEF StartGateway
<1>3. Fits(calls[c], pc)
  BY <1>1, <1>2 DEF AfterGatewayStart, Fits
<1>4. PICK new \in HostCall : /\ Moves(c, new) /\ InStep(new)
                              /\ new = IdleCall \/ (new.pc = pc /\ new.kind = calls[c].kind)
                              /\ raced = 0 => CallAlone(new)
  BY <1>1, <1>2, <1>3, FitsInStep DEF At
<1>5. /\ \/ UNCHANGED <<port, handle>>
         \/ ~handle /\ port = "nobody" /\ port' = "ours" /\ handle' = TRUE
      /\ UNCHANGED <<up, tunnelVars, fileVars, signVars, raced, dark>>
  BY DEF StartGateway, gatewayVars
<1>6. up # "down"
  BY <1>1, CallParts DEF InStep, Awaits
<1>7. Handled' /\ Filed' /\ Signed' /\ OthersWait
  <2>1. Handled /\ Filed /\ Signed
    BY CallParts
  <2>2. Filed' /\ Signed'
    BY <1>5, <2>1, SignedStays DEF Filed, fileVars
  <2>3. CASE UNCHANGED <<port, handle>>
    BY <1>5, <2>1, <2>2, <2>3 DEF Handled, OthersWait, tunnelVars
  <2>4. CASE ~handle /\ port = "nobody" /\ port' = "ours" /\ handle' = TRUE
    BY <1>5, <1>6, <2>1, <2>2, <2>4 DEF Handled, OthersWait, tunnelVars
  <2> QED  BY <1>5, <2>3, <2>4
<1>8. InStep(new)'
  BY <1>4, <1>5, <1>7, CallParts DEF InStep, InPlace, Storing, Awaits, OthersWait, tunnelVars
<1>9. ASSUME raced = 0  PROVE Shared' /\ CallAlone(new)'
  <2>1. ~dark
    BY <1>1, <1>9, CallParts DEF CallAlone, fileVars
  <2>2. new = IdleCall \/ new.kind \in {"boot", "gateway"}
    BY <1>1, <1>4
  <2>3. Shared /\ CallAlone(new)
    BY <1>4, <1>9, CallParts
  <2> QED  BY <1>5, <2>1, <2>2, <2>3, IdleFields DEF Shared, CallAlone, tunnelVars, fileVars
<1> QED  BY <1>1, <1>4, <1>5, <1>7, <1>8, <1>9, StepKeeps DEF At

(* All who wait for the server to stop go on at once.                      *)
LEMMA GatewayStoppedStep == ASSUME Inv, GatewayStopped  PROVE Inv'
<1> DEFINE next(call) == [call EXCEPT !.pc = AfterGatewayStop(call.kind)]
<1>1. /\ \E c \in Calls : calls[c].pc = "gatewayStopping"
      /\ handle' = FALSE /\ seen' = {} /\ taken' = {}
      /\ calls' = [c \in Calls |-> IF calls[c].pc = "gatewayStopping" THEN next(calls[c]) ELSE calls[c]]
      /\ UNCHANGED <<up, port, tunnelVars, fileVars, clock, sent, twice, raced, dark>>
  BY DEF GatewayStopped, At
<1>2. PICK w \in Calls : calls[w].pc = "gatewayStopping"
  BY <1>1
<1>3. port # "ours" /\ Handled /\ Filed /\ Signed
  BY <1>2, CallParts DEF InStep, Awaits
<1>4. Handled' /\ Filed'
  BY <1>1, <1>3 DEF Handled, Filed, tunnelVars, fileVars
<1>5. Signed'
  BY <1>1, <1>3 DEF Signed
<1>6. ASSUME NEW call \in HostCall, InStep(call), call.pc = "gatewayStopping"
      PROVE  /\ next(call) \in HostCall /\ next(call).kind = call.kind
             /\ next(call).pc \in {"startGateway", "stopTunnel"}
             /\ InStep(next(call))'
  <2>1. PICK pc \in {"startGateway", "stopTunnel"} : pc = AfterGatewayStop(call.kind)
    BY DEF AfterGatewayStop
  <2> DEFINE new == [call EXCEPT !.pc = pc]
  <2>2. new \in HostCall /\ new.kind = call.kind /\ new.pc = pc
    BY DEF HostCall, Pcs
  <2>3. new = next(call)
    BY <2>1
  <2> HIDE DEF new, next
  <2>4. InStep(new)'
    BY <1>1, <1>6, <2>1, <2>2 DEF InStep, InPlace, Storing, Awaits, AfterGatewayStop, Pcs
  <2> QED  BY <2>2, <2>3, <2>4
<1>7. ASSUME NEW c \in Calls  PROVE calls'[c] \in HostCall /\ InStep(calls[c])'
  <2>1. PICK call : call = calls[c]
    OBVIOUS
  <2>2. call \in HostCall /\ InStep(call)
    BY <2>1, CallParts
  <2>3. CASE call.pc = "gatewayStopping"
    <3>1. calls'[c] = next(call)
      BY <1>1, <2>1, <2>3
    <3> HIDE DEF next
    <3> QED  BY <1>6, <2>2, <2>3, <3>1
  <2>4. CASE call.pc # "gatewayStopping"
    <3>1. calls'[c] = call
      BY <1>1, <2>1, <2>4
    <3>2. InStep(call)'
      BY <1>1, <2>2, <2>4 DEF InStep, InPlace, Storing, Awaits, tunnelVars
    <3> QED  BY <2>2, <3>1, <3>2
  <2> QED  BY <2>3, <2>4
<1>8. calls' \in [Calls -> HostCall]
  <2>1. \A c \in Calls : calls'[c] \in HostCall
    BY <1>7
  <2>2. DOMAIN calls' = Calls /\ calls' = [c \in Calls |-> calls'[c]]
    BY <1>1
  <2> QED  BY <2>1, <2>2
<1>9. HostInv'
  BY <1>1, <1>3, <1>4, <1>5, <1>7, <1>8, CallParts, <1>2 DEF HostInv
<1>10. ASSUME raced = 0  PROVE OneCall' /\ Shared' /\ \A c \in Calls : CallAlone(calls[c])'
  <2>1. OneCall /\ Shared /\ \A c \in Calls : CallAlone(calls[c])
    BY <1>10 DEF Inv, AloneInv
  <2>2. \A c \in Calls : c # w => calls[c].pc = "idle"
    BY <1>2, <2>1 DEF OneCall, At
  <2>3. \A c \in Calls : c # w => calls'[c] = calls[c]
    BY <1>1, <2>2
  <2>4. OneCall'
    BY <2>2, <2>3 DEF OneCall, At
  <2>5. Shared'
    BY <1>1, <2>1 DEF Shared, tunnelVars, fileVars
  <2>6. \A c \in Calls : c # w => CallAlone(calls[c])'
    BY <1>1, <2>1, <2>3 DEF CallAlone, tunnelVars, fileVars
  <2>7. CallAlone(calls[w])'
    <3>1. PICK call \in HostCall : call = calls[w]
      BY CallParts
    <3>2. calls'[w] = next(call)
      BY <1>1, <1>2, <3>1
    <3>3. next(call).kind = call.kind /\ next(call).pc \in {"startGateway", "stopTunnel"}
      BY <1>2, <1>6, <3>1, CallParts
    <3> HIDE DEF next
    <3> QED  BY <1>1, <1>3, <2>1, <3>1, <3>2, <3>3 DEF CallAlone, fileVars
  <2> QED  BY <2>4, <2>5, <2>6, <2>7
<1> QED  BY <1>1, <1>9, <1>10 DEF Inv, AloneInv

(* The host: another program takes the port or leaves it, and the rest of  *)
(* what goes on around the daemon.                                         *)
LEMMA AroundKeeps ==
  ASSUME Inv, UNCHANGED <<up, handle, child, live, strays, fileVars, calls, raced, dark>>,
         Signed', port' \in {"nobody", "ours", "other"}, port' = "ours" <=> port = "ours"
  PROVE  Inv'
<1>1. HostInv
  BY DEF Inv
<1>2. Handled' /\ Filed' /\ raced' \in Nat
  BY <1>1 DEF HostInv, Handled, Filed, fileVars
<1>3. \A c \in Calls : InStep(calls[c])'
  BY <1>1 DEF HostInv, InStep, InPlace, Storing, Awaits
<1>4. HostInv'
  BY <1>1, <1>2, <1>3 DEF HostInv
<1>5. AloneInv'
  BY DEF Inv, AloneInv, OneCall, At, Shared, CallAlone, fileVars
<1> QED  BY <1>4, <1>5 DEF Inv

LEMMA PortStep == ASSUME Inv, PortTaken \/ PortLeft  PROVE Inv'
<1>1. Signed
  BY DEF Inv, HostInv
<1> QED  BY <1>1, SignedStays, AroundKeeps DEF PortTaken, PortLeft, tunnelVars

LEMMA UnitTogglesStep == ASSUME Inv, UnitToggles  PROVE Inv'
<1>1. Signed /\ port \in {"nobody", "ours", "other"}
  BY DEF Inv, HostInv, Handled
<1> QED  BY <1>1, SignedStays, AroundKeeps DEF UnitToggles, gatewayVars, tunnelVars

LEMMA RevokeStep == ASSUME Inv, Revoke  PROVE Inv'
<1>1. HostInv
  BY DEF Inv
<1>2. UNCHANGED <<up, gatewayVars, tunnelVars, file, managed, told, signVars, calls, raced, dark>>
  BY DEF Revoke
<1>3. Handled' /\ Filed' /\ raced' \in Nat /\ Signed'
  BY <1>1, <1>2, SignedStays DEF HostInv, Handled, Filed, gatewayVars, tunnelVars
<1>4. \A c \in Calls : InStep(calls[c])'
  BY <1>1, <1>2 DEF HostInv, InStep, InPlace, Storing, Awaits, gatewayVars, tunnelVars
<1>5. HostInv'
  BY <1>1, <1>2, <1>3, <1>4 DEF HostInv
<1>6. AloneInv'
  BY <1>2 DEF Inv, AloneInv, OneCall, At, Shared, CallAlone, gatewayVars, tunnelVars, fileVars
<1> QED  BY <1>5, <1>6 DEF Inv

LEMMA TickStep == ASSUME Inv, Tick  PROVE Inv'
<1>1. Signed /\ port \in {"nobody", "ours", "other"}
  BY DEF Inv, HostInv, Handled
<1>2. /\ clock \in Nat /\ clock' = clock + 1 /\ clock' \in 0..MaxClock
      /\ UNCHANGED <<sent, seen, taken, twice>>
  BY <1>1, HostBounds DEF Tick, Signed
<1>3. \A sig \in Signatures : sig.at \in Nat
  BY DEF Signatures
<1>4. \A sig \in sent' : sig.at <= clock'
  BY <1>1, <1>2, <1>3 DEF Signed
<1>5. ASSUME NEW sig \in taken  PROVE Sealed(sig)'
  <2>1. Sealed(sig) /\ sig.at \in Nat /\ Window \in Nat
    BY <1>1, <1>3, <1>5, HostBounds DEF Signed
  <2>2. CASE clock >= sig.at + 2 * Window
    <3>1. clock' >= sig.at + 2 * Window
      BY <1>2, <2>1, <2>2
    <3> QED  BY <3>1 DEF Sealed
  <2>3. CASE \E e \in seen : e.sig = sig /\ e.expiry >= sig.at + 2 * Window
    BY <1>2, <2>3 DEF Sealed
  <2> QED  BY <2>1, <2>2, <2>3 DEF Sealed
<1>6. Signed'
  BY <1>1, <1>2, <1>4, <1>5 DEF Signed
<1> QED  BY <1>1, <1>6, AroundKeeps DEF Tick, gatewayVars, tunnelVars

LEMMA SignStep == ASSUME Inv, NEW action \in Actions, Sign(action)  PROVE Inv'
<1>1. Signed /\ port \in {"nobody", "ours", "other"}
  BY DEF Inv, HostInv, Handled
<1> DEFINE sig == [action |-> action, at |-> clock]
<1>2. sent' = sent \union {sig} /\ UNCHANGED <<clock, seen, taken, twice>>
  BY DEF Sign
<1>3. clock \in 0..MaxClock
  BY <1>1 DEF Signed
<1>4. Signed'
  <2>1. sig \in Signatures /\ sig.at <= clock
    BY <1>3, HostBounds DEF Signatures
  <2> HIDE DEF sig
  <2> QED  BY <1>1, <1>2, <2>1 DEF Signed, Sealed
<1> QED  BY <1>1, <1>4, AroundKeeps DEF Sign, gatewayVars, tunnelVars

-----------------------------------------------------------------------------
(* The tunnel.                                                             *)
LEMMA StartTunnelStep == ASSUME Inv, NEW c \in Calls, StartTunnel(c)  PROVE Inv'
<1>1. calls[c].pc = "startTunnel" /\ calls[c].kind \in {"boot", "tunnel"}
  BY CallParts DEF StartTunnel, At, InStep, InPlace
<1>2. UNCHANGED <<hostOf, raced, dark>>
  BY DEF StartTunnel, hostOf
<1>3. CASE child # None
  <2>1. PICK pc : Goto(c, pc) /\ pc = AfterTunnelStart(calls[c].kind)
    BY <1>3 DEF StartTunnel
  <2>2. Fits(calls[c], pc)
    BY <1>1, <2>1 DEF Fits, AfterTunnelStart
  <2> QED  BY <1>1, <1>2, <2>1, <2>2, CallGoes DEF At
<1>4. CASE child = None
  <2>1. Goto(c, "spawn")
    BY <1>4 DEF StartTunnel
  <2>2. PICK new \in HostCall : Moves(c, new) /\ new.pc = "spawn" /\ SameCall(new, calls[c])
    BY <2>1, GotoMoves DEF Pcs
  <2>3. InStep(new)
    BY <1>1, <2>2, CallParts DEF InStep, InPlace, Storing, Awaits, SameCall, Pcs
  <2>4. raced = 0 => CallAlone(new)
    BY <1>4, <2>2, CallParts DEF CallAlone, SameCall, fileVars
  <2> QED  BY <1>1, <1>2, <2>2, <2>3, <2>4, CallKeeps DEF At
<1> QED  BY <1>3, <1>4

LEMMA SpawnTunnelStep == ASSUME Inv, NEW c \in Calls, SpawnTunnel(c)  PROVE Inv'
<1>1. calls[c].pc = "spawn" /\ calls[c].kind \in {"boot", "tunnel"}
  BY CallParts DEF SpawnTunnel, At, InStep, InPlace
<1>2. PICK pc : Goto(c, pc) /\ pc = AfterTunnelStart(calls[c].kind)
  BY DEF SpawnTunnel
<1>3. Fits(calls[c], pc)
  BY <1>1, <1>2 DEF Fits, AfterTunnelStart
<1>4. PICK new \in HostCall : /\ Moves(c, new) /\ InStep(new)
                              /\ new = IdleCall \/ (new.pc = pc /\ new.kind = calls[c].kind)
                              /\ raced = 0 => CallAlone(new)
  BY <1>1, <1>2, <1>3, FitsInStep DEF At
<1>5. UNCHANGED <<up, port, handle, strays, fileVars, signVars, raced, dark>>
  BY DEF SpawnTunnel, gatewayVars
<1>6. \/ UNCHANGED <<child, live>>
      \/ \E t \in Unused : child' = t /\ live' = live \union {t}
  BY DEF SpawnTunnel
<1>7. up # "down"
  BY <1>1, CallParts DEF InStep, Awaits
<1>8. new.pc # "spawn" /\ new.pc # "tunnelStopping" /\ new.pc # "gatewayStopping"
  BY <1>2, <1>4, IdleFields DEF AfterTunnelStart
<1>9. CASE UNCHANGED <<child, live>>
  <2>1. UNCHANGED <<up, port, handle, tunnelVars, fileVars, signVars, raced, dark>>
    BY <1>5, <1>9 DEF tunnelVars
  <2>2. Handled' /\ Filed' /\ Signed' /\ OthersWait
    BY <2>1, CallParts, SignedStays DEF Handled, Filed, OthersWait, tunnelVars, fileVars
  <2>3. InStep(new)' /\ (raced = 0 => Shared' /\ CallAlone(new)')
    BY <1>4, <2>1, CallParts DEF InStep, InPlace, Storing, Awaits, Shared, CallAlone, tunnelVars, fileVars
  <2> QED  BY <1>1, <1>4, <2>1, <2>2, <2>3, StepKeeps DEF At
<1>10. CASE \E t \in Unused : child' = t /\ live' = live \union {t}
  <2>1. PICK t \in Unused : child' = t /\ live' = live \union {t}
    BY <1>10
  <2>2. t \in Tunnels /\ t \notin live /\ t # None
    BY <2>1, NoProcess DEF Unused
  <2>3. Handled /\ Filed /\ Signed
    BY CallParts
  <2>4. Filed' /\ Signed'
    BY <1>5, <2>3, SignedStays DEF Filed, fileVars
  <2>5. Handled' /\ OthersWait
    BY <1>5, <1>7, <2>1, <2>2, <2>3 DEF Handled, OthersWait
  <2>6. InStep(new)'
    BY <1>4, <1>5, <1>8 DEF InStep, InPlace, Storing, Awaits
  <2>7. ASSUME raced = 0  PROVE Shared' /\ CallAlone(new)'
    <3>1. child = None /\ ~dark /\ Shared /\ CallAlone(new)
      BY <1>1, <1>4, <2>7, CallParts DEF CallAlone, fileVars
    <3>2. live \ strays = {}
      BY <2>3, <3>1, NoProcess DEF Shared, Handled, fileVars
    <3>3. Shared'
      BY <1>5, <2>1, <3>1, <3>2 DEF Shared, fileVars
    <3>4. CallAlone(new)'
      BY <1>5, <1>8, <3>1 DEF CallAlone, fileVars
    <3> QED  BY <3>3, <3>4
  <2> QED  BY <1>1, <1>4, <1>5, <2>4, <2>5, <2>6, <2>7, StepKeeps DEF At
<1> QED  BY <1>6, <1>9, <1>10

LEMMA StopTunnelStep == ASSUME Inv, NEW c \in Calls, StopTunnel(c)  PROVE Inv'
<1>1. calls[c].pc = "stopTunnel" /\ calls[c].kind \in {"tunnel", "beat", "stop"}
  BY CallParts DEF StopTunnel, At, InStep, InPlace
<1>2. UNCHANGED <<up, gatewayVars, tunnelVars, fileVars, signVars, raced>>
  BY DEF StopTunnel
<1>3. Handled' /\ Filed' /\ Signed' /\ OthersWait
  BY <1>2, CallParts, SignedStays
     DEF Handled, Filed, OthersWait, gatewayVars, tunnelVars, fileVars
<1>4. CASE child = None
  <2>1. PICK pc : Goto(c, pc) /\ pc = AfterTunnelStop[calls[c].kind]
    BY <1>4 DEF StopTunnel
  <2>2. dark' = (dark \/ calls[c].kind = "beat")
    BY <1>4 DEF StopTunnel
  <2>3. /\ calls[c].kind = "tunnel" => pc = "startTunnel"
        /\ calls[c].kind = "beat" => pc = "end"
        /\ calls[c].kind = "stop" => pc = "exit"
    BY <2>1 DEF AfterTunnelStop
  <2>4. Fits(calls[c], pc)
    BY <1>1, <2>3 DEF Fits
  <2>5. PICK new \in HostCall : /\ Moves(c, new) /\ InStep(new)
                                /\ new = IdleCall \/ (new.pc = pc /\ new.kind = calls[c].kind)
                                /\ raced = 0 => CallAlone(new)
    BY <1>1, <2>1, <2>4, FitsInStep DEF At
  <2>6. InStep(new)'
    BY <1>2, <2>5 DEF InStep, InPlace, Storing, Awaits, gatewayVars, tunnelVars
  <2>7. ASSUME raced = 0  PROVE Shared' /\ CallAlone(new)'
    <3>1. Shared /\ CallAlone(calls[c]) /\ CallAlone(new)
      BY <2>5, <2>7, CallParts
    <3>2. calls[c].kind = "beat" => new = IdleCall
      <4>1. new = IdleCall \/ new.pc = "end" \/ calls[c].kind # "beat"
        BY <2>3, <2>5
      <4>2. new.pc # "end"
        BY <2>5 DEF HostCall, Pcs
      <4> QED  BY <4>1, <4>2
    <3>3. live \ strays = {}
      <4>1. live \subseteq Tunnels
        BY CallParts DEF Handled
      <4> QED  BY <1>4, <3>1, <4>1, NoProcess DEF Shared, fileVars
    <3>4. calls[c].kind = "beat" => port # "ours"
      BY <1>1, <3>1 DEF CallAlone, fileVars
    <3>5. Shared'
      BY <1>2, <2>2, <3>1, <3>3, <3>4 DEF Shared, gatewayVars, tunnelVars, fileVars
    <3>6. CallAlone(new)'
      BY <1>2, <2>2, <3>1, <3>2, IdleFields DEF CallAlone, gatewayVars, tunnelVars, fileVars
    <3> QED  BY <3>5, <3>6
  <2> QED  BY <1>1, <1>2, <1>3, <2>5, <2>6, <2>7, StepKeeps DEF At
<1>5. CASE child # None
  <2>1. PICK call : call = calls[c]
    OBVIOUS
  <2>2. PICK t : t = child
    OBVIOUS
  <2> DEFINE new == [call EXCEPT !.pc = "tunnelStopping", !.child = t]
  <2>3. t \in Tunnels /\ t \in live \ strays
    BY <1>5, <2>2, CallParts DEF Handled
  <2>4. call \in HostCall
    BY <2>1, CallParts
  <2>5. new \in HostCall /\ new.pc = "tunnelStopping" /\ new.kind = call.kind /\ new.child = t
    BY <2>3, <2>4 DEF HostCall, Pcs
  <2>6. calls' = [calls EXCEPT ![c] = new]
    BY <1>5, <2>1, <2>2, <2>4, CallParts DEF StopTunnel, HostCall
  <2> HIDE DEF new
  <2>7. InStep(new)'
    BY <1>1, <1>2, <2>1, <2>3, <2>5, CallParts
       DEF InStep, InPlace, Storing, Awaits, Pcs, gatewayVars, tunnelVars
  <2>8. raced = 0 => Shared' /\ CallAlone(new)'
    <3>1. dark' = dark
      BY <1>5 DEF StopTunnel
    <3> QED  BY <1>1, <1>2, <2>1, <2>5, <3>1, CallParts
             DEF Shared, CallAlone, gatewayVars, tunnelVars, fileVars
  <2> QED  BY <1>1, <1>2, <1>3, <2>5, <2>6, <2>7, <2>8, StepKeeps DEF At, Moves
<1> QED  BY <1>4, <1>5

(* When a process ends, all who wait for it go on.                         *)
LEMMA TunnelExitsStep == ASSUME Inv, NEW t \in Tunnels, TunnelExits(t)  PROVE Inv'
<1> DEFINE waits(call) == call.pc = "tunnelStopping" /\ call.child = t
           ends(call) == waits(call) /\ call.kind = "beat"
           next(call) == IF ends(call) THEN IdleCall
                         ELSE IF waits(call)
                         THEN [call EXCEPT !.pc = AfterTunnelStop[call.kind], !.child = None]
                         ELSE call
<1>1. /\ t \in live /\ live' = live \ {t} /\ strays' = strays \ {t}
      /\ child' = IF t \in strays THEN child ELSE None
      /\ calls' = [c \in Calls |-> next(calls[c])]
      /\ dark' = (dark \/ \E c \in Calls : ends(calls[c]))
      /\ UNCHANGED <<up, port, handle, fileVars, signVars, raced>>
  BY DEF TunnelExits, At, gatewayVars
<1>2. Handled /\ Filed /\ Signed /\ raced \in Nat
  BY DEF Inv, HostInv
<1>3. Handled'
  BY <1>1, <1>2, NoProcess DEF Handled
<1>4. Filed' /\ Signed' /\ raced' \in Nat
  BY <1>1, <1>2, SignedStays DEF Filed, fileVars
<1>5. ASSUME NEW call \in HostCall, InStep(call)
      PROVE  /\ next(call) \in HostCall /\ InStep(next(call))'
             /\ next(call) = call \/ next(call) = IdleCall
                  \/ (next(call).kind = call.kind /\ next(call).pc \in {"startTunnel", "exit"})
  <2>1. CASE ends(call)
    BY <2>1, IdleFields, IdleInStep
  <2>2. CASE waits(call) /\ ~ends(call)
    <3>1. call.kind \in {"tunnel", "stop"}
      BY <1>5, <2>2 DEF InStep, InPlace
    <3>2. PICK pc : pc = AfterTunnelStop[call.kind]
      OBVIOUS
    <3>3. \/ call.kind = "tunnel" /\ pc = "startTunnel"
          \/ call.kind = "stop" /\ pc = "exit"
      BY <3>1, <3>2 DEF AfterTunnelStop
    <3> DEFINE new == [call EXCEPT !.pc = pc, !.child = None]
    <3>4. new \in HostCall /\ new.kind = call.kind /\ new.pc = pc
      BY <3>3 DEF HostCall, Pcs
    <3>5. next(call) = new
      BY <2>2, <3>2
    <3> HIDE DEF new, next, waits, ends
    <3>6. InStep(new)'
      BY <1>1, <1>5, <3>1, <3>3, <3>4 DEF InStep, InPlace, Storing, Awaits, Pcs
    <3> QED  BY <3>3, <3>4, <3>5, <3>6
  <2>3. CASE ~waits(call)
    <3>1. next(call) = call
      BY <2>3
    <3>2. call.pc = "tunnelStopping" => call.child \in live' \ strays'
      BY <1>1, <1>5, <2>3 DEF InStep, Awaits
    <3>3. InStep(call)'
      BY <1>1, <1>5, <3>2 DEF InStep, InPlace, Storing, Awaits
    <3> QED  BY <3>1, <3>3
  <2> QED  BY <2>1, <2>2, <2>3
<1>6. ASSUME NEW c \in Calls  PROVE calls'[c] \in HostCall /\ InStep(calls[c])'
  <2>1. PICK call : call = calls[c]
    OBVIOUS
  <2>2. call \in HostCall /\ InStep(call) /\ calls'[c] = next(call)
    BY <1>1, <2>1, CallParts
  <2> HIDE DEF next
  <2> QED  BY <1>5, <2>2
<1>7. calls' \in [Calls -> HostCall]
  <2>1. calls' = [c \in Calls |-> calls'[c]]
    BY <1>1
  <2> QED  BY <1>6, <2>1
<1>8. HostInv'
  BY <1>3, <1>4, <1>6, <1>7 DEF HostInv
<1>9. ASSUME raced = 0  PROVE OneCall' /\ Shared' /\ \A c \in Calls : CallAlone(calls[c])'
  <2>1. OneCall /\ Shared /\ \A c \in Calls : CallAlone(calls[c])
    BY <1>9 DEF Inv, AloneInv
  <2>2. \A c \in Calls : /\ calls[c] \in HostCall /\ InStep(calls[c])
                         /\ calls'[c] = next(calls[c])
    BY <1>1, CallParts
  <2>3. ASSUME NEW c \in Calls
        PROVE  \/ calls'[c] = calls[c] \/ calls'[c] = IdleCall
               \/ /\ calls'[c].kind = calls[c].kind /\ calls'[c].pc \in {"startTunnel", "exit"}
                  /\ calls[c].pc # "idle"
    <3>1. PICK call \in HostCall : call = calls[c] /\ InStep(call) /\ calls'[c] = next(call)
      BY <2>2
    <3>2. call.pc = "idle" => next(call) = call
      OBVIOUS
    <3> HIDE DEF next
    <3> QED  BY <1>5, <3>1, <3>2
  <2>4. OneCall'
    BY <2>1, <2>3, IdleFields DEF OneCall, At
  <2>5. ASSUME NEW c \in Calls, ends(calls[c])
        PROVE  /\ port # "ours" /\ live' \ strays' = {}
               /\ \A o \in Calls : calls'[o].kind = "idle"
    <3>1. port # "ours"
      BY <2>1, <2>5 DEF CallAlone, fileVars
    <3>2. t \in live \ strays /\ live \ strays \subseteq {child}
      BY <2>1, <2>2, <2>5 DEF InStep, Awaits, Shared, fileVars
    <3>3. live' \ strays' = {}
      BY <1>1, <3>2
    <3>4. \A o \in Calls : o # c => calls[o].pc = "idle" /\ calls[o].kind = "idle"
      BY <2>1, <2>2, <2>5 DEF OneCall, At, InStep, InPlace
    <3>5. calls'[c] = IdleCall
      BY <2>2, <2>5
    <3>6. \A o \in Calls : o # c => calls'[o].kind = "idle"
      BY <2>3, <3>4, IdleFields
    <3> QED  BY <3>1, <3>3, <3>5, <3>6, IdleFields
  <2>6. Shared'
    <3>1. live' \ strays' \subseteq {child'}
      BY <1>1, <2>1 DEF Shared, fileVars
    <3>2. ASSUME dark'  PROVE port' # "ours" /\ live' \subseteq strays'
      <4>1. CASE dark
        BY <1>1, <2>1, <4>1 DEF Shared, fileVars
      <4>2. CASE \E c \in Calls : ends(calls[c])
        BY <1>1, <2>5, <4>2
      <4> QED  BY <1>1, <3>2, <4>1, <4>2
    <3> QED  BY <1>1, <2>1, <3>1, <3>2 DEF Shared, fileVars
  <2>7. ASSUME NEW c \in Calls  PROVE CallAlone(calls[c])'
    <3>1. CallAlone(calls[c])
      BY <2>1
    <3>2. /\ calls'[c].pc = "spawn" => calls[c].pc = "spawn"
          /\ calls'[c].kind = "beat" /\ calls'[c].pc \in {"stopTunnel", "tunnelStopping"}
               => calls[c].kind = "beat" /\ calls[c].pc \in {"stopTunnel", "tunnelStopping"}
          /\ calls'[c].kind \in {"idle", calls[c].kind}
      BY <2>3, IdleFields
    <3>3. child = None => child' = None
      BY <1>1
    <3>4. dark' => dark \/ calls'[c].kind = "idle"
      BY <1>1, <2>5
    <3>5. calls'[c].pc = "write" => calls'[c] = calls[c]
      BY <2>3, IdleFields
    <3> QED  BY <1>1, <3>1, <3>2, <3>3, <3>4, <3>5 DEF CallAlone, fileVars
  <2> QED  BY <2>4, <2>6, <2>7
<1> QED  BY <1>1, <1>8, <1>9 DEF Inv, AloneInv

LEMMA CliRestartsTunnelStep == ASSUME Inv, CliRestartsTunnel  PROVE Inv'
<1>1. PICK t \in Unused : live' = live \union {t} /\ strays' = strays \union {t}
  BY DEF CliRestartsTunnel
<1>2. UNCHANGED <<up, gatewayVars, child, fileVars, signVars, calls, raced>> /\ dark' = FALSE
  BY DEF CliRestartsTunnel
<1>3. t \in Tunnels /\ t # child /\ \A c \in Calls : calls[c].child # t
  BY <1>1 DEF Unused
<1>4. Handled /\ Filed /\ Signed /\ raced \in Nat
  BY DEF Inv, HostInv
<1>5. Handled' /\ Filed' /\ Signed' /\ raced' \in Nat
  BY <1>1, <1>2, <1>3, <1>4, SignedStays DEF Handled, Filed, fileVars, gatewayVars
<1>6. \A c \in Calls : InStep(calls[c])'
  BY <1>1, <1>2, <1>3, CallParts DEF InStep, InPlace, Storing, Awaits, gatewayVars
<1>7. HostInv'
  BY <1>2, <1>5, <1>6 DEF Inv, HostInv
<1>8. AloneInv'
  BY <1>1, <1>2 DEF Inv, AloneInv, OneCall, At, Shared, CallAlone, gatewayVars, fileVars
<1> QED  BY <1>7, <1>8 DEF Inv

-----------------------------------------------------------------------------
(* The secret store: one key of what was read is changed.  Signatures made *)
(* under the old secret end with it.                                       *)
LEMMA SignedOrReset ==
  ASSUME Signed, UNCHANGED <<clock, twice>>,
         \/ UNCHANGED <<sent, seen, taken>>
         \/ sent' = {} /\ seen' = {} /\ taken' = {}
  PROVE  Signed'
BY DEF Signed, Sealed

LEMMA FileChanges ==
  ASSUME NEW f \in File, NEW key, NEW value,
         \/ key = "device" /\ value \in {"held", "revoked"}
         \/ key = "tunnel" /\ value = TRUE
  PROVE  [f EXCEPT ![key] = value] \in File
<1>1. CASE key = "device" /\ value \in {"held", "revoked"}
  BY <1>1 DEF File
<1>2. CASE key = "tunnel" /\ value = TRUE
  BY <1>2 DEF File
<1> QED  BY <1>1, <1>2

LEMMA WriteFileStep == ASSUME Inv, NEW c \in Calls, WriteFile(c)  PROVE Inv'
<1>1. PICK call \in HostCall : call = calls[c]
  BY CallParts
<1>2. /\ call.pc = "write" /\ InStep(call) /\ call.file \in File
      /\ \/ call.key = "device" /\ call.value \in {"held", "revoked"}
         \/ call.key = "tunnel" /\ call.value = TRUE
  BY <1>1, CallParts DEF WriteFile, At, InStep, Storing
<1>3. /\ file' = [call.file EXCEPT ![call.key] = call.value]
      /\ told' = [told EXCEPT ![call.key] = call.value]
      /\ UNCHANGED <<up, gatewayVars, tunnelVars, clock, twice, raced, dark>>
  BY <1>1 DEF WriteFile, Written
<1>4. managed' \in BOOLEAN
  BY Zenon DEF WriteFile
<1>5. file' \in File /\ told' \in File
  BY <1>2, <1>3, FileChanges, CallParts DEF Filed
<1>6. Filed'
  BY <1>4, <1>5 DEF Filed
<1>7. Signed'
  BY <1>3, SignedOrReset, CallParts DEF WriteFile
<1>8. Handled' /\ OthersWait
  BY <1>3, CallParts DEF Handled, OthersWait, gatewayVars, tunnelVars
<1> DEFINE going == [IdleCall EXCEPT !.kind = call.kind, !.pc = call.next]
<1>9. PICK new : /\ calls' = [calls EXCEPT ![c] = new]
                 /\ \/ call.next = "end" /\ new = IdleCall
                    \/ call.next # "end" /\ new = going
  BY <1>1 DEF WriteFile
<1>10. \/ call.kind = "beat" /\ call.next \in {"answer", "stopGateway", "end"}
       \/ call.kind \in {"refresh", "setup"} /\ call.next \in {"fetch", "end"}
  BY <1>2 DEF InStep, Storing
<1>11. /\ going.kind = call.kind /\ going.pc = call.next
       /\ call.next # "end" => going \in HostCall
  BY <1>10 DEF IdleCall, HostCall, AllKinds, Pcs
<1> HIDE DEF going
<1>12. new \in HostCall /\ (new = IdleCall \/ (new.kind = call.kind /\ new.pc = call.next))
  BY <1>9, <1>11, IdleFields
<1>13. InStep(new)'
  <2>1. CASE new = IdleCall
    BY <2>1, IdleInStep
  <2>2. CASE new.kind = call.kind /\ new.pc = call.next /\ new # IdleCall
    BY <1>2, <1>3, <1>9, <1>10, <2>2
       DEF InStep, InPlace, Storing, Awaits, Pcs, gatewayVars, tunnelVars
  <2> QED  BY <1>12, <2>1, <2>2
<1>14. ASSUME raced = 0  PROVE Shared' /\ CallAlone(new)'
  <2>1. Shared /\ CallAlone(call)
    BY <1>1, <1>14, CallParts
  <2>2. file' = told'
    BY <1>2, <1>3, <2>1 DEF Shared, CallAlone
  <2>3. Shared'
    BY <1>3, <2>1, <2>2 DEF Shared, gatewayVars, tunnelVars
  <2>4. new.pc # "write" /\ (new = IdleCall \/ new.kind = call.kind)
    BY <1>10, <1>12, IdleFields
  <2>5. CallAlone(new)'
    BY <1>3, <1>10, <1>12, <2>1, <2>4, IdleFields DEF CallAlone, gatewayVars, tunnelVars
  <2> QED  BY <2>3, <2>5
<1> QED  BY <1>1, <1>2, <1>3, <1>6, <1>7, <1>8, <1>9, <1>12, <1>13, <1>14, StepKeeps DEF At, Moves

LEMMA BootedStep == ASSUME Inv, NEW c \in Calls, Booted(c)  PROVE Inv'
<1>1. calls[c].pc = "booted" /\ calls[c].kind = "boot"
  BY CallParts DEF Booted, At, InStep, InPlace
<1>2. /\ Goto(c, "end") /\ up' = "up"
      /\ UNCHANGED <<gatewayVars, tunnelVars, fileVars, signVars, raced, dark>>
  BY DEF Booted
<1>3. PICK new \in HostCall : Moves(c, new) /\ new = IdleCall
  BY <1>2, GotoMoves
<1>4. Handled' /\ Filed' /\ Signed' /\ OthersWait
  <2>1. Handled /\ Filed /\ Signed
    BY CallParts
  <2>2. Handled' /\ OthersWait
    BY <1>2, <2>1 DEF Handled, OthersWait, gatewayVars, tunnelVars
  <2> QED  BY <1>2, <2>1, <2>2, SignedStays DEF Filed, fileVars
<1>5. raced = 0 => Shared'
  BY <1>2, CallParts DEF Shared, gatewayVars, tunnelVars, fileVars
<1> QED  BY <1>1, <1>2, <1>3, <1>4, <1>5, IdleInStep, StepKeeps DEF At

LEMMA ExitStep == ASSUME Inv, NEW c \in Calls, Exit(c)  PROVE Inv'
<1>1. /\ up' = "down" /\ port' = (IF port = "ours" THEN "nobody" ELSE port)
      /\ handle' = FALSE /\ child' = None /\ strays' = live /\ live' = live
      /\ seen' = {} /\ taken' = {} /\ calls' = [o \in Calls |-> IdleCall]
      /\ UNCHANGED <<fileVars, clock, sent, twice, raced, dark>>
  BY DEF Exit
<1>2. Handled /\ Filed /\ Signed /\ raced \in Nat
  BY CallParts
<1>3. Handled' /\ Filed' /\ Signed' /\ raced' \in Nat
  BY <1>1, <1>2 DEF Handled, Filed, Signed, fileVars
<1>4. calls' \in [Calls -> HostCall] /\ \A o \in Calls : calls'[o] = IdleCall
  BY <1>1, IdleFields
<1>5. \A o \in Calls : InStep(calls[o])' /\ CallAlone(calls[o])'
  BY <1>4, IdleInStep
<1>6. raced = 0 => OneCall' /\ Shared'
  BY <1>1, <1>2, <1>4, IdleFields, CallParts DEF OneCall, At, Shared, Handled, fileVars
<1> QED  BY <1>1, <1>3, <1>4, <1>5, <1>6 DEF Inv, HostInv, AloneInv

-----------------------------------------------------------------------------
(* The initial states, every step, and a step of something else.           *)
LEMMA HostStarts == HostInit => Inv
<1> SUFFICES ASSUME HostInit  PROVE Inv
  OBVIOUS
<1>1. calls \in [Calls -> HostCall] /\ \A c \in Calls : calls[c] = IdleCall
  BY IdleFields DEF HostInit
<1>2. Handled /\ Filed /\ raced \in Nat
  BY DEF HostInit, Handled, Filed, File, Empty
<1>3. Signed
  BY HostBounds DEF HostInit, Signed
<1>4. OneCall /\ Shared
  BY <1>1, IdleFields DEF HostInit, OneCall, At, Shared, fileVars
<1> QED  BY <1>1, <1>2, <1>3, <1>4, IdleInStep DEF Inv, HostInv, AloneInv

LEMMA HostSteps == Inv /\ [HostNext]_hostVars => Inv'
<1> SUFFICES ASSUME Inv, [HostNext]_hostVars  PROVE Inv'
  OBVIOUS
<1>1. ASSUME NEW c \in Calls, BeginBoot(c) \/ BeginBeat(c) \/ BeginSetup(c) \/ BeginStop(c)
      PROVE Inv'
  BY <1>1, BeginBootStep, BeginBeatStep, BeginSetupStep, BeginStopStep
<1>2. ASSUME NEW c \in Calls, NEW kind \in Repairs, BeginRepair(c, kind)  PROVE Inv'
  BY <1>2, BeginRepairStep
<1>3. ASSUME NEW c \in Calls, StopGateway(c) \/ StartGateway(c)  PROVE Inv'
  BY <1>3, StopGatewayStep, StartGatewayStep
<1>4. ASSUME NEW c \in Calls,
             ReadCredential(c) \/ StopTunnel(c) \/ StartTunnel(c) \/ SpawnTunnel(c)
      PROVE Inv'
  BY <1>4, ReadCredentialStep, StopTunnelStep, StartTunnelStep, SpawnTunnelStep
<1>5. ASSUME NEW c \in Calls, ReadFile(c) \/ WriteFile(c) \/ LoadIdentity(c) \/ Answered(c)
      PROVE Inv'
  BY <1>5, ReadFileStep, WriteFileStep, LoadIdentityStep, AnsweredStep
<1>6. ASSUME NEW c \in Calls,
             Prompt(c) \/ Authorized(c) \/ FetchCredential(c) \/ Throws(c) \/ Booted(c) \/ Exit(c)
      PROVE Inv'
  BY <1>6, PromptStep, AuthorizedStep, FetchCredentialStep, ThrowsStep, BootedStep, ExitStep
<1>7. ASSUME NEW c \in Calls, NEW sig \in Signatures, Accept(c, sig)  PROVE Inv'
  BY <1>7, AcceptStep
<1>8. CASE GatewayStopped \/ CliRestartsTunnel \/ \E t \in Tunnels : TunnelExits(t)
  BY <1>8, GatewayStoppedStep, CliRestartsTunnelStep, TunnelExitsStep
<1>9. CASE RepairForm
  BY <1>9, SignStep DEF RepairForm
<1>10. CASE PortTaken \/ PortLeft \/ UnitToggles \/ Revoke \/ Tick
  BY <1>10, PortStep, UnitTogglesStep, RevokeStep, TickStep
<1>11. CASE UNCHANGED hostVars
  <2>1. Signed /\ port \in {"nobody", "ours", "other"}
    BY DEF Inv, HostInv, Handled
  <2> QED  BY <1>11, <2>1, SignedStays, AroundKeeps DEF hostVars, gatewayVars, tunnelVars, signVars
<1> QED  BY <1>1, <1>2, <1>3, <1>4, <1>5, <1>6, <1>7, <1>8, <1>9, <1>10, <1>11 DEF HostNext

-----------------------------------------------------------------------------
(* The invariant holds of every run of the host, however its activities,   *)
(* the CLI, Cloud and the network interleave.                              *)
THEOREM HostInvariance == HostSpec => []Inv
BY HostStarts, HostSteps, PTL DEF HostSpec

(* What the host holds is of its types, and what it observes of itself is  *)
(* an observation.                                                         *)
THEOREM HostTypeCorrect == HostSpec => []HostTypeOK
<1>1. ASSUME Inv  PROVE HostTypeOK
  <2>1. Handled /\ Filed /\ Signed
    BY <1>1 DEF Inv, HostInv
  <2>2. \A env \in Environments : Observed(env) \in Observations
    BY <2>1, ObservedIsTyped, EnvironmentsObserved
  <2> QED  BY <2>1, <2>2 DEF Handled, Filed, Signed, HostTypeOK
<1> QED  BY <1>1, HostInvariance, PTL

(* Doctor names the broken edge in every state the host can be in.         *)
THEOREM BrokenAlwaysExplained == HostSpec => []BrokenIsExplained
<1>1. ASSUME Inv  PROVE BrokenIsExplained
  <2>1. Handled /\ Filed
    BY <1>1 DEF Inv, HostInv
  <2>2. \A env \in Environments : Observed(env) \in Observations
    BY <2>1, ObservedIsTyped, EnvironmentsObserved
  <2> QED  BY <2>2, DoctorExplains DEF BrokenIsExplained
<1> QED  BY <1>1, HostInvariance, PTL

(* Where doctor advises a restart it can work, and where it blames another *)
(* process there is one.                                                   *)
THEOREM AdviceAlwaysWorks == HostSpec => []AdviceWorks
<1>1. ASSUME Inv  PROVE AdviceWorks
  <2>1. Handled /\ Filed
    BY <1>1 DEF Inv, HostInv
  <2> QED  BY <2>1, AdviceOf, EnvironmentsObserved DEF AdviceWorks
<1> QED  BY <1>1, HostInvariance, PTL

(* A running gateway accepts no signature twice, however often and however *)
(* late it is delivered: an entry of the cache outlives the window.        *)
THEOREM AcceptedAtMostOnce == HostSpec => []AcceptedOnce
<1>1. Inv => AcceptedOnce
  BY DEF Inv, HostInv, Signed, AcceptedOnce
<1> QED  BY <1>1, HostInvariance, PTL

(* While activities come one at a time the daemon has one cloudflared      *)
(* process, the one it can stop, and a daemon that is down has none.       *)
THEOREM OneTunnel == HostSpec => []OneTunnelWhenAlone
<1>1. Inv => OneTunnelWhenAlone
  BY DEF Inv, HostInv, AloneInv, Handled, Shared, OneTunnelWhenAlone
<1> QED  BY <1>1, HostInvariance, PTL

(* While activities come one at a time nothing that a revocation stopped   *)
(* is started again until someone repairs, sets up or restarts.            *)
THEOREM DarkStaysDark == HostSpec => []StaysDark
<1>1. Inv => StaysDark
  BY DEF Inv, AloneInv, Shared, StaysDark
<1> QED  BY <1>1, HostInvariance, PTL

(* While activities come one at a time the secret store holds what was     *)
(* last stored under each key: no write loses the other one's.             *)
THEOREM SecretsAreKept == HostSpec => []SecretsWhenAlone
<1>1. Inv => SecretsWhenAlone
  BY DEF Inv, AloneInv, Shared, SecretsWhenAlone
<1> QED  BY <1>1, HostInvariance, PTL
=============================================================================
