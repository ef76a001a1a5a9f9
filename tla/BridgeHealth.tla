---------------------------- MODULE BridgeHealth ----------------------------
(***************************************************************************)
(* What a bridge makes of what it observes: packages/relay/src/            *)
(* observation.ts, and the state of Proton Bridge that packages/proton/src/*)
(* discovery.ts reports to it.  Pure: an observation goes in, the health   *)
(* that a heartbeat carries and the diagnostics of `doctor` come out.      *)
(***************************************************************************)

(* discoverProtonBridge: a binary, the version it states, and whether      *)
(* anything answers at the IMAP port.                                      *)
Versions == {"unreadable", "old", "supported"}
DiscoverProton(binary, version, answering) ==
  IF ~binary THEN (IF answering THEN "running" ELSE "not_installed")
  ELSE IF version = "old" THEN "unsupported_version"
  ELSE IF answering THEN "running"
  ELSE IF version = "unreadable" THEN "unknown"
  ELSE "stopped"

Observations ==
  [identity : {"none", "revoked", "registered"},
   cloud    : {"unconfigured", "unreachable", "reachable"},
   secrets  : [secure : BOOLEAN, permissionsOk : BOOLEAN],
   proton   : {"running", "not_installed", "unsupported_version", "unknown", "stopped"},
   gateway  : [listening : BOOLEAN, portConflict : BOOLEAN],
   tunnel   : [managed : BOOLEAN, installed : BOOLEAN, credentialPresent : BOOLEAN,
               running : BOOLEAN, ready : BOOLEAN],
   accounts : {"none", "all", "some", "unreachable"}]

-----------------------------------------------------------------------------
(* buildComponentHealth *)
TunnelHealth(t) ==
  IF ~t.managed THEN "unknown"
  ELSE IF ~t.installed THEN "needs_attention"
  ELSE IF t.ready THEN "ok"
  ELSE IF t.running THEN "degraded"
  ELSE "down"

buildComponentHealth(o) ==
  [deviceIdentity |-> CASE o.identity = "none"    -> "needs_attention"
                        [] o.identity = "revoked" -> "down"
                        [] OTHER                  -> "ok",
   cloud |-> CASE o.cloud = "unconfigured" -> "unknown"
               [] o.cloud = "reachable"    -> "ok"
               [] OTHER                    -> "down",
   gateway |-> IF o.gateway.listening THEN "ok"
               ELSE IF o.gateway.portConflict THEN "needs_attention" ELSE "down",
   protonBridge |-> CASE o.proton = "running" -> "ok"
                      [] o.proton = "unknown" -> "unknown"
                      [] o.proton = "stopped" -> "down"
                      [] OTHER                -> "needs_attention",
   tunnel |-> TunnelHealth(o.tunnel),
   accounts |-> CASE o.accounts = "none" -> "unknown"
                  [] o.accounts = "all"  -> "ok"
                  [] o.accounts = "some" -> "degraded"
                  [] OTHER               -> "down"]

Is(components, statuses) == \E c \in DOMAIN components : components[c] \in statuses
aggregateRelayStatus(components) ==
  IF components.deviceIdentity = "down" THEN "needs_attention"
  ELSE IF components.deviceIdentity = "needs_attention" THEN "provisioning"
  ELSE IF "down" \in {components.gateway, components.tunnel} THEN "offline"
  ELSE IF Is(components, {"needs_attention"}) THEN "needs_attention"
  ELSE IF Is(components, {"degraded", "down"}) THEN "degraded"
  ELSE "online"

buildHealth(o) == aggregateRelayStatus(buildComponentHealth(o))

-----------------------------------------------------------------------------
(* buildDiagnostics: of each part what fails, its severity and who can     *)
(* mend it, in the order of causes; None where the part passes.            *)
Fails(id, severity, remediation) == [id |-> id, severity |-> severity, by |-> remediation]
Passes == Fails("none", "info", "none")

IdentityDiagnosis(identity) ==
  CASE identity = "none"    -> Fails("device.identity.missing", "error", "user_action")
    [] identity = "revoked" -> Fails("device.identity.revoked", "error", "user_action")
    [] OTHER                -> Passes
CloudDiagnosis(cloud) ==
  CASE cloud = "unconfigured" -> Fails("cloud.unconfigured", "error", "user_action")
    [] cloud = "unreachable"  -> Fails("cloud.unreachable", "error", "administrator")
    [] OTHER                  -> Passes
SecretsDiagnosis(s) ==
  IF ~s.secure THEN Fails("secrets.backend", "warning", "administrator")
  ELSE IF ~s.permissionsOk THEN Fails("secrets.permissions", "error", "automatic")
  ELSE Passes
ProtonDiagnosis(proton) ==
  CASE proton = "running"             -> Passes
    [] proton = "not_installed"       -> Fails("proton.not_installed", "error", "proton_login")
    [] proton = "stopped"             -> Fails("proton.stopped", "error", "administrator")
    [] proton = "unsupported_version" ->
         Fails("proton.unsupported_version", "warning", "administrator")
    [] OTHER                          -> Fails("proton.unknown", "warning", "administrator")
GatewayDiagnosis(g) ==
  IF g.portConflict THEN Fails("gateway.port_conflict", "error", "administrator")
  ELSE IF ~g.listening THEN Fails("gateway.down", "error", "automatic")
  ELSE Passes
RunningPasses(t) ==              \* a tunnel that runs without an edge connection passes
  IF ~t.managed THEN Passes
  ELSE IF ~t.installed THEN Fails("tunnel.cloudflared_missing", "error", "administrator")
  ELSE IF ~t.credentialPresent THEN Fails("tunnel.credential_missing", "error", "user_action")
  ELSE IF ~t.running THEN Fails("tunnel.not_ready", "error", "automatic")
  ELSE Passes
TunnelDiagnosis(t) ==
  IF ~t.managed THEN Passes
  ELSE IF ~t.installed THEN Fails("tunnel.cloudflared_missing", "error", "administrator")
  ELSE IF ~t.credentialPresent THEN Fails("tunnel.credential_missing", "error", "user_action")
  ELSE IF ~t.ready THEN Fails("tunnel.not_ready", "error", "automatic")
  ELSE Passes

buildDiagnostics(o) ==
  [deviceIdentity |-> IdentityDiagnosis(o.identity), cloud |-> CloudDiagnosis(o.cloud),
   secrets |-> SecretsDiagnosis(o.secrets), protonBridge |-> ProtonDiagnosis(o.proton),
   gateway |-> GatewayDiagnosis(o.gateway), tunnel |-> TunnelDiagnosis(o.tunnel)]

Overall(diagnostics) ==
  LET severities == {diagnostics[part].severity : part \in DOMAIN diagnostics} IN
  IF "error" \in severities THEN "unhealthy"
  ELSE IF "warning" \in severities THEN "degraded"
  ELSE "healthy"

-----------------------------------------------------------------------------
(* Doctor names the broken edge (buildDiagnostics): whatever the health    *)
(* shows as down, degraded or in need of attention has a failing           *)
(* diagnostic, and a relay that is offline, provisioning or revoked is     *)
(* unhealthy.  The accounts have no diagnostic of their own.               *)
Explained(o) ==
  LET components  == buildComponentHealth(o)
      diagnostics == buildDiagnostics(o)
  IN
  /\ \A part \in DOMAIN components \ {"accounts"} :
       components[part] \in {"down", "degraded", "needs_attention"} => diagnostics[part] # Passes
  /\ buildHealth(o) \in {"offline", "provisioning"} \/ o.identity = "revoked" =>
       Overall(diagnostics) = "unhealthy"
=============================================================================
