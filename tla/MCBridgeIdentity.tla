-------------------------- MODULE MCBridgeIdentity --------------------------
(* Instances of BridgeIdentity for TLC. *)
EXTENDS BridgeIdentity, TLC
=============================================================================
