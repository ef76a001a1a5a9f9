-------------------------- MODULE MCManagedTunnels --------------------------
(* Instances of ManagedTunnels for TLC. *)
EXTENDS ManagedTunnels
=============================================================================
