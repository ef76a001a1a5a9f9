--------------------------- MODULE MCRelayDevices ---------------------------
(* Instances of RelayDevices for TLC. *)
EXTENDS RelayDevices, TLC

(* Codes, ids and call slots of one kind are alike; every property checked *)
(* with it is an invariant or a step property.                             *)
Symmetry == Permutations(Codes) \union Permutations(Devices)
              \union Permutations(Creds) \union Permutations(Calls)
=============================================================================
