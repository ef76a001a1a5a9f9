---------------------------- MODULE MCSendGuard ----------------------------
(* Instances of SendGuard for TLC. *)
EXTENDS SendGuard, TLC

(* Nothing tells apart two ids of one kind; the properties checked with it *)
(* are invariants and step properties.                                     *)
Symmetry == Permutations(Texts) \union Permutations(Senders)
              \union Permutations(Confirmers) \union Permutations(Approvals)
=============================================================================
