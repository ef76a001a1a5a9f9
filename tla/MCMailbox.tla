------------------------------ MODULE MCMailbox ------------------------------
EXTENDS Mailbox, TLC

(* Every message is of one sender and in one thread. *)
MCSenderOf(m) == "s1"
MCThreadOf(m) == "t1"

Symmetry == Permutations(Calls)
=============================================================================
