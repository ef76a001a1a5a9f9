---------------------------- MODULE MCMembership ----------------------------
(* Instances of Registration, and of Membership within it, for TLC. *)
EXTENDS Registration, TLC

CONSTANTS Here, There, u1, u2, u3, u4

(* The founder's address is not registered again; two ids are at hand for  *)
(* one address, so that a registration may fail and come again.            *)
MCAddress == [u \in Users |-> IF u = u1 THEN u1 ELSE IF u = u2 THEN There ELSE Here]
MCAddresses == {u1, Here, There}

(* The ids of one address are alike, and so are invitations, codes and     *)
(* call slots.                                                             *)
Symmetry == Permutations(Users \ {u1, u2}) \union Permutations(Invites)
              \union Permutations(Calls)
=============================================================================
