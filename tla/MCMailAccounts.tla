--------------------------- MODULE MCMailAccounts ---------------------------
EXTENDS MailAccounts, TLC

(* Members differ by who is an admin. *)
Symmetry == Permutations(Calls) \union Permutations(Accounts) \union Permutations(Creds)
              \union Permutations(Addresses)
=============================================================================
