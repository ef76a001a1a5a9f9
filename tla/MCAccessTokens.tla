--------------------------- MODULE MCAccessTokens ---------------------------
(* Instances of AccessTokens for TLC. *)
EXTENDS AccessTokens, TLC

(* One client whose id is a URL that names ChatGPT and lists one callback, *)
(* and one that registers; a callback of ChatGPT and a loopback one.       *)
MCDocuments == "https" :> {"chatgpt"}

(* Ids of one table are alike, and so are call slots. *)
Symmetry == Permutations(Codes) \union Permutations(Refreshes) \union Permutations(Sessions)
              \union Permutations(Tickets) \union Permutations(Calls)
=============================================================================
