----------------------------- MODULE MCRelayHost -----------------------------
EXTENDS RelayHost, TLC

(* What an observation finds: everything well, or one thing out of order,  *)
(* or Proton Bridge in one of its states.                                  *)
Well == [cloud |-> "reachable", secrets |-> [secure |-> TRUE, permissionsOk |-> TRUE],
         accounts |-> "all", binary |-> TRUE, version |-> "supported", imap |-> TRUE,
         mailwarden |-> FALSE, installed |-> TRUE, edge |-> TRUE]
MCEnvironments ==
  {Well} \union {[Well EXCEPT !.cloud = s] : s \in {"unconfigured", "unreachable"}}
    \union {[Well EXCEPT !.accounts = s] : s \in {"none", "some", "unreachable"}}
    \union {[Well EXCEPT !.version = v, !.imap = FALSE] : v \in Versions}
    \union {[Well EXCEPT !.binary = FALSE, !.imap = i] : i \in BOOLEAN}
    \union {[Well EXCEPT !.secrets = [secure |-> FALSE, permissionsOk |-> b]] : b \in BOOLEAN}
    \union {[Well EXCEPT !.mailwarden = TRUE], [Well EXCEPT !.installed = FALSE],
            [Well EXCEPT !.edge = FALSE]}

Symmetry == Permutations(Calls) \union Permutations(Tunnels)
=============================================================================
