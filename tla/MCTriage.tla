------------------------------ MODULE MCTriage ------------------------------
(* Instances of Triage for TLC: three messages that may be three events,   *)
(* or two when the second, which settles the first, joins it.              *)
EXTENDS Triage, TLC

CONSTANTS m1, m2, m3

Plain == [id |-> "p", content |-> "t", messageId |-> <<>>, references |-> <<>>, thread |-> <<>>,
          subject |-> "", participants |-> <<"a">>, signs |-> {},
          entities |-> [kind \in EntityKinds |-> ""], deadlines |-> {}, ttl |-> {},
          headers |-> {}, automated |-> "unset", bulk |-> "unset",
          auth |-> [check \in Checks |-> "none"], receivedAt |-> 0]

MCMessage ==
     m1 :> [Plain EXCEPT !.id = "p1", !.content = "t1", !.messageId = <<"i1">>,
              !.signs = {"new_login"}]
  @@ m2 :> [Plain EXCEPT !.id = "p2", !.content = "t2", !.references = <<"i1">>,
              !.signs = {"service_restored"}, !.receivedAt = 2]
  @@ m3 :> [Plain EXCEPT !.id = "p3", !.content = "t3", !.signs = {"code"}, !.receivedAt = 1]

Urgent == [status |-> "open", severity |-> "major", time |-> "today", harm |-> "none",
           marketing |-> FALSE, action |-> TRUE, briefing |-> FALSE]
(* The second is refused: it is over and asks for action. *)
MCJudgments == {Urgent, [Urgent EXCEPT !.status = "resolved"]}

Symmetry == Permutations(Events) \union Permutations(Calls)
=============================================================================
