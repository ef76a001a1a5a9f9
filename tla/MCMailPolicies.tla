--------------------------- MODULE MCMailPolicies ---------------------------
(* Instances of MailPolicies for TLC. *)
EXTENDS MailPolicies, TLC

MCLevels == <<"junk", "critical">>

(* They differ in what they do with junk. *)
MCPresetAction(preset, level) ==
  CASE level = "critical" -> "surface"
    [] level = "junk" /\ preset = "safe" -> "leave"
    [] OTHER -> "archive"

(* Two messages of one domain as they are ingested: without a              *)
(* classification and so with full confidence.                             *)
MCMessages ==
  {[message |-> "m1", thread |-> "t", sender |-> "s", domain |-> "d", relationship |-> "client",
    organization |-> "o", project |-> "p", account |-> "a", classification |-> None,
    confidence |-> 100],
   [message |-> "m2", thread |-> "t", sender |-> "s2", domain |-> "d", relationship |-> None,
    organization |-> "o", project |-> "p", account |-> "a", classification |-> None,
    confidence |-> 100]}

Ask(scope, target, action, priority, min, enabled) ==
  [scope |-> scope, target |-> target, action |-> action, priority |-> priority,
   min |-> min, enabled |-> enabled]
MCInputs ==
  {Ask("sender", "s", "leave", 0, 0, TRUE), Ask("relationship", "client", "delete", 90, 0, FALSE)}

(* "Everything from @d is important." *)
MCPrompts == {[words |-> {"important"}, sender |-> None, domain |-> "d"]}

Symmetry == Permutations(Ids) \union Permutations(Calls)
=============================================================================
