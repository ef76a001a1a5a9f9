---------------------------- MODULE MailPolicies ----------------------------
(***************************************************************************)
(* The mail rules of one user: src/services/policy.ts.  Rules are set,     *)
(* changed and removed, a preset replaces the system's rules, and every    *)
(* ingested message is acted upon as the first matching rule says.         *)
(*                                                                         *)
(* A call's statements are separate, no transaction spans them, and a      *)
(* message is acted upon by the rules as they were read: a call is a       *)
(* record whose pc names the statement it runs next.                       *)
(*                                                                         *)
(* The preset the user chose is also told by the user's preferences        *)
(* (src/services/user-preferences.ts), a row of its own that the first     *)
(* reader inserts.  Names and destinations are left out; so are            *)
(* suggestions, which nothing in the repository creates.                   *)
(***************************************************************************)
EXTENDS CallFrames, Naturals, Sequences, FiniteSets

CONSTANTS
  Ids,         \* ids of rules
  Messages,    \* a message is a record of what each scope is compared with
  Inputs,      \* what users ask for; priority and min are 0 when not given
  Presets,     \* preset names; "custom" is told of and has no rules of its own
  Prompts,     \* what users ask for in words
  Choices,     \* languages and other settings a user may choose
  Levels,      \* the classes of mail, in the order a preset's rules have
  PresetAction(_, _),  \* what a preset does with a class
  StatementsFail, \* whether a statement may fail
  MaxWrites,   \* bound: how often rules are set or a preset applied
  MaxIngested  \* bound: how many of the messages are ingested

Scopes == {"message", "thread", "sender", "domain", "relationship", "organization",
           "project", "account", "classification", "global"}
Default == "balanced"

ASSUME PresetsAssumption == Default \in Presets
ASSUME WritesAssumption == {MaxWrites, MaxIngested} \subseteq Nat /\ StatementsFail \in BOOLEAN
ASSUME NoIdAssumption == None \notin Ids \union Inputs \union Messages
ASSUME InputsAssumption ==
  \A input \in Inputs : /\ input.scope \in Scopes /\ input.enabled \in BOOLEAN
                       /\ input.priority \in Nat /\ input.min \in Nat
ASSUME LevelsAssumption == Levels \in Seq({Levels[k] : k \in 1..Len(Levels)})

VARIABLES
  rules,    \* table mail_policies, this user's rows
  writes,   \* the time a write takes as its createdAt
  ingested, \* messages ingested or being ingested
  acted,    \* table mailbox_actions; history: the rules the decision was made from
  own,      \* history: rows the user has set and not removed
  prefs,    \* table user_preferences, this user's row
  scene     \* bound: what the calls are about, "rules" or "preferences"

policyVars == <<rules, writes, calls, ingested, acted, own, prefs, scene>>

-----------------------------------------------------------------------------
LevelNames == {Levels[k] : k \in 1..Len(Levels)}
RuleOK(r) ==
  /\ r.scope \in Scopes /\ r.preset \in BOOLEAN /\ r.enabled \in BOOLEAN
  /\ r.priority \in Nat \ {0} /\ r.min \in Nat \ {0} /\ r.created \in 0..MaxWrites

NewPreferences == [onboarded |-> FALSE, preset |-> Default, settings |-> None]

Idle == [kind |-> "idle", pc |-> "idle", id |-> None, input |-> None, min |-> 0, now |-> 0,
         preset |-> None, left |-> 0, msg |-> None, read |-> {}, choice |-> None, seen |-> None]

PolicyInit ==
  /\ rules = [i \in {} |-> None]
  /\ writes = 0
  /\ calls = [c \in Calls |-> Idle]
  /\ ingested = {}
  /\ acted = [m \in Messages |-> None]
  /\ own = {}
  /\ scene \in {"rules", "preferences"}
  /\ prefs = IF scene = "rules" THEN NewPreferences ELSE None

Scenes(kind) ==
  CASE kind \in {"set", "ingest"} -> {"rules"} [] kind = "reset" -> {"rules", "preferences"}
    [] OTHER -> {"preferences"}
Start(c, call) ==
  /\ scene \in Scenes(call.kind)
  /\ calls[c].kind = "idle" /\ calls' = [calls EXCEPT ![c] = call]
Finish(c) == calls' = [calls EXCEPT ![c] = Idle]

Put(id, row) == [i \in DOMAIN rules \union {id} |-> IF i = id THEN row ELSE rules[i]]
Without(ids) == [i \in DOMAIN rules \ ids |-> rules[i]]

-----------------------------------------------------------------------------
(* setPolicy *)
PriorityFlat(input) ==                     \* a sender's rule gets no priority of its own
  IF input.priority > 0 THEN input.priority ELSE IF input.scope = "message" THEN 100 ELSE 60
PriorityAsGiven(input) == input.priority   \* a priority that is not given stays undefined
Priority(input) ==
  CASE input.priority > 0 -> input.priority
    [] input.priority = 0 /\ input.scope = "message"      -> 100
    [] input.priority = 0 /\ input.scope = "sender"       -> 80
    [] input.priority = 0 /\ input.scope = "relationship" -> 70
    [] OTHER -> 60

MinOr(input, default) == IF input.min > 0 THEN input.min ELSE default

NewRule(input, now) ==
  [scope |-> input.scope, target |-> input.target, action |-> input.action,
   min |-> MinOr(input, 80), priority |-> Priority(input), preset |-> FALSE,
   name |-> None, enabled |-> input.enabled, created |-> now]

(* An update keeps who named the row and when it was created. *)
ChangedKeptAsPreset(row, input, min) ==    \* a customised preset stays the system's
  [row EXCEPT !.scope = input.scope, !.target = input.target, !.action = input.action,
              !.min = MinOr(input, min), !.priority = Priority(input), !.enabled = input.enabled]
Changed(row, input, min) ==
  [row EXCEPT !.scope = input.scope, !.target = input.target, !.action = input.action,
              !.min = MinOr(input, min), !.priority = Priority(input), !.enabled = input.enabled,
              !.preset = FALSE]

(* createConversationalPolicy: a prompt is the words found in it, the       *)
(* sender and the domain it names.  The first of the patterns that fits    *)
(* wins, so "never archive newsletters" archives them.                     *)
Asked(scope, target, action) ==
  [scope |-> scope, target |-> target, action |-> action, priority |-> 0, min |-> 80, enabled |-> TRUE]
Understood(p) ==
  IF {"archive", "newsletter"} \subseteq p.words THEN Asked("classification", "newsletter", "archive")
  ELSE IF {"never archive", "recruiter"} \subseteq p.words THEN Asked("relationship", "recruiter", "leave")
  ELSE IF "client" \in p.words /\ {"important", "critical"} \cap p.words # {} THEN
         Asked("relationship", "client", "prioritize")
  ELSE IF "receipt" \in p.words THEN Asked("classification", "financial", "label")
  ELSE IF {"github", "routine"} \subseteq p.words THEN Asked("sender", "notifications@github.com", "leave")
  ELSE IF p.domain # None THEN Asked("domain", p.domain, "prioritize")
  ELSE IF p.sender # None THEN
         Asked("sender", p.sender, IF "archive" \in p.words THEN "archive" ELSE "leave")
  ELSE IF "never delete" \in p.words THEN Asked("global", None, "leave")
  ELSE Asked("classification", None, "leave")

(* A caller names a rule there is, or none; it may go before it is found. *)
SetBegin(c, id, input) ==
  /\ writes < MaxWrites /\ id \in DOMAIN rules \union {None}
  /\ Start(c, [Idle EXCEPT !.kind = "set", !.pc = IF id = None THEN "insert" ELSE "find",
                           !.id = id, !.input = input, !.now = writes])
  /\ writes' = writes + 1
  /\ UNCHANGED <<rules, ingested, acted, own, prefs>>

SetFind(c) ==
  /\ At(c, "find")
  /\ LET id == calls[c].id IN
       Go(c, IF id \in DOMAIN rules
               THEN [calls[c] EXCEPT !.pc = "update", !.min = rules[id].min]
               ELSE [calls[c] EXCEPT !.pc = "insert"])
  /\ UNCHANGED <<rules, writes, ingested, acted, own, prefs>>

SetUpdate(c) ==
  /\ At(c, "update") /\ calls[c].id \in DOMAIN rules
  /\ LET call == calls[c] IN
       /\ rules' = Put(call.id, Changed(rules[call.id], call.input, call.min))
       /\ own' = own \union {call.id}
  /\ Finish(c)
  /\ UNCHANGED <<writes, ingested, acted, prefs>>

(* The row has gone since it was found: no row is written, and the call    *)
(* throws when it reads the saved one.                                     *)
SetMissed(c) ==
  /\ At(c, "update") /\ calls[c].id \notin DOMAIN rules
  /\ Finish(c)
  /\ UNCHANGED <<rules, writes, ingested, acted, own, prefs>>

(* An id that was given and not found is the new row's id. *)
SetInsert(c) ==
  /\ At(c, "insert")
  /\ \E id \in Ids \ DOMAIN rules :
       /\ calls[c].id \in {None, id}
       /\ rules' = Put(id, NewRule(calls[c].input, calls[c].now))
       /\ own' = own \union {id}
  /\ Finish(c)
  /\ UNCHANGED <<writes, ingested, acted, prefs>>

(* The given id has been inserted meanwhile: the primary key refuses. *)
SetRefused(c) ==
  /\ At(c, "insert") /\ calls[c].id \in DOMAIN rules
  /\ Finish(c)
  /\ UNCHANGED <<rules, writes, ingested, acted, own, prefs>>

(* removePolicy *)
Remove(id) ==
  /\ id \in DOMAIN rules
  /\ rules' = Without({id})
  /\ own' = own \ {id}
  /\ UNCHANGED <<writes, calls, ingested, acted, prefs>>

-----------------------------------------------------------------------------
(* getPreferences: the first reader inserts the row; of two first readers  *)
(* one is refused by the unique index.  What else the call does follows.   *)
AfterPreferences(c, row) ==
  IF calls[c].kind = "look" THEN Finish(c)
  ELSE Go(c, [calls[c] EXCEPT !.pc = "store", !.seen = row.settings])
ReadPreferences(c) ==
  /\ At(c, "prefs")
  /\ IF prefs # None THEN AfterPreferences(c, prefs)
     ELSE Go(c, [calls[c] EXCEPT !.pc = "seed"])
  /\ UNCHANGED <<rules, writes, ingested, acted, own, prefs>>

SeedPreferences(c) ==
  /\ At(c, "seed")
  /\ IF prefs = None THEN prefs' = NewPreferences /\ AfterPreferences(c, NewPreferences)
     ELSE UNCHANGED prefs /\ Finish(c)
  /\ UNCHANGED <<rules, writes, ingested, acted, own>>

(* get_mail_policies, get_onboarding_status, get_settings, get_product_help *)
(* and GET /api/preferences only read.                                     *)
LookBegin(c) ==
  /\ prefs = None /\ Start(c, [Idle EXCEPT !.kind = "look", !.pc = "prefs"])
  /\ UNCHANGED <<rules, writes, ingested, acted, own, prefs>>

(* updatePreferences for POST /api/preferences: a preset told there is not  *)
(* applied.                                                                *)
TellBegin(c, preset, choice) ==
  /\ writes < MaxWrites /\ <<preset, choice>> # <<None, None>>
  /\ Start(c, [Idle EXCEPT !.kind = "tell", !.pc = "prefs", !.preset = preset, !.choice = choice])
  /\ writes' = writes + 1
  /\ UNCHANGED <<rules, ingested, acted, own, prefs>>

(* The tool complete_onboarding tells the preset and then applies it; the   *)
(* tool reset_mail_policies applies it and then tells it.  (Among rules a   *)
(* reset to the default is left to the messages that apply it.)            *)
OnboardBegin(c, preset, choice) ==
  /\ writes < MaxWrites
  /\ Start(c, [Idle EXCEPT !.kind = "onboard", !.pc = "prefs", !.preset = preset, !.choice = choice])
  /\ UNCHANGED <<rules, writes, ingested, acted, own, prefs>>
ResetBegin(c, preset) ==
  /\ writes < MaxWrites /\ preset # "custom" /\ (preset = Default => scene = "preferences")
  /\ Start(c, [Idle EXCEPT !.kind = "reset", !.pc = "wipe", !.preset = preset])
  /\ UNCHANGED <<rules, writes, ingested, acted, own, prefs>>

(* An update writes the columns it was given; the end of the onboarding    *)
(* writes all of them, those it was not given as it read them.             *)
StorePreferences(c) ==
  /\ At(c, "store")
  /\ LET call == calls[c] IN
       /\ prefs' = [onboarded |-> prefs.onboarded \/ call.kind = "onboard",
                    preset |-> IF call.preset # None THEN call.preset ELSE prefs.preset,
                    settings |-> IF call.choice # None THEN call.choice
                                 ELSE IF call.kind = "onboard" THEN call.seen ELSE prefs.settings]
       /\ IF call.kind = "onboard" THEN Go(c, [call EXCEPT !.pc = "wipe"]) ELSE Finish(c)
  /\ UNCHANGED <<rules, writes, ingested, acted, own>>

-----------------------------------------------------------------------------
(* applyPreset, called by the tools above, when the user registers (a      *)
(* failure is swallowed there) and for a message without enabled rules.    *)
RegisterBegin(c) ==
  /\ writes = 0 /\ ingested = {} /\ prefs = None /\ \A d \in Calls : calls[d] = Idle
  /\ Start(c, [Idle EXCEPT !.kind = "register", !.pc = "wipe"])
  /\ UNCHANGED <<rules, writes, ingested, acted, own, prefs>>

PresetWipe(c) ==
  /\ At(c, "wipe") /\ writes < MaxWrites
  /\ rules' = Without({i \in DOMAIN rules : rules[i].preset})
  /\ Go(c, [calls[c] EXCEPT !.pc = "fill", !.left = Len(Levels), !.now = writes])
  /\ writes' = writes + 1
  /\ UNCHANGED <<ingested, acted, own, prefs>>

Filled(preset) == IF preset \in {None, "custom"} THEN Default ELSE preset
PresetRule(preset, level, now) ==
  [scope |-> "classification", target |-> level, action |-> PresetAction(preset, level),
   min |-> IF preset = "inbox_zero" THEN 75 ELSE 80, priority |-> 50, preset |-> TRUE, name |-> preset, enabled |-> TRUE,
   created |-> now]

PresetFill(c) ==
  /\ At(c, "fill") /\ calls[c].left > 0
  /\ LET call == calls[c]
         level == Levels[Len(Levels) - call.left + 1] IN
       /\ \E id \in Ids \ DOMAIN rules :
            rules' = Put(id, PresetRule(Filled(call.preset), level, call.now))
       /\ Go(c, [call EXCEPT !.left = @ - 1])
  /\ UNCHANGED <<writes, ingested, acted, own, prefs>>

PresetEnd(c) ==
  /\ At(c, "fill") /\ calls[c].left = 0 /\ calls[c].kind # "ingest"
  /\ IF calls[c].kind = "reset" THEN Go(c, [calls[c] EXCEPT !.pc = "prefs"]) ELSE Finish(c)
  /\ UNCHANGED <<rules, writes, ingested, acted, own, prefs>>

-----------------------------------------------------------------------------
(* evaluatePolicies *)
Fits(r, m) == r.scope = "global" \/ r.target = m[r.scope]

(* The scopes one loop of the code looks for together; "project" is in     *)
(* none of them.                                                           *)
Steps == <<{"message", "thread"}, {"sender", "domain"}, {"relationship"},
           {"organization"}, {"account"}, {"classification"}, {"global"}>>

Found(read, m, k) == {r \in read : r.scope \in Steps[k] /\ Fits(r, m)}

(* Rows come by priority and then the newest first; user-defined rules     *)
(* for a class of mail are sorted before the presets'.                     *)
Ahead(r, s) == r.priority > s.priority \/ (r.priority = s.priority /\ r.created > s.created)
Firsts(S) == {r \in S : \A s \in S : ~Ahead(s, r)}
Users(S) == {r \in S : ~r.preset}

Matched(read, m) ==
  LET steps == {k \in 1..Len(Steps) : Found(read, m, k) # {}}
      first == CHOOSE k \in steps : \A j \in steps : k <= j
      found == Found(read, m, first)
  IN  IF steps = {} THEN {None}
      ELSE IF Steps[first] = {"classification"} /\ Users(found) # {}
           THEN Firsts(Users(found)) ELSE Firsts(found)

(* A rule less sure than it asks to be leaves the message; a preset never  *)
(* deletes one.                                                            *)
Applied(r, m) ==
  IF r = None THEN "leave"
  ELSE IF m.confidence < r.min THEN "leave"
  ELSE IF r.action = "delete" /\ r.preset THEN "archive" ELSE r.action

(* ingestEmail: a message is evaluated once, by the call that inserts it,  *)
(* and without a classification: rules for a class of mail wait for the    *)
(* judgment of the event.                                                  *)
IngestBegin(c, m) ==
  /\ m \notin ingested /\ Cardinality(ingested) < MaxIngested
  /\ Start(c, [Idle EXCEPT !.kind = "ingest", !.pc = "rules", !.msg = m])
  /\ ingested' = ingested \union {m}
  /\ UNCHANGED <<rules, writes, acted, own, prefs>>

Rows(ids) == {rules[i] : i \in ids}
Enabled == {i \in DOMAIN rules : rules[i].enabled}

IngestRead(c) ==
  /\ At(c, "rules")
  /\ Go(c, IF Enabled = {} THEN [calls[c] EXCEPT !.pc = "wipe"]
             ELSE [calls[c] EXCEPT !.pc = "act", !.read = Rows(Enabled)])
  /\ UNCHANGED <<rules, writes, ingested, acted, own, prefs>>

(* The rules a preset's application returns are all of the user's, the     *)
(* disabled ones included.                                                 *)
IngestReread(c) ==
  /\ At(c, "fill") /\ calls[c].left = 0 /\ calls[c].kind = "ingest"
  /\ Go(c, [calls[c] EXCEPT !.pc = "act", !.read = Rows(DOMAIN rules)])
  /\ UNCHANGED <<rules, writes, ingested, acted, own, prefs>>

(* executePolicy: the action's row, and the flags that go with it. *)
IngestAct(c) ==
  /\ At(c, "act")
  /\ LET call == calls[c] IN
       \E r \in Matched(call.read, call.msg) :
         acted' = [acted EXCEPT ![call.msg] =
                     [rule |-> r, action |-> Applied(r, call.msg),
                      matching |-> {s \in call.read : s.scope # "project" /\ Fits(s, call.msg)}]]
  /\ Finish(c)
  /\ UNCHANGED <<rules, writes, ingested, own, prefs>>

(* A statement fails and the call with it: a preset may stay half applied  *)
(* and a message without its action.                                       *)
GiveUp(c) ==
  /\ StatementsFail
  /\ calls[c].pc \in {"prefs", "store", "wipe", "fill", "act"}
  /\ Finish(c)
  /\ UNCHANGED <<rules, writes, ingested, acted, own, prefs>>

(* The API's rules: set, or removed by their id.                           *)
PolicyRoutes ==
  \/ \E c \in Calls, id \in Ids \union {None}, input \in Inputs : SetBegin(c, id, input)
  \/ \E id \in Ids : scene = "rules" /\ Remove(id)

Next ==
  /\ scene' = scene
  /\ \/ PolicyRoutes
     \/ \E c \in Calls :
          \/ \E p \in Prompts : SetBegin(c, None, Understood(p))
          \/ SetFind(c) \/ SetUpdate(c) \/ SetMissed(c) \/ SetInsert(c) \/ SetRefused(c)
          \/ ReadPreferences(c) \/ SeedPreferences(c) \/ StorePreferences(c) \/ LookBegin(c)
          \/ \E preset \in Presets \union {None}, choice \in Choices \union {None} :
               TellBegin(c, preset, choice)
          \/ \E preset \in Presets, choice \in Choices \union {None} : OnboardBegin(c, preset, choice)
          \/ \E preset \in Presets : ResetBegin(c, preset)
          \/ RegisterBegin(c)
          \/ PresetWipe(c) \/ PresetFill(c) \/ PresetEnd(c)
          \/ \E m \in Messages : IngestBegin(c, m)
          \/ IngestRead(c) \/ IngestReread(c) \/ IngestAct(c)
          \/ GiveUp(c)

PolicySpec == PolicyInit /\ [][Next]_policyVars

-----------------------------------------------------------------------------
(* Every stored rule has a scope, a priority and a confidence, every call  *)
(* is at a statement of its own, and an action belongs to an ingested      *)
(* message.                                                                *)
PolicyTypeOK ==
  /\ DOMAIN rules \subseteq Ids /\ own \subseteq Ids
  /\ \A i \in DOMAIN rules : RuleOK(rules[i])
  /\ writes \in 0..MaxWrites
  /\ \A c \in Calls :
       /\ calls[c].kind \in {"idle", "set", "look", "tell", "onboard", "reset", "register", "ingest"}
       /\ calls[c].pc \in {"idle", "find", "update", "insert", "prefs", "seed", "store", "wipe",
                           "fill", "rules", "act"}
       /\ \A r \in calls[c].read : RuleOK(r)
  /\ {m \in Messages : acted[m] # None} \subseteq ingested
  /\ prefs # None => prefs.preset \in Presets /\ prefs.settings \in Choices \union {None}

(* The order evaluatePolicies documents: how specific a rule is. *)
Precedence(r) ==
  CASE r.scope = "message" -> 700 [] r.scope = "thread" -> 600 [] r.scope = "sender" -> 500
    [] r.scope = "domain" -> 450 [] r.scope = "relationship" -> 400
    [] r.scope = "organization" -> 300 [] r.scope = "account" -> 200
    [] r.scope = "classification" /\ ~r.preset -> 150
    [] r.scope = "classification" /\ r.preset -> 100 [] OTHER -> 10

(* With the priorities the service itself gives, a message is acted upon   *)
(* by the most specific of the rules that were read and match it, whatever *)
(* the order in which they were set, changed and preset; and it is left    *)
(* alone only when none matches.  (A user who gives a domain's rule a      *)
(* priority above a sender's puts it first.)                               *)
MostSpecificWins ==
  \A m \in Messages : acted[m] # None =>
    LET d == acted[m] IN
      IF d.matching = {} THEN d.rule = None
      ELSE (\A r \in d.matching : r.preset \/ r.priority = Priority([r EXCEPT !.priority = 0]))
             => d.rule \in d.matching /\ \A r \in d.matching : Precedence(r) <= Precedence(d.rule)

(* What the user has set stays until the user removes it: no preset, asked *)
(* for or applied on a message's account, takes a rule the user wrote or   *)
(* customised, however the calls overlap.                                  *)
OwnRulesStay == own \subseteq DOMAIN rules

(* The preset the user is told is active is the one whose rules are there. *)
(* It is not always: a message without enabled rules applies the default,  *)
(* POST /api/preferences tells and applies nothing, the end of an          *)
(* onboarding may fail between the two, and resets may overlap.            *)
ToldIsApplied ==
  prefs # None /\ (\A c \in Calls : calls[c] = Idle) =>
    \A i \in DOMAIN rules : rules[i].preset => rules[i].name = Filled(prefs.preset)

(* A disabled rule acts on no message.  It does: when no rule is enabled   *)
(* the preset is applied and every row, the disabled ones too, is used.    *)
OnlyEnabledActs ==
  \A m \in Messages : acted[m] # None => (acted[m].rule = None \/ acted[m].rule.enabled)
=============================================================================
