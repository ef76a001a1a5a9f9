----------------------------- MODULE InboxProofs -----------------------------
(***************************************************************************)
(* Proofs about the inbox: Triage, Mailbox and MailPolicies.  The three    *)
(* share the frames of their calls; each theorem speaks of one of them,    *)
(* and names its specification.                                            *)
(***************************************************************************)
EXTENDS Triage, Mailbox, MailPolicies, FiniteSetTheorems,
        WellFoundedInduction, TLAPS

-----------------------------------------------------------------------------
(* Triage.  What a call holds at each of its statements: the event it      *)
(* joins, judges or links is a row, and so is every event another row      *)
(* names.                                                                  *)
Row(e) == e \in Events /\ events[e] # None
Joining == {"redirect", "join", "keys", "touch", "flag", "supersede"}
Holding == Joining \union Judging \union Merging

TurnSound(call) ==
  /\ call.pc \in Recording => call.mail # None
  /\ call.pc \in Recording \ {"touch", "flag", "supersede"} => call.left # <<>>
  /\ call.pc \in Holding => Row(call.event)
  /\ call.pc \in Merging => Row(call.other) /\ call.into \in {None, call.other}
  /\ call.pc = "child" => call.into = call.other
  /\ call.pc = "save" => call.judgment # None /\ Accepted(call.judgment)
TurnInv == \A c \in Calls : TurnSound(calls[c])

NamedInv ==
  /\ \A m \in Mails : member[m] # None => Row(member[m])
  /\ \A k \in Keys : keys[k] # None => Row(keys[k])
  /\ \A e \in Events : decisions[e] # None => Row(e) /\ Accepted(decisions[e].judgment)
  /\ \A e \in Events : Row(e) /\ events[e].into # None => Row(events[e].into)

EventInv == TriageTypeOK /\ TurnInv /\ NamedInv

(* As long as merges come one at a time no event is merged into one that   *)
(* is itself merged, and the one merge under way finds both as it read     *)
(* them.                                                                   *)
OneMerge == \A c, d \in Calls : calls[c].pc \in Merging /\ calls[d].pc \in Merging => c = d
Flat == \A e \in Events : Row(e) /\ events[e].into # None => Canonical(events[e].into)
Apart(call) == Canonical(call.event) /\ Canonical(call.other) /\ call.event # call.other
LinkSound(call) ==
  /\ call.pc = "child" => Apart(call)
  /\ call.pc = "link" /\ call.into # None => Apart(call) /\ Childless(call.event)
  /\ call.pc = "link" /\ call.into = None => events[call.event].into = call.other
MergeInv == "merge" \notin mixed => OneMerge /\ Flat /\ \A c \in Calls : LinkSound(calls[c])

(* While an agent judges, nothing is recorded and nothing merged; what it  *)
(* was shown is the event as it is.  A call that changes an event flags    *)
(* its judgment before it ends (Owes), and one about to join a message to  *)
(* an event merged meanwhile finds the merge's other event unjudged.       *)
Moving == Recording \union Merging
Unjudged(e) == decisions[e] = None \/ decisions[e].stale
Owes(call, e) ==
  \/ call.pc \in {"keys", "touch", "flag"} /\ ~call.fresh /\ call.event = e
  \/ call.pc = "linkFlag" /\ e \in {call.event, call.other}
Owed(e) == \E c \in Calls : Owes(calls[c], e)
JudgingAlone == Some(Judging) => ~Some(Moving)
JudgedAsShown(call) == call.pc \in Judging => Canonical(call.event) /\ call.sees = Context(call.event)
NewUnjudged(call) ==
  call.fresh => \/ call.pc = "supersede"
                \/ call.pc \in {"join", "keys"} /\ decisions[call.event] = None
JoinsKnown(call) ==
  call.pc = "join" /\ events[call.event].into # None =>
    Unjudged(events[call.event].into) \/ Owed(events[call.event].into)
Behind(e) == Canonical(e) /\ ~Unjudged(e) /\ decisions[e].sees # Context(e)
FreshInv ==
  {"judgment", "merge"} \cap mixed = {} =>
    /\ JudgingAlone
    /\ \A c \in Calls : JudgedAsShown(calls[c]) /\ NewUnjudged(calls[c]) /\ JoinsKnown(calls[c])
    /\ \A e \in Events : Behind(e) => Owed(e)

(* The facts of a message are what was once read out of it. *)
Extracted(m) == \E at \in 0..MaxClock : facts[m] = extractFeatures(Message[m], at)
FactsInv ==
  /\ \A m \in Mails : facts[m] # None => Extracted(m)
  /\ \A m \in Mails : member[m] # None => facts[m] # None
  /\ \A c \in Calls : calls[c].pc \in Recording \ {"facts"} => facts[calls[c].mail] # None

(* A message that has joined an event, or is about to, is stored. *)
StoredInv ==
  /\ \A m \in stored : ReceivedAt[m] <= clock
  /\ \A m \in Mails : member[m] # None => m \in stored
  /\ \A c \in Calls : calls[c].pc \in Recording => calls[c].mail \in stored

(* As long as messages are recorded one by one in their order, the one     *)
(* being recorded is the newest, and an event is in the state its newest   *)
(* message was in, or will be once that has joined it.                     *)
IsLast(m, ms) == m \in ms /\ \A n \in ms : ReceivedAt[n] <= ReceivedAt[m]
OneRecord == \A c, d \in Calls : calls[c].pc \in Recording /\ calls[d].pc \in Recording => c = d
RecordSound(call) ==
  /\ call.fresh => call.pc \in {"join", "keys", "supersede"}
  /\ call.pc \in {"facts", "known"} => IsLast(call.mail, stored) \/ member[call.mail] # None
  /\ call.pc \in {"match", "redirect", "create", "join"} =>
       IsLast(call.mail, stored) /\ member[call.mail] = None
  /\ call.pc = "join" /\ call.fresh =>
       events[call.event].state = StateOf[call.mail] /\ MembersOf(call.event) = {}
  /\ call.pc \in {"keys", "touch"} => IsLast(call.mail, stored) /\ member[call.mail] = call.event
  /\ call.pc \in {"flag", "supersede"} => member[call.mail] # None
Settling(call, e, m) ==
  call.pc \in {"keys", "touch"} /\ ~call.fresh /\ call.event = e /\ call.mail = m
InState(e) ==
  \E m \in Mails : /\ IsLast(m, MembersOf(e))
                   /\ \/ events[e].state = StateOf[m]
                      \/ \E c \in Calls : Settling(calls[c], e, m)
OnRecord(m) == member[m] # None \/ \E c \in Calls : calls[c].pc \in Recording /\ calls[c].mail = m
OrderInv ==
  "order" \notin mixed =>
    /\ OneRecord
    /\ \A m \in stored : OnRecord(m)
    /\ \A c \in Calls : RecordSound(calls[c])
    /\ \A e \in Events : MembersOf(e) # {} => InState(e)

-----------------------------------------------------------------------------
(* What is read out of a message.  Its keys are a sequence, whatever they  *)
(* are made of.                                                            *)
Listed(s) == \E S : s \in Seq(S)

LEMMA WhenListed ==
  ASSUME NEW condition, NEW key
  PROVE  Listed(When(condition, key))
<1>1. When(condition, key) \in {<<key>>, <<>>}
  BY Zenon DEF When
<1>2. <<key>> \in Seq({key}) /\ <<>> \in Seq({key})
  OBVIOUS
<1> QED  BY <1>1, <1>2, Zenon DEF Listed

LEMMA TaggedListed ==
  ASSUME NEW tag, NEW S, NEW ids \in Seq(S)
  PROVE  Listed(Tagged(tag, ids))
<1> DEFINE T == {<<tag, ids[i]>> : i \in DOMAIN ids}
<1>1. \A i \in DOMAIN ids : <<tag, ids[i]>> \in T
  OBVIOUS
<1> HIDE DEF T
<1>2. Tagged(tag, ids) \in Seq(T)
  BY <1>1 DEF Tagged
<1> QED  BY <1>2 DEF Listed

LEMMA ConcatListed ==
  ASSUME NEW s, NEW t, Listed(s), Listed(t)
  PROVE  Listed(s \o t) /\ (s # <<>> => s \o t # <<>>)
<1>1. PICK S : s \in Seq(S)
  BY DEF Listed
<1>2. PICK T : t \in Seq(T)
  BY DEF Listed
<1>3. s \in Seq(S \union T) /\ t \in Seq(S \union T)
  BY <1>1, <1>2
<1>4. s \o t \in Seq(S \union T)
  BY <1>3
<1>5. s # <<>> => s \o t # <<>>
  BY <1>3
<1> QED  BY <1>4, <1>5 DEF Listed

LEMMA TypedKeyListed ==
  ASSUME NEW m, NEW f
  PROVE  Listed(typedKey(m, f))
<1>1. ASSUME NEW all
      PROVE  Listed(IF all = <<>> THEN <<>> ELSE <<Head(all)>>)
  <2>1. <<>> \in Seq({1}) /\ <<Head(all)>> \in Seq({Head(all)})
    OBVIOUS
  <2>2. Listed(<<>>) /\ Listed(<<Head(all)>>)
    BY <2>1 DEF Listed
  <2> QED  BY <2>2
<1> QED  BY <1>1 DEF typedKey

(* The keys without those that occur again. *)
LEMMA UniqueListed ==
  ASSUME NEW all, Listed(all)
  PROVE  Listed(Unique(all)) /\ (all # <<>> => Unique(all) # <<>>)
<1> DEFINE first == {i \in DOMAIN all : \A j \in 1..(i - 1) : all[j] # all[i]}
           nth(k) == all[CHOOSE i \in first : Cardinality({j \in first : j <= i}) = k]
           T == {nth(k) : k \in 1..Cardinality(first)}
<1>1. PICK S : all \in Seq(S)
  BY DEF Listed
<1>2. Len(all) \in Nat /\ first \subseteq 1..Len(all)
  BY <1>1
<1>3. IsFiniteSet(first)
  BY <1>2, FS_Interval, FS_Subset
<1>4. Cardinality(first) \in Nat
  BY <1>3, FS_CardinalityType
<1>5. Unique(all) = [k \in 1..Cardinality(first) |-> nth(k)]
  BY DEF Unique
<1>6. \A k \in 1..Cardinality(first) : nth(k) \in T
  OBVIOUS
<1> HIDE DEF nth, T
<1>7. Unique(all) \in Seq(T)
  <2> HIDE DEF first
  <2> QED  BY <1>4, <1>5, <1>6
<1>8. ASSUME all # <<>> PROVE Unique(all) # <<>>
  <2>1. 1 \in first
    BY <1>1, <1>8
  <2>2. Cardinality(first) # 0
    BY <1>3, <2>1, FS_EmptySet
  <2> HIDE DEF first, nth
  <2>3. 1 \in DOMAIN Unique(all)
    BY <1>4, <1>5, <2>2
  <2> QED  BY <2>3
<1> QED  BY <1>7, <1>8 DEF Listed

LEMMA KeysListed ==
  ASSUME NEW m \in TriageFeatureMessage, NEW f
  PROVE  Listed(deriveEventIdentity(m, f).keys) /\ deriveEventIdentity(m, f).keys # <<>>
<1> DEFINE A == <<<<"provider", m.id>>, <<"content", m.content>>>>
           B == Tagged("message-id", m.messageId)
           C == Tagged("thread", m.thread)
           D == Tagged("message-id", m.references)
           E == typedKey(m, f)
           F == When(m.subject # "" /\ Len(m.participants) > 1,
                     <<"subject", m.subject, m.participants>>)
<1>1. Listed(A) /\ A # <<>>
  <2>1. A \in Seq({<<"provider", m.id>>, <<"content", m.content>>})
    OBVIOUS
  <2> QED  BY <2>1 DEF Listed
<1>2. Listed(B) /\ Listed(C) /\ Listed(D)
  BY TaggedListed DEF TriageFeatureMessage
<1>3. Listed(E) /\ Listed(F)
  BY TypedKeyListed, WhenListed
<1>4. deriveEventIdentity(m, f).keys = Unique(A \o B \o C \o D \o E \o F)
  BY DEF deriveEventIdentity
<1> HIDE DEF A, B, C, D, E, F
<1>5. Listed(A \o B \o C \o D \o E \o F) /\ A \o B \o C \o D \o E \o F # <<>>
  BY <1>1, <1>2, <1>3, ConcatListed
<1> QED  BY <1>4, <1>5, UniqueListed

LEMMA KeysOfType == KeysOf \in [Mails -> Seq(Keys)] /\ \A m \in Mails : KeysOf[m] # <<>>
<1>1. ASSUME NEW m \in Mails PROVE KeysOf[m] \in Seq(Keys) /\ KeysOf[m] # <<>>
  <2>1. KeysOf[m] = deriveEventIdentity(Message[m], extractFeatures(Message[m], 0)).keys
    BY DEF KeysOf, Identity
  <2>2. Message[m] \in TriageFeatureMessage
    BY TriageAssumption
  <2>3. PICK S : KeysOf[m] \in Seq(S)
    BY <2>1, <2>2, KeysListed DEF Listed
  <2>5. KeysOf[m] # <<>>
    BY <2>1, <2>2, KeysListed
  <2>4. \A i \in DOMAIN KeysOf[m] : KeysOf[m][i] \in Keys
    BY DEF Keys
  <2> QED  BY <2>3, <2>4, <2>5
<1>2. KeysOf = [m \in Mails |-> KeysOf[m]]
  BY DEF KeysOf
<1> QED  BY <1>1, <1>2

(* The facts of a message are of their type at whatever time they are read *)
(* out of it.                                                              *)
LEMMA CredentialsType ==
  ASSUME NEW m \in TriageFeatureMessage, NEW now \in Nat
  PROVE  parseCredentials(m, now) \subseteq [expiresAt : Nat, state : {"valid", "expired"}]
<1>1. m.receivedAt \in Nat /\ \A t \in (IF m.ttl = {} THEN {1} ELSE m.ttl) : t \in Nat
  BY DEF TriageFeatureMessage
<1> QED  BY <1>1 DEF parseCredentials, Credential

LEMMA DeadlinesType ==
  ASSUME NEW m \in TriageFeatureMessage, NEW now \in Nat
  PROVE  {Deadline(parseDeadlineAt(s, now), now) : s \in m.deadlines}
           \subseteq [at : SUBSET Nat, state : {"past", "future", "unknown"}]
<1>1. ASSUME NEW s \in m.deadlines PROVE parseDeadlineAt(s, now) \subseteq Nat
  BY DEF TriageFeatureMessage, Stated, parseDeadlineAt
<1> QED  BY <1>1 DEF Deadline

LEMMA FeaturesType ==
  ASSUME NEW m \in TriageFeatureMessage, NEW now \in Nat
  PROVE  extractFeatures(m, now) \in TriageFacts
<1>2. m.automated \in ProviderFlag /\ m.bulk \in ProviderFlag
      /\ m.entities \in [EntityKinds -> STRING]
  BY DEF TriageFeatureMessage
<1>3. [check \in Checks |-> parseAuth(m, check)] \in [Checks -> {"pass", "fail", "unknown"}]
  BY DEF parseAuth
<1>4. ListUnsubscribe(m) \in BOOLEAN
  BY DEF ListUnsubscribe
<1> DEFINE D == {Deadline(parseDeadlineAt(s, now), now) : s \in m.deadlines}
           C == parseCredentials(m, now)
           A == [check \in Checks |-> parseAuth(m, check)]
<1>6. /\ D \subseteq [at : SUBSET Nat, state : {"past", "future", "unknown"}]
      /\ C \subseteq [expiresAt : Nat, state : {"valid", "expired"}]
  BY DeadlinesType, CredentialsType
<1>7. extractFeatures(m, now) =
        [automated |-> Given(m.automated, "auto-submitted" \in m.headers),
         bulk |-> Given(m.bulk, "precedence" \in m.headers \/ ListUnsubscribe(m)),
         listUnsubscribe |-> ListUnsubscribe(m), auth |-> A, entities |-> m.entities,
         deadlines |-> D, credentials |-> C,
         payment |-> m.signs \intersect PaymentEventKind,
         security |-> m.signs \intersect SecurityEventKind,
         infrastructure |-> m.signs \intersect InfrastructureEventKind]
  BY DEF extractFeatures
<1>8. /\ Given(m.automated, "auto-submitted" \in m.headers) \in ProviderFlag
      /\ Given(m.bulk, "precedence" \in m.headers \/ ListUnsubscribe(m)) \in ProviderFlag
  BY <1>2 DEF Given, ProviderFlag
<1>9. A \in [Checks -> {"pass", "fail", "unknown"}]
  BY <1>3
<1> HIDE DEF D, C, A
<1> QED  BY <1>2, <1>4, <1>6, <1>7, <1>8, <1>9 DEF TriageFacts

LEMMA StateOfType == StateOf \in [Mails -> {"active", "resolved"}]
BY DEF StateOf, Identity, deriveEventIdentity, observedState

LEMMA MessageType ==
  ASSUME NEW m \in Mails
  PROVE  Message[m] \in TriageFeatureMessage /\ ReceivedAt[m] \in Nat
BY TriageAssumption DEF ReceivedAt, TriageFeatureMessage

-----------------------------------------------------------------------------
(* The tables and the calls keep their types. *)
LEMMA IdleTurnType == IdleTurn \in CallState
BY DEF IdleTurn, CallState

LEMMA RecordedType ==
  ASSUME NEW m \in Mails
  PROVE  Recorded(m) \in CallState
BY KeysOfType DEF Recorded, IdleTurn, CallState

LEMMA OutdatedType ==
  ASSUME TriageTypeOK
  PROVE  OutdatedCalls \in [Calls -> CallState]
         /\ OutdatedDecisions \in [Events -> DecisionRow \union {None}]
<1>1. ASSUME NEW c \in Calls PROVE [calls[c] EXCEPT !.current = FALSE] \in CallState
  <2>1. calls[c] \in CallState
    BY DEF TriageTypeOK
  <2> QED  BY <2>1 DEF CallState
<1>2. ASSUME NEW e \in Events, decisions[e] # None
      PROVE [decisions[e] EXCEPT !.current = FALSE] \in DecisionRow
  BY <1>2 DEF TriageTypeOK, DecisionRow
<1> QED  BY <1>1, <1>2 DEF OutdatedCalls, OutdatedDecisions, TriageTypeOK

LEMMA FlaggedType ==
  ASSUME TriageTypeOK, NEW es
  PROVE  Flagged(es) \in [Events -> DecisionRow \union {None}]
<1>1. ASSUME NEW e \in Events, decisions[e] # None
      PROVE [decisions[e] EXCEPT !.stale = TRUE, !.current = FALSE, !.at = 0, !.sees = {}] \in DecisionRow
  <2>1. 0 \in 0..MaxClock
    BY TriageAssumption
  <2> QED  BY <1>1, <2>1 DEF TriageTypeOK, DecisionRow
<1> QED  BY <1>1 DEF Flagged, TriageTypeOK

LEMMA CallType ==
  ASSUME TriageTypeOK, NEW c \in Calls
  PROVE  /\ calls[c] \in CallState
         /\ \A p \in {"idle", "known", "match", "create", "keys", "flag", "supersede", "link", "linkFlag"} :
              [calls[c] EXCEPT !.pc = p] \in CallState
<1>1. calls[c] \in CallState
  BY DEF TriageTypeOK
<1> QED  BY <1>1 DEF CallState

LEMMA CallSetJoin ==
  ASSUME NEW r \in CallState, NEW e \in Events
  PROVE  /\ [r EXCEPT !.pc = "redirect", !.event = e] \in CallState
         /\ [r EXCEPT !.pc = "join", !.event = e] \in CallState
         /\ [r EXCEPT !.pc = "join", !.event = e, !.fresh = TRUE] \in CallState
BY DEF CallState

(* Of a step, the part that is not a table. *)
LEMMA MixesType == \A pc : Mixes(pc) \subseteq {"order", "judgment", "merge"}
BY DEF Mixes

LEMMA RaceType ==
  ASSUME TriageTypeOK, CountRace
  PROVE  raced' \in 0..MaxRaces
BY TriageAssumption DEF CountRace, TriageTypeOK

LEMMA EnterType ==
  ASSUME TriageTypeOK, NEW c \in Calls, NEW call \in CallState, Enter(c, call)
  PROVE  TriageTypeOK'
<1>1. raced' \in 0..MaxRaces /\ mixed' \subseteq {"order", "judgment", "merge"}
  BY RaceType, MixesType DEF Enter, TriageTypeOK
<1>2. calls' \in [Calls -> CallState]
  BY DEF Enter, TriageTypeOK
<1> QED  BY <1>1, <1>2 DEF Enter, tables, TriageTypeOK

LEMMA RecordingTypes ==
  ASSUME TriageTypeOK, NEW c \in Calls, NEW m \in Mails, Ingest(c, m) \/ Replay(c, m)
  PROVE  TriageTypeOK'
<1>1. CASE Replay(c, m)
  BY <1>1, RecordedType, EnterType DEF Replay
<1>2. CASE Ingest(c, m)
  <2>1. raced' \in 0..MaxRaces /\ mixed' \subseteq {"order", "judgment", "merge"}
    BY <1>2, RaceType, MixesType DEF Ingest, TriageTypeOK
  <2>2. calls' \in [Calls -> CallState] /\ decisions' \in [Events -> DecisionRow \union {None}]
    BY <1>2, RecordedType, OutdatedType DEF Ingest
  <2>3. stored' \subseteq Mails
    BY <1>2 DEF Ingest, TriageTypeOK
  <2> QED  BY <1>2, <2>1, <2>2, <2>3 DEF Ingest, TriageTypeOK
<1> QED  BY <1>1, <1>2

(* Steps that change nothing but the calls. *)
LEMMA GoingTypes ==
  ASSUME TriageTypeOK, NEW c \in Calls, NEW call \in CallState,
         calls' = [calls EXCEPT ![c] = call], OnlyCalls
  PROVE  TriageTypeOK'
BY DEF OnlyCalls, tables, TriageTypeOK

LEMMA RecordTypes ==
  ASSUME TriageTypeOK, TurnInv, NamedInv, NEW c \in Calls,
         \/ WriteFacts(c) \/ Known(c) \/ Match(c) \/ Redirect(c) \/ Create(c) \/ Join(c)
         \/ InsertKey(c) \/ Touch(c) \/ FlagJoined(c) \/ Supersede(c)
  PROVE  TriageTypeOK'
<1>1. calls[c] \in CallState
  BY CallType
<1>2. calls[c].pc \in Recording => calls[c].mail \in Mails
  <2>1. calls[c].mail \in Mails \union {None}
    BY <1>1 DEF CallState
  <2> QED  BY <2>1 DEF TurnInv, TurnSound
<1>3. calls[c].pc \in Joining => calls[c].event \in Events /\ events[calls[c].event] # None
  BY DEF TurnInv, TurnSound, Holding, Row
<1>4. CASE WriteFacts(c)
  <2>1. calls[c].mail \in Mails
    BY <1>2, <1>4 DEF WriteFacts, At, Recording
  <2>2. extractFeatures(Message[calls[c].mail], clock) \in TriageFacts
    <3>1. clock \in Nat
      BY TriageAssumption DEF TriageTypeOK
    <3> QED  BY <2>1, <3>1, MessageType, FeaturesType
  <2>3. facts' \in [Mails -> TriageFacts \union {None}] /\ calls' \in [Calls -> CallState]
    BY <1>4, <2>1, <2>2, CallType DEF WriteFacts, Goto, TriageTypeOK
  <2> QED  BY <1>4, <2>3 DEF WriteFacts, TriageTypeOK
<1>5. CASE Known(c)
  BY <1>5, GoingTypes, CallType, IdleTurnType DEF Known, Leave, Goto
<1>6. CASE Match(c)
  <2>1. calls[c].mail \in Mails
    BY <1>2, <1>6 DEF Match, At, Recording
  <2>2. ASSUME NEW e \in Matches(calls[c].mail)
        PROVE  [calls[c] EXCEPT !.pc = "redirect", !.event = e] \in CallState
    <3>1. e \in Events
      BY <2>1, <2>2 DEF Matches, Keys, TriageTypeOK
    <3> QED  BY <1>1, <3>1, CallSetJoin
  <2>3. PICK new : new \in CallState /\ calls' = [calls EXCEPT ![c] = new]
    <3>1. CASE Matches(calls[c].mail) = {}
      BY <1>6, <3>1, CallType DEF Match, Goto
    <3>2. CASE Matches(calls[c].mail) # {}
      <4>1. PICK e \in Matches(calls[c].mail) :
              calls' = [calls EXCEPT ![c].pc = "redirect", ![c].event = e]
        BY <1>6, <3>2 DEF Match
      <4>2. calls' = [calls EXCEPT ![c] = [calls[c] EXCEPT !.pc = "redirect", !.event = e]]
        BY <4>1 DEF TriageTypeOK
      <4> QED  BY <2>2, <4>2
    <3> QED  BY <3>1, <3>2
  <2> QED  BY <1>6, <2>3, GoingTypes DEF Match
<1>7. CASE Redirect(c)
  <2>1. Target(calls[c].event) \in Events
    BY <1>3, <1>7 DEF Redirect, At, Joining, Target, TriageTypeOK, EventRow
  <2>2. [calls[c] EXCEPT !.pc = "join", !.event = Target(@)] \in CallState
    <3>1. PICK e \in Events : e = Target(calls[c].event)
      BY <2>1
    <3> QED  BY <1>1, <3>1, CallSetJoin
  <2>3. calls' = [calls EXCEPT ![c] = [calls[c] EXCEPT !.pc = "join", !.event = Target(@)]]
    BY <1>7 DEF Redirect, TriageTypeOK
  <2> QED  BY <1>7, <2>2, <2>3, GoingTypes DEF Redirect
<1>8. CASE Create(c)
  <2>1. calls[c].mail \in Mails
    BY <1>2, <1>8 DEF Create, At, Recording
  <2>2. PICK e \in Events :
          /\ events' = [events EXCEPT ![e] = [into |-> None, state |-> StateOf[calls[c].mail]]]
          /\ calls' = [calls EXCEPT ![c].pc = "join", ![c].event = e, ![c].fresh = TRUE]
    BY <1>8 DEF Create
  <2>3. [calls[c] EXCEPT !.pc = "join", !.event = e, !.fresh = TRUE] \in CallState
    BY <1>1, CallSetJoin
  <2>4. calls' \in [Calls -> CallState]
    BY <2>2, <2>3 DEF TriageTypeOK
  <2>5. events' \in [Events -> EventRow \union {None}]
    BY <2>1, <2>2, StateOfType DEF TriageTypeOK, EventRow
  <2> QED  BY <1>8, <2>4, <2>5 DEF Create, TriageTypeOK
<1>9. CASE Join(c)
  <2>1. member' \in [Mails -> Events \union {None}]
    BY <1>3, <1>9 DEF Join, At, Joining, TriageTypeOK
  <2> QED  BY <1>9, <2>1, CallType DEF Join, Goto, TriageTypeOK
<1>10. CASE InsertKey(c)
  <2>1. calls[c].event \in Events
    BY <1>3, <1>10 DEF InsertKey, At, Joining
  <2>2. keys' \in [Keys -> Events \union {None}]
    BY <1>10, <2>1 DEF InsertKey, KeysWith, TriageTypeOK
  <2>3. PICK call : call = [calls[c] EXCEPT !.left = Tail(@)]
    OBVIOUS
  <2>4. calls' = [calls EXCEPT ![c] = IF call.left = <<>> THEN AfterKeys(call) ELSE call]
    BY <1>10, <2>3 DEF InsertKey
  <2>5. PICK new : new = IF call.left = <<>> THEN AfterKeys(call) ELSE call
    OBVIOUS
  <2>6. new \in CallState
    <3>1. calls[c].left # <<>>
      BY <1>10 DEF InsertKey, At, TurnInv, TurnSound, Recording
    <3>2. calls[c].left \in Seq(Keys)
      BY <1>1 DEF CallState
    <3>3. PICK left : left = Tail(calls[c].left)
      OBVIOUS
    <3>4. left \in Seq(Keys) /\ call = [calls[c] EXCEPT !.left = left]
      BY <2>3, <3>1, <3>2, <3>3
    <3>5. call \in CallState
      BY <1>1, <3>4 DEF CallState
    <3>6. AfterKeys(call) \in CallState
      BY <3>5, IdleTurnType DEF AfterKeys, CallState
    <3> QED  BY <2>5, <3>5, <3>6
  <2> QED  BY <1>10, <2>2, <2>4, <2>5, <2>6 DEF InsertKey, TriageTypeOK
<1>11. CASE Touch(c)
  <2>1. calls[c].event \in Events /\ events[calls[c].event] # None /\ calls[c].mail \in Mails
    BY <1>2, <1>3, <1>11 DEF Touch, At, Joining, Recording
  <2>2. events' \in [Events -> EventRow \union {None}]
    BY <1>11, <2>1, StateOfType DEF Touch, TriageTypeOK, EventRow
  <2>3. calls' \in [Calls -> CallState]
    BY <1>11, CallType DEF Touch, Goto, TriageTypeOK
  <2> QED  BY <1>11, <2>2, <2>3 DEF Touch, TriageTypeOK
<1>12. CASE FlagJoined(c)
  BY <1>12, FlaggedType, CallType, IdleTurnType DEF FlagJoined, Goto, Leave, TriageTypeOK
<1>13. CASE Supersede(c)
  <2>1. superseded' \in [Mails -> Mails \union {None}]
    BY <1>2, <1>13 DEF Supersede, At, Recording, TriageTypeOK
  <2> QED  BY <1>13, <2>1, IdleTurnType DEF Supersede, Leave, TriageTypeOK
<1> QED  BY <1>4, <1>5, <1>6, <1>7, <1>8, <1>9, <1>10, <1>11, <1>12, <1>13

(* An agent's turn, and a change of what is known of the user. *)
LEMMA JudgeTypes ==
  ASSUME TriageTypeOK, TurnInv, NEW c \in Calls,
         \/ \E e \in Events : Judge(c, e)
         \/ \E j \in Judgments : Prepare(c, j)
         \/ Save(c) \/ ChangeContext(c) \/ markUocChanged(c)
  PROVE  TriageTypeOK'
<1>1. calls[c] \in CallState
  BY CallType
<1>2. CASE \E e \in Events : Judge(c, e)
  <2>1. PICK e \in Events : Judge(c, e)
    BY <1>2
  <2>2. PICK seen : seen = Context(e)
    OBVIOUS
  <2>3. seen \subseteq Mails
    BY <2>2 DEF Context
  <2>4. [IdleTurn EXCEPT !.pc = "judging", !.event = e, !.sees = seen] \in CallState
    BY <2>3, IdleTurnType DEF CallState
  <2> QED  BY <2>1, <2>2, <2>4, EnterType DEF Judge
<1>3. CASE \E j \in Judgments : Prepare(c, j)
  <2>1. PICK j \in Judgments : Prepare(c, j)
    BY <1>3
  <2>2. [calls[c] EXCEPT !.pc = "save", !.judgment = j, !.current = TRUE] \in CallState
    BY <1>1 DEF CallState
  <2>3. PICK new : new \in CallState /\ calls' = [calls EXCEPT ![c] = new]
    <3>1. \/ calls' = [calls EXCEPT ![c].pc = "save", ![c].judgment = j, ![c].current = TRUE]
          \/ calls' = [calls EXCEPT ![c] = IdleTurn]
      BY <2>1 DEF Prepare, Leave
    <3>2. CASE calls' = [calls EXCEPT ![c].pc = "save", ![c].judgment = j, ![c].current = TRUE]
      <4>1. calls' = [calls EXCEPT ![c] = [calls[c] EXCEPT !.pc = "save", !.judgment = j, !.current = TRUE]]
        BY <3>2 DEF TriageTypeOK
      <4> QED  BY <2>2, <4>1
    <3> QED  BY <3>1, <3>2, IdleTurnType
  <2> QED  BY <2>1, <2>3, GoingTypes DEF Prepare
<1>4. CASE Save(c)
  <2>1. calls[c].judgment \in Judgments
    BY <1>1, <1>4 DEF Save, At, TurnInv, TurnSound, CallState
  <2>2. [judgment |-> calls[c].judgment, stale |-> FALSE, current |-> calls[c].current,
         at |-> clock, sees |-> calls[c].sees] \in DecisionRow
    BY <1>1, <2>1 DEF CallState, DecisionRow, TriageTypeOK
  <2>3. decisions' \in [Events -> DecisionRow \union {None}]
    BY <1>4, <2>2 DEF Save, TriageTypeOK
  <2> QED  BY <1>4, <2>3, IdleTurnType DEF Save, Leave, TriageTypeOK
<1>5. CASE ChangeContext(c)
  <2>1. [IdleTurn EXCEPT !.pc = "mark"] \in CallState
    BY IdleTurnType DEF CallState
  <2>2. calls' \in [Calls -> CallState] /\ decisions' \in [Events -> DecisionRow \union {None}]
    BY <1>5, <2>1, OutdatedType DEF ChangeContext
  <2>3. raced' \in 0..MaxRaces
    BY <1>5, RaceType DEF ChangeContext
  <2> QED  BY <1>5, <2>2, <2>3 DEF ChangeContext, TriageTypeOK
<1>6. CASE markUocChanged(c)
  BY <1>6, FlaggedType, IdleTurnType DEF markUocChanged, Leave, TriageTypeOK
<1> QED  BY <1>2, <1>3, <1>4, <1>5, <1>6

(* Merges and unmerges, what fails, and what the inbox flags. *)
LEMMA MergeTypes ==
  ASSUME TriageTypeOK, TurnInv, NEW c \in Calls,
         \/ \E e, f \in Events : BeginMerge(c, e, f)
         \/ \E e \in Events : BeginUnmerge(c, e)
         \/ CheckChild(c) \/ Link(c) \/ FlagLinked(c) \/ Abandon(c)
  PROVE  TriageTypeOK'
<1>1. calls[c] \in CallState
  BY CallType
<1>2. CASE \E e, f \in Events : BeginMerge(c, e, f)
  <2>1. PICK e \in Events, f \in Events : BeginMerge(c, e, f)
    BY <1>2
  <2>2. [IdleTurn EXCEPT !.pc = "child", !.event = e, !.other = f, !.into = f] \in CallState
    BY IdleTurnType DEF CallState
  <2> QED  BY <2>1, <2>2, EnterType DEF BeginMerge
<1>3. CASE \E e \in Events : BeginUnmerge(c, e)
  <2>1. PICK e \in Events : BeginUnmerge(c, e)
    BY <1>3
  <2>2. PICK f : f = events[e].into
    OBVIOUS
  <2>3. f \in Events
    BY <2>1, <2>2 DEF BeginUnmerge, TriageTypeOK, EventRow
  <2>4. [IdleTurn EXCEPT !.pc = "link", !.event = e, !.other = f] \in CallState
    BY <2>3, IdleTurnType DEF CallState
  <2> QED  BY <2>1, <2>2, <2>4, EnterType DEF BeginUnmerge
<1>4. CASE CheckChild(c)
  BY <1>4, GoingTypes, CallType, IdleTurnType DEF CheckChild, Leave, Goto
<1>5. CASE Link(c)
  <2>1. calls[c].event \in Events /\ events[calls[c].event] # None /\ calls[c].into \in Events \union {None}
    BY <1>1, <1>5 DEF Link, At, TurnInv, TurnSound, Merging, Holding, Row, CallState
  <2>2. events' \in [Events -> EventRow \union {None}]
    BY <1>5, <2>1 DEF Link, TriageTypeOK, EventRow
  <2> QED  BY <1>5, <2>2, CallType DEF Link, Goto, TriageTypeOK
<1>6. CASE FlagLinked(c)
  BY <1>6, FlaggedType, IdleTurnType DEF FlagLinked, Leave, TriageTypeOK
<1>7. CASE Abandon(c)
  <2>1. raced' \in 0..MaxRaces
    BY <1>7, TriageAssumption DEF Abandon, TriageTypeOK
  <2> QED  BY <1>7, <2>1, IdleTurnType DEF Abandon, Leave, tables, TriageTypeOK
<1> QED  BY <1>2, <1>3, <1>4, <1>5, <1>6, <1>7

(* The types of the tables are kept by every step. *)
LEMMA TypesKept ==
  ASSUME EventInv, [TriageNext]_triageVars
  PROVE  TriageTypeOK'
<1> USE DEF EventInv
<1>1. CASE UNCHANGED triageVars
  BY <1>1 DEF triageVars, tables, TriageTypeOK
<1>2. CASE \E e \in Events : InboxState(e)
  BY <1>2, FlaggedType DEF InboxState, TriageTypeOK
<1>3. CASE Tick
  BY <1>3, TriageAssumption DEF Tick, tables, TriageTypeOK
<1> QED  BY <1>1, <1>2, <1>3, RecordingTypes, RecordTypes, JudgeTypes, MergeTypes DEF TriageNext

-----------------------------------------------------------------------------
(* A step is a call's, an answer of the inbox, or the clock's; a call's    *)
(* step leaves the other calls where they are.                             *)
Ingests(c) == \E m \in Mails : Ingest(c, m) \/ Replay(c, m)
Records(c) ==
  \/ WriteFacts(c) \/ Known(c) \/ Match(c) \/ Redirect(c) \/ Create(c) \/ Join(c)
  \/ InsertKey(c) \/ Touch(c) \/ FlagJoined(c) \/ Supersede(c)
Judges(c) ==
  \/ \E e \in Events : Judge(c, e)
  \/ \E j \in Judgments : Prepare(c, j)
  \/ Save(c) \/ ChangeContext(c) \/ markUocChanged(c)
Merges(c) ==
  \/ \E e, f \in Events : BeginMerge(c, e, f)
  \/ \E e \in Events : BeginUnmerge(c, e)
  \/ CheckChild(c) \/ Link(c) \/ FlagLinked(c)
StepOf(c) == Ingests(c) \/ Records(c) \/ Judges(c) \/ Merges(c) \/ Abandon(c)

LEMMA NextCases ==
  ASSUME [TriageNext]_triageVars
  PROVE  \/ \E c \in Calls : StepOf(c)
         \/ \E e \in Events : InboxState(e)
         \/ Tick
         \/ UNCHANGED triageVars
BY DEF TriageNext, StepOf, Ingests, Records, Judges, Merges

Unmoved(c) ==
  /\ calls'[c].pc = calls[c].pc /\ calls'[c].mail = calls[c].mail
  /\ calls'[c].event = calls[c].event /\ calls'[c].left = calls[c].left
  /\ calls'[c].fresh = calls[c].fresh /\ calls'[c].other = calls[c].other
  /\ calls'[c].into = calls[c].into /\ calls'[c].sees = calls[c].sees
  /\ calls'[c].judgment = calls[c].judgment

LEMMA OthersUnmoved ==
  ASSUME TriageTypeOK, NEW c \in Calls, NEW d \in Calls, d # c, StepOf(c)
  PROVE  Unmoved(d)
<1>1. calls[d] \in CallState
  BY CallType
<1>2. OutdatedCalls[d] \in {calls[d], [calls[d] EXCEPT !.current = FALSE]}
  BY DEF OutdatedCalls
<1>3. CASE Ingests(c) \/ ChangeContext(c)
  <2>1. calls'[d] = OutdatedCalls[d]
    <3>1. OutdatedCalls = [x \in Calls |-> OutdatedCalls[x]]
      BY DEF OutdatedCalls
    <3>2. CASE ChangeContext(c)
      BY <3>1, <3>2 DEF ChangeContext
    <3>3. ASSUME NEW m \in Mails, Ingest(c, m) PROVE calls'[d] = OutdatedCalls[d]
      BY <3>1, <3>3 DEF Ingest
    <3>4. ASSUME NEW m \in Mails, Replay(c, m) PROVE calls'[d] = calls[d]
      BY <3>4 DEF Replay, Enter, TriageTypeOK
    <3>5. Quiet => OutdatedCalls[d] = calls[d]
      BY DEF Quiet, At, OutdatedCalls
    <3> QED  BY <1>3, <3>2, <3>3, <3>4, <3>5 DEF Ingests, Replay
  <2> QED  BY <1>1, <1>2, <2>1 DEF Unmoved, CallState
<1>4. CASE ~Ingests(c) /\ ~ChangeContext(c)
  <2>1. calls'[d] = calls[d]
    <3>1. CASE Records(c)
      BY <3>1 DEF Records, WriteFacts, Known, Match, Redirect, Create, Join, InsertKey, Touch,
                  FlagJoined, Supersede, Goto, Leave, TriageTypeOK
    <3>2. CASE Judges(c)
      BY <1>4, <3>2 DEF Judges, Judge, Prepare, Save, markUocChanged, Enter, Leave, TriageTypeOK
    <3>3. CASE Merges(c) \/ Abandon(c)
      BY <3>3 DEF Merges, BeginMerge, BeginUnmerge, CheckChild, Link, FlagLinked, Abandon,
                  Enter, Goto, Leave, TriageTypeOK
    <3> QED  BY <1>4, <3>1, <3>2, <3>3 DEF StepOf
  <2> QED  BY <2>1 DEF Unmoved
<1> QED  BY <1>3, <1>4

(* A row of an event stays. *)
LEMMA RowsStay ==
  ASSUME EventInv, [TriageNext]_triageVars, NEW e, Row(e)
  PROVE  Row(e)'
<1> USE DEF Row, EventInv
<1>1. CASE UNCHANGED events
  BY <1>1
<1>2. ASSUME NEW c \in Calls, Create(c) PROVE Row(e)'
  <2>1. PICK f \in Events : events[f] = None
          /\ events' = [events EXCEPT ![f] = [into |-> None, state |-> StateOf[calls[c].mail]]]
    BY <1>2 DEF Create
  <2> QED  BY <2>1 DEF TriageTypeOK
<1>3. ASSUME NEW c \in Calls, Touch(c) \/ Link(c) PROVE Row(e)'
  <2>1. calls[c].event \in Events /\ events[calls[c].event] \in EventRow
    BY <1>3 DEF TurnInv, TurnSound, Touch, Link, At, Holding, Joining, Merging, TriageTypeOK
  <2>2. PICK row : row \in EventRow /\ events' = [events EXCEPT ![calls[c].event] = row]
    <3>1. calls[c] \in CallState
      BY CallType
    <3>2. CASE Touch(c)
      <4>1. calls[c].mail \in Mails
        BY <3>1, <3>2 DEF Touch, At, Recording, TurnInv, TurnSound, CallState
      <4>2. [events[calls[c].event] EXCEPT !.state = StateOf[calls[c].mail]] \in EventRow
        BY <2>1, <4>1, StateOfType DEF EventRow
      <4> QED  BY <3>2, <4>2 DEF Touch
    <3>3. CASE Link(c)
      <4>1. calls[c].into \in Events \union {None}
        BY <3>1 DEF CallState
      <4>2. [events[calls[c].event] EXCEPT !.into = calls[c].into] \in EventRow
        BY <2>1, <4>1 DEF EventRow
      <4> QED  BY <3>3, <4>2 DEF Link
    <3> QED  BY <1>3, <3>2, <3>3
  <2> QED  BY <2>2, TriageRowAssumption DEF TriageTypeOK
<1>4. ASSUME NEW c \in Calls, StepOf(c), ~Create(c), ~Touch(c), ~Link(c) PROVE UNCHANGED events
  BY <1>4 DEF StepOf, Ingests, Records, Judges, Merges, Ingest, Replay, WriteFacts, Known, Match,
       Redirect, Join, InsertKey, FlagJoined, Supersede, Judge, Prepare, Save, ChangeContext,
       markUocChanged, BeginMerge, BeginUnmerge, CheckChild, FlagLinked, Abandon, Enter,
       OnlyCalls, tables
<1> QED  BY <1>1, <1>2, <1>3, <1>4, NextCases DEF InboxState, Tick, triageVars, tables

(* What each call holds stays a row. *)
LEMMA TurnKept ==
  ASSUME EventInv, NEW c \in Calls, StepOf(c), [TriageNext]_triageVars
  PROVE  TurnInv'
<1> USE DEF EventInv
<1>1. ASSUME NEW d \in Calls, d # c PROVE TurnSound(calls[d])'
  <2>1. Unmoved(d)
    BY <1>1, OthersUnmoved
  <2>2. TurnSound(calls[d])
    BY DEF TurnInv
  <2>3. PICK e, f : e = calls[d].event /\ f = calls[d].other
    OBVIOUS
  <2>4. (Row(e) => Row(e)') /\ (Row(f) => Row(f)')
    BY RowsStay
  <2>5. e = calls'[d].event /\ f = calls'[d].other
    BY <2>1, <2>3 DEF Unmoved
  <2> QED  BY <2>1, <2>2, <2>3, <2>4, <2>5 DEF TurnSound, Unmoved
<1>2. TurnSound(calls[c])'
  <2>1. calls[c] \in CallState /\ TurnSound(calls[c])
    BY CallType DEF TurnInv
  <2>2. PICK call : call = calls[c]
    OBVIOUS
  <2>3. /\ Row(call.event) => Row(call.event)'
        /\ Row(call.other) => Row(call.other)'
    BY RowsStay
  <2>4. CASE calls'[c] = IdleTurn
    BY <2>4 DEF TurnSound, IdleTurn, Recording, Holding, Joining, Judging, Merging
  <2>5. CASE Ingests(c)
    <3>1. PICK m \in Mails : Ingest(c, m) \/ Replay(c, m)
      BY <2>5 DEF Ingests
    <3>2. calls'[c] = Recorded(m)
      <4>1. CASE Ingest(c, m)
        BY <4>1 DEF Ingest, OutdatedCalls
      <4>2. CASE Replay(c, m)
        BY <4>2 DEF Replay, Enter, TriageTypeOK
      <4> QED  BY <3>1, <4>1, <4>2
    <3>3. calls'[c].pc = "facts" /\ calls'[c].mail = m /\ calls'[c].left = KeysOf[m]
      BY <3>2 DEF Recorded, IdleTurn
    <3> QED  BY <3>3, KeysOfType, TriageAssumption DEF TurnSound, Holding, Joining, Judging, Merging
  <2>6. CASE Known(c) \/ WriteFacts(c) \/ Match(c)
    <3>1. CASE Known(c) \/ WriteFacts(c)
      BY <2>1, <2>4, <3>1 DEF Known, WriteFacts, At, Goto, Leave, TriageTypeOK, CallState,
           TurnSound, Recording, Holding, Joining, Judging, Merging
    <3>2. CASE Match(c) /\ Matches(calls[c].mail) = {}
      BY <2>1, <3>2 DEF Match, At, Goto, TriageTypeOK, CallState,
           TurnSound, Recording, Holding, Joining, Judging, Merging
    <3>3. CASE Match(c) /\ Matches(calls[c].mail) # {}
      <4>1. PICK e \in Matches(calls[c].mail) :
              calls' = [calls EXCEPT ![c].pc = "redirect", ![c].event = e]
        BY <3>3 DEF Match
      <4>2. calls[c].mail \in Mails
        BY <2>1, <3>3 DEF Match, At, TurnSound, Recording, CallState
      <4>3. Row(e)
        BY <4>1, <4>2 DEF Matches, Keys, NamedInv
      <4>4. Row(e)'
        BY <4>3, RowsStay
      <4>5. calls'[c].pc = "redirect" /\ calls'[c].event = e /\ calls'[c].left = calls[c].left
            /\ calls'[c].mail = calls[c].mail
        BY <2>1, <4>1 DEF TriageTypeOK, CallState
      <4>6. calls[c].pc = "match"
        BY <3>3 DEF Match, At
      <4> QED  BY <2>1, <4>4, <4>5, <4>6 DEF TurnSound, Recording, Holding, Joining, Judging, Merging
    <3> QED  BY <2>6, <3>1, <3>2, <3>3
  <2>7. CASE Redirect(c)
    <3>1. calls[c].pc = "redirect" /\ calls'[c] = [calls[c] EXCEPT !.pc = "join", !.event = Target(@)]
      BY <2>7 DEF Redirect, At, TriageTypeOK
    <3>2. Row(calls[c].event)
      BY <2>1, <3>1 DEF TurnSound, Holding, Joining
    <3>3. PICK e : e = Target(calls[c].event)
      OBVIOUS
    <3>4. Row(e)
      BY <3>2, <3>3 DEF Target, NamedInv, Row
    <3>5. Row(e)'
      BY <3>4, RowsStay
    <3>6. calls'[c].pc = "join" /\ calls'[c].event = e /\ calls'[c].left = calls[c].left
          /\ calls'[c].mail = calls[c].mail
      BY <2>1, <3>1, <3>3 DEF CallState
    <3> QED  BY <2>1, <3>1, <3>5, <3>6 DEF TurnSound, Recording, Holding, Joining, Judging, Merging
  <2>8. CASE Create(c)
    <3>1. PICK e \in Events :
            /\ events' = [events EXCEPT ![e] = [into |-> None, state |-> StateOf[calls[c].mail]]]
            /\ calls' = [calls EXCEPT ![c].pc = "join", ![c].event = e, ![c].fresh = TRUE]
      BY <2>8 DEF Create
    <3>2. calls[c].pc = "create" /\ calls'[c].pc = "join" /\ calls'[c].event = e
          /\ calls'[c].left = calls[c].left /\ calls'[c].mail = calls[c].mail
      BY <2>1, <2>8, <3>1 DEF Create, At, TriageTypeOK, CallState
    <3>3. Row(e)'
      <4>1. [into |-> None, state |-> StateOf[calls[c].mail]] \in EventRow
        BY <2>1, <3>2, StateOfType DEF TurnSound, Recording, CallState, EventRow
      <4> QED  BY <3>1, <4>1, TriageRowAssumption DEF Row, TriageTypeOK
    <3> QED  BY <2>1, <3>2, <3>3 DEF TurnSound, Recording, Holding, Joining, Judging, Merging
  <2>9. CASE Join(c) \/ Touch(c)
    <3>1. /\ \/ calls[c].pc = "join" /\ calls'[c].pc = "keys"
             \/ calls[c].pc = "touch" /\ calls'[c].pc = "flag"
          /\ calls'[c].event = calls[c].event /\ calls'[c].left = calls[c].left
          /\ calls'[c].mail = calls[c].mail
      BY <2>1, <2>9 DEF Join, Touch, At, Goto, TriageTypeOK, CallState
    <3> QED  BY <2>1, <2>2, <2>3, <3>1 DEF TurnSound, Recording, Holding, Joining, Judging, Merging
  <2>10. CASE InsertKey(c)
    <3>1. calls[c].pc = "keys"
      BY <2>10 DEF InsertKey, At
    <3>2. PICK next : next = [calls[c] EXCEPT !.left = Tail(@)]
      OBVIOUS
    <3>3. calls'[c] = IF next.left = <<>> THEN AfterKeys(next) ELSE next
      BY <2>10, <3>2 DEF InsertKey, TriageTypeOK
    <3>4. next.pc = "keys" /\ next.event = calls[c].event /\ next.mail = calls[c].mail
      BY <2>1, <3>1, <3>2 DEF CallState
    <3>5. next \in [DOMAIN next -> {next[f] : f \in DOMAIN next}]
      BY <2>1, <3>2 DEF CallState
    <3>6. CASE next.left = <<>>
      <4>1. \/ calls'[c] = IdleTurn
            \/ /\ calls'[c].pc \in {"touch", "supersede"}
               /\ calls'[c].event = next.event /\ calls'[c].mail = next.mail
        BY <2>1, <3>2, <3>3, <3>6 DEF AfterKeys, CallState
      <4> QED  BY <2>1, <2>2, <2>3, <2>4, <3>1, <3>4, <4>1
               DEF TurnSound, Recording, Holding, Joining, Judging, Merging
    <3>7. CASE next.left # <<>>
      BY <2>1, <2>2, <2>3, <3>1, <3>3, <3>4, <3>7
         DEF TurnSound, Recording, Holding, Joining, Judging, Merging
    <3> QED  BY <3>6, <3>7
  <2>11. CASE FlagJoined(c) \/ Supersede(c)
    <3>1. \/ calls'[c] = IdleTurn
          \/ /\ calls[c].pc = "flag" /\ calls'[c].pc = "supersede"
             /\ calls'[c].event = calls[c].event /\ calls'[c].mail = calls[c].mail
      BY <2>1, <2>11 DEF FlagJoined, Supersede, At, Goto, Leave, TriageTypeOK, CallState
    <3> QED  BY <2>1, <2>2, <2>3, <2>4, <3>1 DEF TurnSound, Recording, Holding, Joining, Judging, Merging
  <2>12. CASE Judges(c)
    <3>1. ASSUME NEW e \in Events, Judge(c, e) PROVE TurnSound(calls[c])'
      <4>1. calls'[c].pc = "judging" /\ calls'[c].event = e /\ Row(e)
        BY <3>1 DEF Judge, Enter, Canonical, Row, IdleTurn, TriageTypeOK
      <4>2. Row(e)'
        BY <4>1, RowsStay
      <4> QED  BY <4>1, <4>2 DEF TurnSound, Recording, Holding, Joining, Judging, Merging
    <3>2. ASSUME NEW j \in Judgments, Prepare(c, j) PROVE TurnSound(calls[c])'
      <4>1. \/ calls'[c] = IdleTurn
            \/ /\ Accepted(j) /\ calls[c].pc = "judging" /\ calls'[c].pc = "save"
               /\ calls'[c].judgment = j /\ calls'[c].event = calls[c].event
        BY <2>1, <3>2 DEF Prepare, At, Leave, TriageTypeOK, CallState
      <4>2. j # None
        BY TriageAssumption
      <4> QED  BY <2>1, <2>2, <2>3, <2>4, <4>1, <4>2
               DEF TurnSound, Recording, Holding, Joining, Judging, Merging
    <3>3. CASE Save(c) \/ markUocChanged(c)
      BY <2>4, <3>3 DEF Save, markUocChanged, Leave, TriageTypeOK
    <3>4. CASE ChangeContext(c)
      <4>1. calls'[c].pc = "mark"
        BY <3>4 DEF ChangeContext, OutdatedCalls, IdleTurn
      <4> QED  BY <4>1 DEF TurnSound, Recording, Holding, Joining, Judging, Merging
    <3> QED  BY <2>12, <3>1, <3>2, <3>3, <3>4 DEF Judges
  <2>13. CASE Merges(c)
    <3>1. ASSUME NEW e \in Events, NEW f \in Events, BeginMerge(c, e, f) PROVE TurnSound(calls[c])'
      <4>1. /\ calls'[c].pc = "child" /\ calls'[c].event = e /\ calls'[c].other = f
            /\ calls'[c].into = f /\ Row(e) /\ Row(f)
        BY <3>1 DEF BeginMerge, Enter, Canonical, Row, IdleTurn, TriageTypeOK
      <4>2. Row(e)' /\ Row(f)'
        BY <4>1, RowsStay
      <4> QED  BY <4>1, <4>2 DEF TurnSound, Recording, Holding, Joining, Judging, Merging
    <3>2. ASSUME NEW e \in Events, BeginUnmerge(c, e) PROVE TurnSound(calls[c])'
      <4>1. PICK f : f = events[e].into
        OBVIOUS
      <4>2. /\ calls'[c].pc = "link" /\ calls'[c].event = e /\ calls'[c].other = f
            /\ calls'[c].into = None /\ Row(e) /\ Row(f)
        BY <3>2, <4>1 DEF BeginUnmerge, Enter, Row, NamedInv, IdleTurn, TriageTypeOK
      <4>3. Row(e)' /\ Row(f)'
        BY <4>2, RowsStay
      <4> QED  BY <4>2, <4>3 DEF TurnSound, Recording, Holding, Joining, Judging, Merging
    <3>3. CASE CheckChild(c) \/ Link(c)
      <4>1. \/ calls'[c] = IdleTurn
            \/ /\ calls[c].pc \in {"child", "link"} /\ calls'[c].pc \in {"link", "linkFlag"}
               /\ calls'[c].event = calls[c].event /\ calls'[c].other = calls[c].other
               /\ calls'[c].into = calls[c].into
        BY <2>1, <3>3 DEF CheckChild, Link, At, Goto, Leave, TriageTypeOK, CallState
      <4> QED  BY <2>1, <2>2, <2>3, <2>4, <4>1
               DEF TurnSound, Recording, Holding, Joining, Judging, Merging
    <3>4. CASE FlagLinked(c)
      BY <2>4, <3>4 DEF FlagLinked, Leave, TriageTypeOK
    <3> QED  BY <2>13, <3>1, <3>2, <3>3, <3>4 DEF Merges
  <2>14. CASE Abandon(c)
    BY <2>4, <2>14 DEF Abandon, Leave, TriageTypeOK
  <2> QED  BY <2>5, <2>6, <2>7, <2>8, <2>9, <2>10, <2>11, <2>12, <2>13, <2>14 DEF StepOf, Records
<1> QED  BY <1>1, <1>2 DEF TurnInv

-----------------------------------------------------------------------------
(* How the rows that name events change, whatever step is taken: a message *)
(* joins once, a key is given once, an event is made, touched or linked.   *)
LEMMA MemberMoves ==
  ASSUME TriageTypeOK, [TriageNext]_triageVars, NEW m \in Mails
  PROVE  \/ member'[m] = member[m]
         \/ \E c \in Calls : /\ Join(c) /\ calls[c].mail = m
                             /\ member[m] = None /\ member'[m] = calls[c].event
<1>1. CASE UNCHANGED member
  BY <1>1
<1>2. ASSUME NEW c \in Calls, Join(c)
      PROVE  member'[m] = member[m]
             \/ (calls[c].mail = m /\ member[m] = None /\ member'[m] = calls[c].event)
  BY <1>2 DEF Join, TriageTypeOK
<1>3. ASSUME NEW c \in Calls, StepOf(c), ~Join(c) PROVE UNCHANGED member
  BY <1>3 DEF StepOf, Ingests, Records, Judges, Merges, Ingest, Replay, WriteFacts, Known, Match,
       Redirect, Create, InsertKey, Touch, FlagJoined, Supersede, Judge, Prepare, Save,
       ChangeContext, markUocChanged, BeginMerge, BeginUnmerge, CheckChild, Link, FlagLinked,
       Abandon, Enter, OnlyCalls, tables
<1> QED  BY <1>1, <1>2, <1>3, NextCases DEF InboxState, Tick, triageVars, tables

LEMMA KeyMoves ==
  ASSUME TriageTypeOK, [TriageNext]_triageVars, NEW k \in Keys
  PROVE  \/ keys'[k] = keys[k]
         \/ \E c \in Calls : InsertKey(c) /\ keys'[k] = calls[c].event
<1>1. CASE UNCHANGED keys
  BY <1>1
<1>2. ASSUME NEW c \in Calls, InsertKey(c)
      PROVE  keys'[k] = keys[k] \/ keys'[k] = calls[c].event
  BY <1>2 DEF InsertKey, KeysWith, TriageTypeOK
<1>3. ASSUME NEW c \in Calls, StepOf(c), ~InsertKey(c) PROVE UNCHANGED keys
  BY <1>3 DEF StepOf, Ingests, Records, Judges, Merges, Ingest, Replay, WriteFacts, Known, Match,
       Redirect, Create, Join, Touch, FlagJoined, Supersede, Judge, Prepare, Save,
       ChangeContext, markUocChanged, BeginMerge, BeginUnmerge, CheckChild, Link, FlagLinked,
       Abandon, Enter, OnlyCalls, tables
<1> QED  BY <1>1, <1>2, <1>3, NextCases DEF InboxState, Tick, triageVars, tables

LEMMA EventMoves ==
  ASSUME EventInv, [TriageNext]_triageVars, NEW e \in Events
  PROVE  \/ events'[e] = events[e]
         \/ \E c \in Calls : /\ Create(c) /\ ~Row(e) /\ calls'[c].event = e
                             /\ events'[e] = [into |-> None, state |-> StateOf[calls[c].mail]]
         \/ \E c \in Calls : /\ Touch(c) /\ calls[c].event = e
                             /\ events'[e] = [events[e] EXCEPT !.state = StateOf[calls[c].mail]]
         \/ \E c \in Calls : /\ Link(c) /\ calls[c].event = e
                             /\ events'[e] = [events[e] EXCEPT !.into = calls[c].into]
<1> USE DEF EventInv
<1>1. CASE UNCHANGED events
  BY <1>1
<1>2. ASSUME NEW c \in Calls, Create(c), events'[e] # events[e]
      PROVE  /\ ~Row(e) /\ calls'[c].event = e
             /\ events'[e] = [into |-> None, state |-> StateOf[calls[c].mail]]
  <2>1. PICK f \in Events :
          /\ events[f] = None
          /\ events' = [events EXCEPT ![f] = [into |-> None, state |-> StateOf[calls[c].mail]]]
          /\ calls' = [calls EXCEPT ![c].pc = "join", ![c].event = f, ![c].fresh = TRUE]
    BY <1>2 DEF Create
  <2>2. e = f
    BY <1>2, <2>1 DEF TriageTypeOK
  <2>3. calls[c] \in CallState
    BY CallType
  <2> QED  BY <2>1, <2>2, <2>3 DEF Row, TriageTypeOK, CallState
<1>3. ASSUME NEW c \in Calls, Touch(c), events'[e] # events[e]
      PROVE  /\ calls[c].event = e
             /\ events'[e] = [events[e] EXCEPT !.state = StateOf[calls[c].mail]]
  BY <1>3 DEF Touch, TriageTypeOK
<1>4. ASSUME NEW c \in Calls, Link(c), events'[e] # events[e]
      PROVE  calls[c].event = e /\ events'[e] = [events[e] EXCEPT !.into = calls[c].into]
  BY <1>4 DEF Link, TriageTypeOK
<1>5. ASSUME NEW c \in Calls, StepOf(c), ~Create(c), ~Touch(c), ~Link(c) PROVE UNCHANGED events
  BY <1>5 DEF StepOf, Ingests, Records, Judges, Merges, Ingest, Replay, WriteFacts, Known, Match,
       Redirect, Join, InsertKey, FlagJoined, Supersede, Judge, Prepare, Save, ChangeContext,
       markUocChanged, BeginMerge, BeginUnmerge, CheckChild, FlagLinked, Abandon, Enter,
       OnlyCalls, tables
<1> QED  BY <1>1, <1>2, <1>3, <1>4, <1>5, NextCases DEF InboxState, Tick, triageVars, tables

(* A judgment changes only as another is saved; otherwise it is flagged,   *)
(* or made under another context.                                          *)
Aged(d, e) == /\ e # None /\ d # None /\ d.judgment = e.judgment
              /\ d.stale \/ (d.stale = e.stale /\ d.sees = e.sees)
LEMMA FlaggedAged ==
  ASSUME TriageTypeOK, NEW es, NEW e \in Events
  PROVE  /\ Flagged(es)[e] = decisions[e] \/ Aged(Flagged(es)[e], decisions[e])
         /\ e \in es => Flagged(es)[e] = None \/ Flagged(es)[e].stale
<1>1. CASE decisions[e] = None \/ e \notin es
  BY <1>1 DEF Flagged
<1>2. CASE decisions[e] # None /\ e \in es
  <2>1. decisions[e] \in DecisionRow
    BY <1>2 DEF TriageTypeOK
  <2>2. Flagged(es)[e] = [decisions[e] EXCEPT !.stale = TRUE, !.current = FALSE, !.at = 0, !.sees = {}]
    BY <1>2 DEF Flagged
  <2>3. Flagged(es)[e] \in DecisionRow
    <3>1. 0 \in 0..MaxClock
      BY TriageAssumption
    <3> QED  BY <2>1, <2>2, <3>1 DEF DecisionRow
  <2>4. Flagged(es)[e].judgment = decisions[e].judgment /\ Flagged(es)[e].stale
    BY <2>1, <2>2 DEF DecisionRow
  <2> QED  BY <1>2, <2>3, <2>4, TriageRowAssumption DEF Aged
<1> QED  BY <1>1, <1>2

LEMMA OutdatedAged ==
  ASSUME TriageTypeOK, NEW e \in Events
  PROVE  OutdatedDecisions[e] = decisions[e] \/ Aged(OutdatedDecisions[e], decisions[e])
<1>1. CASE decisions[e] = None
  BY <1>1 DEF OutdatedDecisions
<1>2. CASE decisions[e] # None
  <2>1. decisions[e] \in DecisionRow
    BY <1>2 DEF TriageTypeOK
  <2>2. OutdatedDecisions[e] = [decisions[e] EXCEPT !.current = FALSE]
    BY <1>2 DEF OutdatedDecisions
  <2>3. /\ OutdatedDecisions[e] \in DecisionRow
        /\ OutdatedDecisions[e].judgment = decisions[e].judgment
        /\ OutdatedDecisions[e].stale = decisions[e].stale
        /\ OutdatedDecisions[e].sees = decisions[e].sees
    BY <2>1, <2>2 DEF DecisionRow
  <2> QED  BY <1>2, <2>3, TriageRowAssumption DEF Aged
<1> QED  BY <1>1, <1>2

LEMMA DecisionMoves ==
  ASSUME EventInv, [TriageNext]_triageVars, NEW e \in Events
  PROVE  \/ decisions'[e] = decisions[e]
         \/ Aged(decisions'[e], decisions[e])
         \/ \E c \in Calls :
              /\ Save(c) /\ calls[c].event = e
              /\ decisions'[e] = [judgment |-> calls[c].judgment, stale |-> FALSE,
                                  current |-> calls[c].current, at |-> clock, sees |-> calls[c].sees]
<1> USE DEF EventInv
<1>1. CASE UNCHANGED decisions
  BY <1>1
<1>2. ASSUME NEW c \in Calls, Save(c), decisions'[e] # decisions[e]
      PROVE  /\ calls[c].event = e
             /\ decisions'[e] = [judgment |-> calls[c].judgment, stale |-> FALSE,
                                 current |-> calls[c].current, at |-> clock, sees |-> calls[c].sees]
  BY <1>2 DEF Save, TriageTypeOK
<1>3. ASSUME NEW es, decisions' = Flagged(es) \/ decisions' = OutdatedDecisions
      PROVE  decisions'[e] = decisions[e] \/ Aged(decisions'[e], decisions[e])
  BY <1>3, FlaggedAged, OutdatedAged
<1>4. ASSUME NEW f \in Events, InboxState(f)
      PROVE  decisions'[e] = decisions[e] \/ Aged(decisions'[e], decisions[e])
  BY <1>3, <1>4 DEF InboxState
<1>5. ASSUME NEW c \in Calls, StepOf(c), ~Save(c)
      PROVE  decisions'[e] = decisions[e] \/ Aged(decisions'[e], decisions[e])
  <2>1. CASE ChangeContext(c) \/ markUocChanged(c) \/ FlagJoined(c) \/ FlagLinked(c)
    BY <1>3, <2>1 DEF ChangeContext, markUocChanged, FlagJoined, FlagLinked
  <2>2. ASSUME NEW m \in Mails, Ingest(c, m)
        PROVE  decisions'[e] = decisions[e] \/ Aged(decisions'[e], decisions[e])
    BY <1>3, <2>2 DEF Ingest
  <2>3. ASSUME ~ChangeContext(c), ~markUocChanged(c), ~FlagJoined(c), ~FlagLinked(c),
               \A m \in Mails : ~Ingest(c, m)
        PROVE  UNCHANGED decisions
    BY <1>5, <2>3 DEF StepOf, Ingests, Records, Judges, Merges, Replay, WriteFacts, Known, Match,
       Redirect, Create, Join, InsertKey, Touch, Supersede, Judge, Prepare,
       BeginMerge, BeginUnmerge, CheckChild, Link, Abandon, Enter, OnlyCalls, tables
  <2> QED  BY <2>1, <2>2, <2>3
<1> QED  BY <1>1, <1>2, <1>4, <1>5, NextCases DEF Tick, triageVars, tables

(* What is named stays a row. *)
LEMMA NamedKept ==
  ASSUME EventInv, [TriageNext]_triageVars
  PROVE  NamedInv'
<1> USE DEF EventInv
<1>1. ASSUME NEW m \in Mails PROVE (member[m] # None => Row(member[m]))'
  <2>1. PICK e : e = member'[m]
    OBVIOUS
  <2>2. e # None => Row(e)
    BY <2>1, MemberMoves DEF NamedInv, TurnInv, TurnSound, Join, At, Holding, Joining
  <2>3. e # None => Row(e)'
    BY <2>2, RowsStay
  <2> QED  BY <2>1, <2>3
<1>2. ASSUME NEW k \in Keys PROVE (keys[k] # None => Row(keys[k]))'
  <2>1. PICK e : e = keys'[k]
    OBVIOUS
  <2>2. e # None => Row(e)
    BY <2>1, KeyMoves DEF NamedInv, TurnInv, TurnSound, InsertKey, At, Holding, Joining
  <2>3. e # None => Row(e)'
    BY <2>2, RowsStay
  <2> QED  BY <2>1, <2>3
<1>3. ASSUME NEW e \in Events, decisions'[e] # None
      PROVE  Row(e)' /\ Accepted(decisions'[e].judgment)
  <2>1. Row(e) /\ Accepted(decisions'[e].judgment)
    <3>1. CASE decisions'[e] = decisions[e] \/ Aged(decisions'[e], decisions[e])
      BY <1>3, <3>1 DEF NamedInv, Aged
    <3>2. ASSUME NEW c \in Calls, Save(c), calls[c].event = e,
                 decisions'[e] = [judgment |-> calls[c].judgment, stale |-> FALSE,
                                  current |-> calls[c].current, at |-> clock, sees |-> calls[c].sees]
          PROVE  Row(e) /\ Accepted(decisions'[e].judgment)
      BY <3>2 DEF Save, At, TurnInv, TurnSound, Holding, Judging
    <3> QED  BY <3>1, <3>2, DecisionMoves
  <2> QED  BY <2>1, RowsStay
<1>4. ASSUME NEW e \in Events, Row(e)', events'[e].into # None PROVE Row(events[e].into)'
  <2>1. PICK f : f = events'[e].into
    OBVIOUS
  <2>2. Row(f)
    <3>1. CASE events'[e] = events[e]
      BY <1>4, <2>1, <3>1 DEF NamedInv, Row
    <3>2. ASSUME NEW c \in Calls, Touch(c), calls[c].event = e,
                 events'[e] = [events[e] EXCEPT !.state = StateOf[calls[c].mail]]
          PROVE  Row(f)
      <4>1. Row(e)
        BY <3>2 DEF Touch, At, TurnInv, TurnSound, Holding, Joining
      <4>2. events'[e].into = events[e].into
        BY <3>2, <4>1 DEF Row, TriageTypeOK, EventRow
      <4> QED  BY <1>4, <2>1, <4>1, <4>2 DEF NamedInv
    <3>3. ASSUME NEW c \in Calls, Link(c), calls[c].event = e,
                 events'[e] = [events[e] EXCEPT !.into = calls[c].into]
          PROVE  Row(f)
      <4>1. Row(e) /\ calls[c].into \in {None, calls[c].other} /\ Row(calls[c].other)
        BY <3>3 DEF Link, At, TurnInv, TurnSound, Holding, Merging
      <4>2. events'[e].into = calls[c].into
        BY <3>3, <4>1 DEF Row, TriageTypeOK, EventRow
      <4> QED  BY <1>4, <2>1, <4>1, <4>2
    <3>4. ASSUME NEW c \in Calls,
                 events'[e] = [into |-> None, state |-> StateOf[calls[c].mail]]
          PROVE  FALSE
      BY <1>4, <3>4
    <3> QED  BY <1>4, <2>1, <3>1, <3>2, <3>3, <3>4, EventMoves
  <2>3. Row(f)'
    BY <2>2, RowsStay
  <2> QED  BY <2>1, <2>3
<1> QED  BY <1>1, <1>2, <1>3, <1>4 DEF NamedInv

LEMMA EventsInit == TriageInit => EventInv
<1> SUFFICES ASSUME TriageInit PROVE EventInv
  OBVIOUS
<1>1. TriageTypeOK
  BY IdleTurnType, TriageAssumption DEF TriageInit, TriageTypeOK
<1>2. TurnInv /\ NamedInv
  BY DEF TriageInit, TurnInv, TurnSound, NamedInv, Row, IdleTurn, Recording, Holding, Joining,
         Judging, Merging
<1> QED  BY <1>1, <1>2 DEF EventInv

LEMMA EventsKept == EventInv /\ [TriageNext]_triageVars => EventInv'
<1> SUFFICES ASSUME EventInv, [TriageNext]_triageVars PROVE EventInv'
  OBVIOUS
<1>1. TurnInv'
  <2>1. CASE UNCHANGED calls
    <3>1. ASSUME NEW d \in Calls PROVE TurnSound(calls[d])'
      <4>1. PICK e, f : e = calls[d].event /\ f = calls[d].other
        OBVIOUS
      <4>2. (Row(e) => Row(e)') /\ (Row(f) => Row(f)')
        BY RowsStay
      <4>3. TurnSound(calls[d])
        BY DEF EventInv, TurnInv
      <4> QED  BY <2>1, <4>1, <4>2, <4>3 DEF TurnSound
    <3> QED  BY <3>1 DEF TurnInv
  <2> QED  BY <2>1, TurnKept, NextCases DEF InboxState, Tick, triageVars
<1> QED  BY <1>1, TypesKept, NamedKept DEF EventInv

(* Every row of the triage tables keeps its type under recordTriageEvent,  *)
(* the agent's judgments, merges and replays: what a step finds at each    *)
(* statement is of the kind it takes it for.                               *)
THEOREM TriageTypeCorrect == TriageSpec => []TriageTypeOK
<1>1. EventInv => TriageTypeOK
  BY DEF EventInv
<1> QED  BY <1>1, EventsInit, EventsKept, PTL DEF TriageSpec

(* Besides, whatever the triage service's statements name is there: the    *)
(* event a call holds, the one a message, a key, a decision or a merged    *)
(* event points to.                                                        *)
THEOREM EventsHold == TriageSpec => []EventInv
BY EventsInit, EventsKept, PTL DEF TriageSpec

-----------------------------------------------------------------------------
(* What has overlapped stays on record. *)
LEMMA MixedStays ==
  ASSUME [TriageNext]_triageVars
  PROVE  mixed \subseteq mixed'
<1>1. ASSUME NEW c \in Calls, StepOf(c) PROVE mixed \subseteq mixed'
  BY <1>1 DEF StepOf, Ingests, Records, Judges, Merges, Ingest, Replay, WriteFacts, Known, Match,
       Redirect, Create, Join, InsertKey, Touch, FlagJoined, Supersede, Judge, Prepare, Save,
       ChangeContext, markUocChanged, BeginMerge, BeginUnmerge, CheckChild, Link, FlagLinked,
       Abandon, Enter, OnlyCalls
<1> QED  BY <1>1, NextCases DEF InboxState, Tick, triageVars

(* How a call comes to be at a statement of a merge. *)
StartsMerge(d, e, f) ==
  /\ BeginMerge(d, e, f) /\ calls'[d].pc = "child" /\ calls'[d].event = e
  /\ calls'[d].other = f /\ calls'[d].into = f
StartsUnmerge(d, e) ==
  /\ BeginUnmerge(d, e) /\ calls'[d].pc = "link" /\ calls'[d].event = e
  /\ calls'[d].other = events[e].into /\ calls'[d].into = None
SameLink(d) ==
  /\ calls'[d].event = calls[d].event /\ calls'[d].other = calls[d].other
  /\ calls'[d].into = calls[d].into
MayLink(d) ==
  /\ CheckChild(d) /\ Childless(calls[d].event)
  /\ calls[d].pc = "child" /\ calls'[d].pc = "link" /\ SameLink(d)
HasLinked(d) == Link(d) /\ calls[d].pc = "link" /\ calls'[d].pc = "linkFlag" /\ SameLink(d)

LEMMA MergeMoves ==
  ASSUME EventInv, [TriageNext]_triageVars, NEW d \in Calls, calls'[d].pc \in Merging
  PROVE  \/ Unmoved(d)
         \/ \E e, f \in Events : StartsMerge(d, e, f)
         \/ \E e \in Events : StartsUnmerge(d, e)
         \/ MayLink(d)
         \/ HasLinked(d)
<1> USE DEF EventInv
<1>1. CASE UNCHANGED calls
  BY <1>1 DEF Unmoved
<1>2. ASSUME NEW c \in Calls, StepOf(c), c # d PROVE Unmoved(d)
  BY <1>2, OthersUnmoved
<1>3. calls[d] \in CallState
  BY CallType
<1>4. calls'[d] # IdleTurn
  BY DEF IdleTurn, Merging
<1>5. CASE Ingests(d)
  <2>1. PICK m \in Mails : Ingest(d, m) \/ Replay(d, m)
    BY <1>5 DEF Ingests
  <2>2. calls'[d] = Recorded(m)
    BY <2>1 DEF Ingest, Replay, Enter, OutdatedCalls, TriageTypeOK
  <2> QED  BY <2>2 DEF Recorded, IdleTurn, Merging
<1>6. CASE Records(d)
  <2>1. ASSUME InsertKey(d) PROVE calls'[d] = IdleTurn \/ calls'[d].pc \in {"touch", "supersede", "keys"}
    <3>1. PICK next : next = [calls[d] EXCEPT !.left = Tail(@)]
      OBVIOUS
    <3>2. next.pc = "keys" /\ calls'[d] = IF next.left = <<>> THEN AfterKeys(next) ELSE next
      BY <1>3, <2>1, <3>1 DEF InsertKey, At, TriageTypeOK, CallState
    <3>3. [next EXCEPT !.pc = "touch"].pc = "touch" /\ [next EXCEPT !.pc = "supersede"].pc = "supersede"
      BY <1>3, <3>1 DEF CallState
    <3> QED  BY <3>2, <3>3 DEF AfterKeys
  <2>2. ASSUME ~InsertKey(d) PROVE calls'[d] = IdleTurn \/ calls'[d].pc \notin Merging
    <3>1. ASSUME WriteFacts(d) \/ Known(d) \/ Join(d) \/ Touch(d) \/ FlagJoined(d) \/ Supersede(d)
          PROVE  calls'[d] = IdleTurn \/ calls'[d].pc \notin Merging
      BY <1>3, <3>1 DEF WriteFacts, Known, Join, Touch, FlagJoined, Supersede, Goto, Leave,
         TriageTypeOK, CallState, Merging
    <3>2. ASSUME Match(d) PROVE calls'[d].pc \notin Merging
      BY <1>3, <3>2 DEF Match, Goto, TriageTypeOK, CallState, Merging
    <3>3. ASSUME Redirect(d) PROVE calls'[d].pc \notin Merging
      BY <1>3, <3>3 DEF Redirect, TriageTypeOK, CallState, Merging
    <3>4. ASSUME Create(d) PROVE calls'[d].pc \notin Merging
      BY <1>3, <3>4 DEF Create, TriageTypeOK, CallState, Merging
    <3> QED  BY <1>6, <2>2, <3>1, <3>2, <3>3, <3>4 DEF Records
  <2> QED  BY <1>4, <2>1, <2>2 DEF Merging
<1>7. CASE Judges(d)
  <2>1. CASE ChangeContext(d)
    BY <2>1 DEF ChangeContext, OutdatedCalls, IdleTurn, Merging
  <2>2. ASSUME ~ChangeContext(d) PROVE calls'[d] = IdleTurn \/ calls'[d].pc \notin Merging
    <3>1. ASSUME NEW e \in Events, Judge(d, e) PROVE calls'[d].pc \notin Merging
      BY <3>1 DEF Judge, Enter, IdleTurn, TriageTypeOK, Merging
    <3>2. ASSUME NEW j \in Judgments, Prepare(d, j)
          PROVE  calls'[d] = IdleTurn \/ calls'[d].pc \notin Merging
      BY <1>3, <3>2 DEF Prepare, Leave, TriageTypeOK, CallState, Merging
    <3>3. ASSUME Save(d) \/ markUocChanged(d) PROVE calls'[d] = IdleTurn
      BY <3>3 DEF Save, markUocChanged, Leave, TriageTypeOK
    <3> QED  BY <1>7, <2>2, <3>1, <3>2, <3>3 DEF Judges
  <2> QED  BY <1>4, <2>1, <2>2
<1>8. CASE Merges(d)
  <2>1. ASSUME NEW e \in Events, NEW f \in Events, BeginMerge(d, e, f) PROVE StartsMerge(d, e, f)
    BY <2>1 DEF BeginMerge, Enter, IdleTurn, TriageTypeOK, StartsMerge
  <2>2. ASSUME NEW e \in Events, BeginUnmerge(d, e) PROVE StartsUnmerge(d, e)
    BY <2>2 DEF BeginUnmerge, Enter, IdleTurn, TriageTypeOK, StartsUnmerge
  <2>3. ASSUME CheckChild(d) PROVE MayLink(d)
    BY <1>3, <1>4, <2>3 DEF CheckChild, At, Goto, Leave, TriageTypeOK, CallState, MayLink, SameLink
  <2>4. ASSUME Link(d) PROVE HasLinked(d)
    BY <1>3, <2>4 DEF Link, At, Goto, TriageTypeOK, CallState, HasLinked, SameLink
  <2>5. ~FlagLinked(d)
    BY <1>4 DEF FlagLinked, Leave, TriageTypeOK
  <2> QED  BY <1>8, <2>1, <2>2, <2>3, <2>4, <2>5 DEF Merges
<1>9. ~Abandon(d)
  BY <1>4 DEF Abandon, Leave, TriageTypeOK
<1> QED  BY <1>1, <1>2, <1>5, <1>6, <1>7, <1>8, <1>9, NextCases DEF StepOf, InboxState, Tick, triageVars

(* Only a link moves an event under another. *)
LEMMA IntoStays ==
  ASSUME EventInv, [TriageNext]_triageVars, \A c \in Calls : ~Link(c), NEW e \in Events
  PROVE  /\ Row(e) => Row(e)' /\ events'[e].into = events[e].into
         /\ ~Row(e) /\ Row(e)' => events'[e].into = None
<1>1. ASSUME NEW c \in Calls, Touch(c), calls[c].event = e,
             events'[e] = [events[e] EXCEPT !.state = StateOf[calls[c].mail]]
      PROVE  Row(e) /\ events'[e].into = events[e].into
  <2>1. Row(e)
    BY <1>1 DEF Touch, At, EventInv, TurnInv, TurnSound, Holding, Joining
  <2> QED  BY <1>1, <2>1 DEF Row, EventInv, TriageTypeOK, EventRow
<1>2. Row(e) => Row(e)'
  BY RowsStay
<1>3. \/ events'[e] = events[e]
      \/ Row(e) /\ events'[e].into = events[e].into
      \/ ~Row(e) /\ events'[e].into = None
  <2>1. ASSUME NEW c \in Calls,
               events'[e] = [into |-> None, state |-> StateOf[calls[c].mail]]
        PROVE  events'[e].into = None
    BY <2>1
  <2> QED  BY <1>1, <2>1, EventMoves
<1> QED  BY <1>2, <1>3 DEF Row

LEMMA LinksStay ==
  ASSUME EventInv, [TriageNext]_triageVars, \A c \in Calls : ~Link(c),
         NEW call, TurnSound(call), LinkSound(call)
  PROVE  LinkSound(call)'
<1>1. call.pc \in Merging => Row(call.event) /\ Row(call.other)
  BY DEF TurnSound, Holding, Merging
<1>2. ASSUME NEW e \in Events, Canonical(e) PROVE Canonical(e)'
  BY <1>2, IntoStays DEF Canonical, Row
<1>3. ASSUME NEW e \in Events, Childless(e) PROVE Childless(e)'
  <2>1. None # e
    BY TriageAssumption
  <2> QED  BY <1>3, <2>1, IntoStays DEF Childless, Row
<1> QED  BY <1>1, <1>2, <1>3, IntoStays DEF LinkSound, Apart, Merging, Row

LEMMA MergesKept ==
  ASSUME EventInv, MergeInv, [TriageNext]_triageVars
  PROVE  MergeInv'
<1> SUFFICES ASSUME "merge" \notin mixed'
             PROVE  (OneMerge /\ Flat /\ \A c \in Calls : LinkSound(calls[c]))'
  BY DEF MergeInv
<1>1. OneMerge /\ Flat /\ \A c \in Calls : LinkSound(calls[c])
  BY MixedStays DEF MergeInv
<1>2. ASSUME NEW c \in Calls, calls'[c].pc \in Merging, calls[c].pc \notin Merging
      PROVE  ~Some(Merging)
  <2>1. ASSUME NEW e \in Events, NEW f \in Events, StartsMerge(c, e, f) PROVE ~Some(Merging)
    <3>1. mixed' = mixed \union Mixes("child")
      BY <2>1 DEF StartsMerge, BeginMerge, Enter, IdleTurn
    <3> QED  BY <3>1 DEF Mixes, Merging, Judging
  <2>2. ASSUME NEW e \in Events, StartsUnmerge(c, e) PROVE ~Some(Merging)
    <3>1. mixed' = mixed \union Mixes("link")
      BY <2>2 DEF StartsUnmerge, BeginUnmerge, Enter, IdleTurn
    <3> QED  BY <3>1 DEF Mixes, Merging, Judging
  <2> QED  BY <1>2, <2>1, <2>2, MergeMoves DEF Unmoved, MayLink, HasLinked, Merging
<1>3. OneMerge'
  <2>1. ASSUME NEW c \in Calls, NEW d \in Calls, c # d,
               calls'[c].pc \in Merging, calls'[d].pc \in Merging
        PROVE  FALSE
    <3>1. CASE calls[c].pc \in Merging /\ calls[d].pc \in Merging
      BY <1>1, <2>1, <3>1 DEF OneMerge
    <3>2. CASE calls[c].pc \notin Merging /\ calls[d].pc \in Merging
      BY <1>2, <2>1, <3>2 DEF Some
    <3>3. CASE calls[c].pc \in Merging /\ calls[d].pc \notin Merging
      BY <1>2, <2>1, <3>3 DEF Some
    <3>4. CASE calls[c].pc \notin Merging /\ calls[d].pc \notin Merging
      <4>1. Unmoved(c) \/ Unmoved(d)
        <5>1. CASE UNCHANGED calls
          BY <5>1 DEF Unmoved
        <5>2. ASSUME NEW x \in Calls, StepOf(x) PROVE Unmoved(c) \/ Unmoved(d)
          BY <2>1, <5>2, OthersUnmoved DEF EventInv
        <5> QED  BY <5>1, <5>2, NextCases DEF InboxState, Tick, triageVars
      <4> QED  BY <2>1, <3>4, <4>1 DEF Unmoved
    <3> QED  BY <3>1, <3>2, <3>3, <3>4
  <2> QED  BY <2>1 DEF OneMerge
<1>4. ASSUME NEW c \in Calls, Link(c)
      PROVE  /\ calls[c].pc = "link" /\ Row(calls[c].event) /\ TurnSound(calls[c]) /\ LinkSound(calls[c])
             /\ events' = [events EXCEPT ![calls[c].event] = [events[calls[c].event] EXCEPT !.into = calls[c].into]]
             /\ events'[calls[c].event].into = calls[c].into
  <2>1. calls[c].pc = "link" /\ TurnSound(calls[c]) /\ LinkSound(calls[c]) /\ Row(calls[c].event)
    BY <1>1, <1>4 DEF Link, At, EventInv, TurnInv, TurnSound, Holding, Merging
  <2>2. events[calls[c].event] \in EventRow
    BY <2>1 DEF Row, EventInv, TriageTypeOK
  <2> QED  BY <1>4, <2>1, <2>2 DEF Link, Row, EventInv, TriageTypeOK, EventRow
<1>5. Flat'
  <2>1. ASSUME NEW e \in Events, Row(e)', events'[e].into # None PROVE Canonical(events[e].into)'
    <3>1. CASE \A c \in Calls : ~Link(c)
      <4>1. PICK f : f = events'[e].into
        OBVIOUS
      <4>2. Row(e) /\ f = events[e].into
        BY <2>1, <3>1, <4>1, IntoStays
      <4>3. Row(f) /\ Canonical(f)
        BY <1>1, <2>1, <4>1, <4>2 DEF Flat, EventInv, NamedInv
      <4>4. Canonical(f)'
        BY <3>1, <4>3, IntoStays DEF Canonical, Row
      <4> QED  BY <4>1, <4>4
    <3>2. ASSUME NEW c \in Calls, Link(c) PROVE Canonical(events[e].into)'
      <4>1. PICK s, t : s = calls[c].event /\ t = calls[c].into
        OBVIOUS
      <4>2. /\ s \in Events /\ events'[s].into = t
            /\ \A x \in Events : x # s => events'[x] = events[x]
            /\ t # None => /\ Canonical(t) /\ t \in Events /\ t # s
                           /\ Canonical(s) /\ Childless(s)
        BY <1>4, <3>2, <4>1 DEF Row, LinkSound, Apart, TurnSound, Merging, EventInv, TriageTypeOK
      <4>3. CASE e = s
        BY <2>1, <4>2, <4>3 DEF Canonical
      <4>4. CASE e # s
        <5>1. PICK f : f = events[e].into
          OBVIOUS
        <5>2. events'[e] = events[e] /\ Row(e) /\ Row(f) /\ Canonical(f)
          BY <1>1, <2>1, <4>2, <4>4, <5>1 DEF Flat, Row, EventInv, NamedInv
        <5>3. f # s \/ t = None
          BY <4>2, <5>1, <5>2 DEF Childless, Row
        <5>4. Canonical(f)'
          <6>1. Row(f)'
            BY <5>2, RowsStay
          <6> QED  BY <4>2, <5>2, <5>3, <6>1 DEF Canonical, Row
        <5> QED  BY <5>1, <5>2, <5>4
      <4> QED  BY <4>3, <4>4
    <3> QED  BY <3>1, <3>2
  <2> QED  BY <2>1 DEF Flat
<1>6. ASSUME NEW d \in Calls PROVE LinkSound(calls[d])'
  <2>1. CASE calls'[d].pc \notin Merging
    BY <2>1 DEF LinkSound, Merging
  <2>2. CASE \E c \in Calls : Link(c)
    <3>1. PICK c \in Calls : Link(c)
      BY <2>2
    <3>2. CASE d = c
      <4>1. calls'[d].pc = "linkFlag"
        BY <3>1, <3>2, CallType DEF Link, Goto, EventInv, TriageTypeOK, CallState
      <4> QED  BY <4>1 DEF LinkSound
    <3>3. CASE d # c
      <4>1. Unmoved(d) /\ calls[d].pc \notin Merging
        BY <1>1, <1>4, <3>1, <3>3, OthersUnmoved DEF OneMerge, Merging, StepOf, Merges, EventInv
      <4> QED  BY <2>1, <4>1 DEF Unmoved
    <3> QED  BY <3>2, <3>3
  <2>3. CASE (\A c \in Calls : ~Link(c)) /\ calls'[d].pc \in Merging
    <3>1. ASSUME Unmoved(d) PROVE LinkSound(calls[d])'
      <4>1. PICK call : call = calls[d]
        OBVIOUS
      <4>2. LinkSound(call)'
        BY <1>1, <2>3, <4>1, LinksStay DEF EventInv, TurnInv
      <4> QED  BY <3>1, <4>1, <4>2 DEF Unmoved, LinkSound, Apart
    <3>2. ASSUME NEW e \in Events, NEW f \in Events, StartsMerge(d, e, f) PROVE LinkSound(calls[d])'
      <4>1. Canonical(e)' /\ Canonical(f)' /\ e # f
        BY <3>2 DEF StartsMerge, BeginMerge, Enter, tables, Canonical
      <4> QED  BY <3>2, <4>1 DEF LinkSound, Apart, StartsMerge
    <3>3. ASSUME NEW e \in Events, StartsUnmerge(d, e) PROVE LinkSound(calls[d])'
      BY <3>3 DEF StartsUnmerge, BeginUnmerge, Enter, tables, LinkSound
    <3>4. ASSUME MayLink(d) PROVE LinkSound(calls[d])'
      BY <1>1, <3>4 DEF MayLink, SameLink, CheckChild, OnlyCalls, tables, LinkSound, Apart,
         Canonical, Childless, EventInv, TurnInv, TurnSound
    <3> QED  BY <2>3, <3>1, <3>2, <3>3, <3>4, MergeMoves DEF HasLinked
  <2> QED  BY <2>1, <2>2, <2>3
<1> QED  BY <1>3, <1>5, <1>6

(* Merges that come one at a time hide no message of the inbox view and    *)
(* show none twice: merge and unmerge keep every merged event's target     *)
(* unmerged, the only one the view reads.                                  *)
THEOREM MergesShowOnce == TriageSpec => []ShownOnce
<1>1. TriageInit => MergeInv
  BY DEF TriageInit, MergeInv, OneMerge, Flat, LinkSound, Row, IdleTurn, Merging
<1>2. EventInv /\ MergeInv => ShownOnce
  <2> SUFFICES ASSUME EventInv, MergeInv, "merge" \notin mixed,
                      NEW m \in Mails, member[m] # None
               PROVE  \E e \in Events : /\ Canonical(e) /\ m \in Context(e)
                        /\ \A f \in Events : Canonical(f) /\ m \in Context(f) => f = e
    BY DEF ShownOnce
  <2>1. Row(member[m]) /\ None \notin Events
    BY TriageAssumption DEF EventInv, NamedInv
  <2>2. CASE events[member[m]].into = None
    BY <2>1, <2>2 DEF Context, Canonical, Row
  <2>3. CASE events[member[m]].into # None
    <3>1. PICK f : f = events[member[m]].into
      OBVIOUS
    <3>2. Row(f) /\ Canonical(f)
      BY <2>1, <2>3, <3>1 DEF EventInv, NamedInv, MergeInv, Flat, Row
    <3> QED  BY <2>1, <2>3, <3>1, <3>2 DEF Context, Canonical, Row
  <2> QED  BY <2>2, <2>3
<1>3. EventInv /\ MergeInv /\ [TriageNext]_triageVars => MergeInv'
  BY MergesKept
<1> QED  BY <1>1, <1>2, <1>3, EventsInit, EventsKept, PTL DEF TriageSpec

-----------------------------------------------------------------------------
(* How a call comes to be at a statement of a recording, or to judge. *)
LEMMA StillOrOwn ==
  ASSUME EventInv, [TriageNext]_triageVars, NEW d \in Calls
  PROVE  Unmoved(d) \/ StepOf(d)
<1>1. ASSUME UNCHANGED calls PROVE Unmoved(d)
  BY <1>1 DEF Unmoved
<1> QED  BY <1>1, OthersUnmoved, NextCases DEF EventInv, InboxState, Tick, triageVars

StartsRecord(d, m) ==
  /\ Ingest(d, m) \/ Replay(d, m)
  /\ calls'[d].pc = "facts" /\ calls'[d].mail = m /\ calls'[d].left = KeysOf[m] /\ ~calls'[d].fresh
SameRecord(d) ==
  /\ calls[d].pc \in Recording /\ calls'[d].mail = calls[d].mail
GoesOn(d) == SameRecord(d) /\ calls'[d].event = calls[d].event /\ calls'[d].fresh = calls[d].fresh

LEMMA RecordMoves ==
  ASSUME EventInv, [TriageNext]_triageVars, NEW d \in Calls, calls'[d].pc \in Recording
  PROVE  \/ Unmoved(d)
         \/ \E m \in Mails : StartsRecord(d, m)
         \/ WriteFacts(d) /\ calls'[d].pc = "known" /\ GoesOn(d)
         \/ Known(d) /\ calls'[d].pc = "match" /\ GoesOn(d) /\ member[calls[d].mail] = None
         \/ /\ Match(d) /\ calls'[d].pc = "create" /\ GoesOn(d) /\ Matches(calls[d].mail) = {}
         \/ /\ Match(d) /\ calls'[d].pc = "redirect" /\ SameRecord(d)
            /\ calls'[d].fresh = calls[d].fresh /\ calls'[d].event \in Matches(calls[d].mail)
         \/ /\ Redirect(d) /\ calls'[d].pc = "join" /\ SameRecord(d)
            /\ calls'[d].fresh = calls[d].fresh /\ calls'[d].event = Target(calls[d].event)
         \/ /\ Create(d) /\ calls'[d].pc = "join" /\ SameRecord(d) /\ calls'[d].fresh
            /\ calls'[d].event \in Events /\ events[calls'[d].event] = None
            /\ events' = [events EXCEPT ![calls'[d].event] =
                            [into |-> None, state |-> StateOf[calls[d].mail]]]
         \/ Join(d) /\ calls'[d].pc = "keys" /\ GoesOn(d)
         \/ InsertKey(d) /\ calls'[d].pc = "keys" /\ GoesOn(d)
         \/ InsertKey(d) /\ calls'[d].pc = "touch" /\ GoesOn(d) /\ ~calls[d].fresh
         \/ InsertKey(d) /\ calls'[d].pc = "supersede" /\ GoesOn(d) /\ calls[d].fresh
         \/ Touch(d) /\ calls'[d].pc = "flag" /\ GoesOn(d)
         \/ FlagJoined(d) /\ calls'[d].pc = "supersede" /\ GoesOn(d)
<1> USE DEF EventInv
<1>3. calls[d] \in CallState
  BY CallType
<1>4. calls'[d] # IdleTurn
  BY DEF IdleTurn, Recording
<1>5. ASSUME Ingests(d) PROVE \E m \in Mails : StartsRecord(d, m)
  <2>1. PICK m \in Mails : Ingest(d, m) \/ Replay(d, m)
    BY <1>5 DEF Ingests
  <2>2. calls'[d] = Recorded(m)
    BY <2>1 DEF Ingest, Replay, Enter, OutdatedCalls, TriageTypeOK
  <2> QED  BY <2>1, <2>2 DEF Recorded, IdleTurn, StartsRecord
<1>6. CASE WriteFacts(d) \/ Known(d) \/ Join(d) \/ Touch(d) \/ FlagJoined(d) \/ Supersede(d)
  BY <1>3, <1>4, <1>6 DEF WriteFacts, Known, Join, Touch, FlagJoined, Supersede, At, Goto, Leave,
     TriageTypeOK, CallState, GoesOn, SameRecord, Recording
<1>7. CASE Match(d)
  <2>1. calls[d].pc = "match"
    BY <1>7 DEF Match, At
  <2>2. CASE Matches(calls[d].mail) = {}
    BY <1>3, <1>7, <2>1, <2>2 DEF Match, Goto, TriageTypeOK, CallState, GoesOn, SameRecord, Recording
  <2>3. CASE Matches(calls[d].mail) # {}
    <3>1. PICK e : /\ e \in Matches(calls[d].mail)
                   /\ calls' = [calls EXCEPT ![d].pc = "redirect", ![d].event = e]
      BY <1>7, <2>3 DEF Match
    <3> QED  BY <1>3, <1>7, <2>1, <3>1 DEF TriageTypeOK, CallState, SameRecord, Recording
  <2> QED  BY <2>2, <2>3
<1>8. CASE Redirect(d)
  <2>1. /\ calls[d].pc = "redirect"
        /\ calls'[d] = [calls[d] EXCEPT !.pc = "join", !.event = Target(calls[d].event)]
    BY <1>8 DEF Redirect, At, TriageTypeOK
  <2> QED  BY <1>3, <1>8, <2>1 DEF CallState, SameRecord, Recording
<1>9. CASE Create(d)
  <2>1. PICK e \in Events :
          /\ events[e] = None
          /\ events' = [events EXCEPT ![e] = [into |-> None, state |-> StateOf[calls[d].mail]]]
          /\ calls' = [calls EXCEPT ![d].pc = "join", ![d].event = e, ![d].fresh = TRUE]
    BY <1>9 DEF Create
  <2>2. calls[d].pc = "create"
    BY <1>9 DEF Create, At
  <2>3. /\ calls'[d].pc = "join" /\ calls'[d].event = e /\ calls'[d].fresh
        /\ calls'[d].mail = calls[d].mail
    BY <1>3, <2>1 DEF TriageTypeOK, CallState
  <2> QED  BY <1>9, <2>1, <2>2, <2>3 DEF SameRecord, Recording
<1>10. CASE InsertKey(d)
  <2>1. PICK next : next = [calls[d] EXCEPT !.left = Tail(@)]
    OBVIOUS
  <2>2. /\ calls[d].pc = "keys" /\ next.pc = "keys" /\ next.event = calls[d].event
        /\ next.mail = calls[d].mail /\ next.fresh = calls[d].fresh /\ next.fresh \in BOOLEAN
        /\ calls'[d] = IF next.left = <<>> THEN AfterKeys(next) ELSE next
    BY <1>3, <1>10, <2>1 DEF InsertKey, At, TriageTypeOK, CallState
  <2>3. PICK t, s : t = [next EXCEPT !.pc = "touch"] /\ s = [next EXCEPT !.pc = "supersede"]
    OBVIOUS
  <2>4. /\ t.pc = "touch" /\ t.event = next.event /\ t.mail = next.mail /\ t.fresh = next.fresh
        /\ s.pc = "supersede" /\ s.event = next.event /\ s.mail = next.mail /\ s.fresh = next.fresh
    BY <1>3, <2>1, <2>3 DEF CallState
  <2>5. \/ calls'[d] = next
        \/ calls'[d] = t /\ ~next.fresh
        \/ calls'[d] = s /\ next.fresh
    BY <1>4, <2>2, <2>3 DEF AfterKeys
  <2> QED  BY <1>10, <2>2, <2>4, <2>5 DEF GoesOn, SameRecord, Recording
<1>11. CASE Judges(d)
  <2>1. ASSUME NEW e \in Events, Judge(d, e) PROVE calls'[d].pc \notin Recording
    BY <2>1 DEF Judge, Enter, IdleTurn, TriageTypeOK, Recording
  <2>2. ASSUME NEW j \in Judgments, Prepare(d, j)
        PROVE  calls'[d] = IdleTurn \/ calls'[d].pc \notin Recording
    BY <1>3, <2>2 DEF Prepare, Leave, TriageTypeOK, CallState, Recording
  <2>3. ASSUME Save(d) \/ markUocChanged(d) PROVE calls'[d] = IdleTurn
    BY <2>3 DEF Save, markUocChanged, Leave, TriageTypeOK
  <2>4. ASSUME ChangeContext(d) PROVE calls'[d].pc \notin Recording
    BY <2>4 DEF ChangeContext, OutdatedCalls, IdleTurn, Recording
  <2> QED  BY <1>4, <1>11, <2>1, <2>2, <2>3, <2>4 DEF Judges
<1>12. CASE Merges(d)
  <2>1. ASSUME NEW e \in Events, NEW f \in Events, BeginMerge(d, e, f) PROVE calls'[d].pc \notin Recording
    BY <2>1 DEF BeginMerge, Enter, IdleTurn, TriageTypeOK, Recording
  <2>2. ASSUME NEW e \in Events, BeginUnmerge(d, e) PROVE calls'[d].pc \notin Recording
    BY <2>2 DEF BeginUnmerge, Enter, IdleTurn, TriageTypeOK, Recording
  <2>3. ASSUME CheckChild(d) \/ Link(d) \/ FlagLinked(d)
        PROVE  calls'[d] = IdleTurn \/ calls'[d].pc \notin Recording
    BY <1>3, <2>3 DEF CheckChild, Link, FlagLinked, Goto, Leave, TriageTypeOK, CallState, Recording
  <2> QED  BY <1>4, <1>12, <2>1, <2>2, <2>3 DEF Merges
<1>13. ~Abandon(d)
  BY <1>4 DEF Abandon, Leave, TriageTypeOK
<1> QED  BY <1>5, <1>6, <1>7, <1>8, <1>9, <1>10, <1>11, <1>12, <1>13, StillOrOwn DEF StepOf, Records

StartsJudge(d, e) ==
  /\ Judge(d, e) /\ calls'[d].pc = "judging" /\ calls'[d].event = e /\ calls'[d].sees = Context(e)
Prepares(d) ==
  /\ calls[d].pc = "judging" /\ calls'[d].pc = "save" /\ Canonical(calls[d].event) /\ OnlyCalls
  /\ calls'[d].event = calls[d].event /\ calls'[d].sees = calls[d].sees
LEMMA JudgeMoves ==
  ASSUME EventInv, [TriageNext]_triageVars, NEW d \in Calls, calls'[d].pc \in Judging
  PROVE  Unmoved(d) \/ (\E e \in Events : StartsJudge(d, e)) \/ Prepares(d)
<1> USE DEF EventInv
<1>1. calls[d] \in CallState
  BY CallType
<1>2. calls'[d] # IdleTurn
  BY DEF IdleTurn, Judging
<1>3. ASSUME Ingests(d) \/ Records(d) PROVE Unmoved(d)
  <2>1. ASSUME NEW m \in Mails, Ingest(d, m) \/ Replay(d, m) PROVE FALSE
    <3>1. calls'[d] = Recorded(m)
      BY <2>1 DEF Ingest, Replay, Enter, OutdatedCalls, TriageTypeOK
    <3> QED  BY <3>1 DEF Recorded, IdleTurn, Judging
  <2>2. ASSUME WriteFacts(d) \/ Known(d) \/ Join(d) \/ Touch(d) \/ FlagJoined(d) \/ Supersede(d)
        PROVE  FALSE
    BY <1>1, <1>2, <2>2 DEF WriteFacts, Known, Join, Touch, FlagJoined, Supersede, Goto, Leave,
       TriageTypeOK, CallState, Judging
  <2>3. ASSUME Match(d) PROVE FALSE
    BY <1>1, <2>3 DEF Match, Goto, TriageTypeOK, CallState, Judging
  <2>4. ASSUME Redirect(d) \/ Create(d) PROVE FALSE
    <3>1. ASSUME NEW e, NEW f, \/ calls' = [calls EXCEPT ![d].pc = "join", ![d].event = e]
                               \/ calls' = [calls EXCEPT ![d].pc = "join", ![d].event = e, ![d].fresh = f]
          PROVE  FALSE
      BY <1>1, <3>1 DEF TriageTypeOK, CallState, Judging
    <3> QED  BY <2>4, <3>1 DEF Redirect, Create
  <2>5. ASSUME InsertKey(d) PROVE FALSE
    <3>1. PICK next : next = [calls[d] EXCEPT !.left = Tail(@)]
      OBVIOUS
    <3>2. next.pc = "keys" /\ calls'[d] = IF next.left = <<>> THEN AfterKeys(next) ELSE next
      BY <1>1, <2>5, <3>1 DEF InsertKey, At, TriageTypeOK, CallState
    <3>3. [next EXCEPT !.pc = "touch"].pc = "touch" /\ [next EXCEPT !.pc = "supersede"].pc = "supersede"
      BY <1>1, <3>1 DEF CallState
    <3> QED  BY <1>2, <3>2, <3>3 DEF AfterKeys, Judging
  <2> QED  BY <1>3, <2>1, <2>2, <2>3, <2>4, <2>5 DEF Ingests, Records
<1>4. CASE Judges(d)
  <2>1. ASSUME NEW e \in Events, Judge(d, e) PROVE StartsJudge(d, e)
    BY <2>1 DEF Judge, Enter, IdleTurn, TriageTypeOK, StartsJudge
  <2>2. ASSUME NEW j \in Judgments, Prepare(d, j) PROVE Prepares(d)
    BY <1>1, <1>2, <2>2 DEF Prepare, At, Leave, TriageTypeOK, CallState, Prepares
  <2>3. ASSUME Save(d) \/ markUocChanged(d) PROVE FALSE
    BY <1>2, <2>3 DEF Save, markUocChanged, Leave, TriageTypeOK
  <2>4. ASSUME ChangeContext(d) PROVE FALSE
    BY <2>4 DEF ChangeContext, OutdatedCalls, IdleTurn, Judging
  <2> QED  BY <1>4, <2>1, <2>2, <2>3, <2>4 DEF Judges
<1>5. ASSUME Merges(d) PROVE FALSE
  <2>1. ASSUME NEW e \in Events, NEW f \in Events, BeginMerge(d, e, f) PROVE FALSE
    BY <2>1 DEF BeginMerge, Enter, IdleTurn, TriageTypeOK, Judging
  <2>2. ASSUME NEW e \in Events, BeginUnmerge(d, e) PROVE FALSE
    BY <2>2 DEF BeginUnmerge, Enter, IdleTurn, TriageTypeOK, Judging
  <2>3. ASSUME CheckChild(d) \/ Link(d) \/ FlagLinked(d) PROVE FALSE
    BY <1>1, <1>2, <2>3 DEF CheckChild, Link, FlagLinked, Goto, Leave, TriageTypeOK, CallState, Judging
  <2> QED  BY <1>5, <2>1, <2>2, <2>3 DEF Merges
<1>6. ~Abandon(d)
  BY <1>2 DEF Abandon, Leave, TriageTypeOK
<1> QED  BY <1>3, <1>4, <1>5, <1>6, StillOrOwn DEF StepOf

-----------------------------------------------------------------------------
(* What an event shows changes only as a message joins it or one merged    *)
(* into it, or as an event is linked to it or taken from it.               *)
LEMMA OnlyMovers ==
  ASSUME [TriageNext]_triageVars, \A c \in Calls : ~Join(c) /\ ~Link(c)
  PROVE  UNCHANGED member
<1>1. ASSUME NEW c \in Calls, StepOf(c) PROVE UNCHANGED member
  BY <1>1 DEF StepOf, Ingests, Records, Judges, Merges, Ingest, Replay, WriteFacts, Known, Match,
       Redirect, Create, InsertKey, Touch, FlagJoined, Supersede, Judge, Prepare, Save,
       ChangeContext, markUocChanged, BeginMerge, BeginUnmerge, CheckChild, FlagLinked,
       Abandon, Enter, OnlyCalls, tables
<1> QED  BY <1>1, NextCases DEF InboxState, Tick, triageVars, tables

LEMMA ContextMoves ==
  ASSUME EventInv, [TriageNext]_triageVars, NEW e \in Events, Context(e)' # Context(e)
  PROVE  \/ \E c \in Calls : Join(c) /\ (calls[c].event = e \/ events[calls[c].event].into = e)
         \/ \E c \in Calls : Link(c) /\ (events[calls[c].event].into = e \/ calls[c].into = e)
<1> USE DEF EventInv
<1>1. PICK m \in Mails : (m \in Context(e)') # (m \in Context(e))
  BY DEF Context
<1>2. CASE \A c \in Calls : ~Join(c) /\ ~Link(c)
  <2>1. member' = member
    BY <1>2, OnlyMovers
  <2>2. member[m] # None => Row(member[m]) /\ events'[member[m]].into = events[member[m]].into
    BY <1>2, IntoStays DEF NamedInv, Row
  <2> QED  BY <1>1, <2>1, <2>2 DEF Context
<1>3. ASSUME NEW c \in Calls, Join(c)
      PROVE  calls[c].event = e \/ events[calls[c].event].into = e
  <2>1. events' = events
    BY <1>3 DEF Join
  <2>2. member'[m] = member[m] \/ (member[m] = None /\ member'[m] = calls[c].event)
    BY <1>3 DEF Join, TriageTypeOK
  <2> QED  BY <1>1, <2>1, <2>2 DEF Context
<1>4. ASSUME NEW c \in Calls, Link(c)
      PROVE  events[calls[c].event].into = e \/ calls[c].into = e
  <2>1. member' = member
    BY <1>4 DEF Link
  <2>2. Row(calls[c].event)
    BY <1>4 DEF Link, At, TurnInv, TurnSound, Holding, Merging
  <2>3. \A x : events'[x] = events[x] \/ x = calls[c].event
    BY <1>4 DEF Link, TriageTypeOK
  <2>4. events'[calls[c].event].into = calls[c].into
    BY <1>4, <2>2 DEF Link, TriageTypeOK, Row, EventRow
  <2> QED  BY <1>1, <2>1, <2>3, <2>4 DEF Context
<1> QED  BY <1>2, <1>3, <1>4

(* What is owed stays owed until it is paid. *)
LEMMA OwedStays ==
  ASSUME EventInv, [TriageNext]_triageVars, "judgment" \notin mixed',
         NEW e \in Events, Owed(e)
  PROVE  Owed(e)' \/ Unjudged(e)'
<1> USE DEF EventInv
<1>1. PICK d \in Calls : Owes(calls[d], e)
  BY DEF Owed
<1>2. CASE Unmoved(d)
  BY <1>1, <1>2 DEF Unmoved, Owes, Owed
<1>3. CASE StepOf(d)
  <2>1. calls[d] \in CallState
    BY CallType
  <2>2. ~Abandon(d)
    BY DEF Abandon
  <2>3. CASE calls[d].pc = "keys"
    <3>1. InsertKey(d)
      BY <1>3, <2>2, <2>3 DEF StepOf, Ingests, Records, Judges, Merges, Ingest, Replay, WriteFacts,
         Known, Match, Redirect, Create, Join, Touch, FlagJoined, Supersede, Judge, Prepare, Save,
         ChangeContext, markUocChanged, BeginMerge, BeginUnmerge, CheckChild, Link, FlagLinked,
         Enter, At
    <3>2. PICK next : next = [calls[d] EXCEPT !.left = Tail(@)]
      OBVIOUS
    <3>3. /\ next.pc = "keys" /\ next.event = calls[d].event /\ next.fresh = calls[d].fresh
          /\ calls'[d] = IF next.left = <<>> THEN AfterKeys(next) ELSE next
      BY <2>1, <2>3, <3>1, <3>2 DEF InsertKey, TriageTypeOK, CallState
    <3>4. PICK t : t = [next EXCEPT !.pc = "touch"]
      OBVIOUS
    <3>5. t.pc = "touch" /\ t.event = next.event /\ t.fresh = next.fresh
      BY <2>1, <3>2, <3>4 DEF CallState
    <3>6. calls'[d] \in {next, t}
      BY <1>1, <2>3, <3>3, <3>4 DEF AfterKeys, Owes
    <3> QED  BY <1>1, <2>3, <3>3, <3>5, <3>6 DEF Owes, Owed
  <2>4. CASE calls[d].pc = "touch"
    <3>1. Touch(d)
      BY <1>3, <2>2, <2>4 DEF StepOf, Ingests, Records, Judges, Merges, Ingest, Replay, WriteFacts,
         Known, Match, Redirect, Create, Join, InsertKey, FlagJoined, Supersede, Judge, Prepare, Save,
         ChangeContext, markUocChanged, BeginMerge, BeginUnmerge, CheckChild, Link, FlagLinked,
         Enter, At
    <3>2. /\ calls'[d].pc = "flag" /\ calls'[d].event = calls[d].event
          /\ calls'[d].fresh = calls[d].fresh
      BY <2>1, <3>1 DEF Touch, Goto, TriageTypeOK, CallState
    <3> QED  BY <1>1, <2>4, <3>2 DEF Owes, Owed
  <2>5. CASE calls[d].pc = "flag"
    <3>1. FlagJoined(d)
      BY <1>3, <2>2, <2>5 DEF StepOf, Ingests, Records, Judges, Merges, Ingest, Replay, WriteFacts,
         Known, Match, Redirect, Create, Join, InsertKey, Touch, Supersede, Judge, Prepare, Save,
         ChangeContext, markUocChanged, BeginMerge, BeginUnmerge, CheckChild, Link, FlagLinked,
         Enter, At
    <3>2. calls[d].event = e
      BY <1>1, <2>5 DEF Owes
    <3>3. decisions'[e] = None \/ decisions'[e].stale
      BY <3>1, <3>2, FlaggedAged DEF FlagJoined
    <3> QED  BY <3>3 DEF Unjudged
  <2>6. CASE calls[d].pc = "linkFlag"
    <3>1. FlagLinked(d)
      BY <1>3, <2>2, <2>6 DEF StepOf, Ingests, Records, Judges, Merges, Ingest, Replay, WriteFacts,
         Known, Match, Redirect, Create, Join, InsertKey, Touch, FlagJoined, Supersede, Judge, Prepare,
         Save, ChangeContext, markUocChanged, BeginMerge, BeginUnmerge, CheckChild, Link, Enter, At
    <3>2. e \in Linked(d)
      BY <1>1, <2>6 DEF Owes, Linked
    <3>3. decisions'[e] = None \/ decisions'[e].stale
      BY <3>1, <3>2, FlaggedAged DEF FlagLinked
    <3> QED  BY <3>3 DEF Unjudged
  <2> QED  BY <1>1, <2>3, <2>4, <2>5, <2>6 DEF Owes
<1> QED  BY <1>2, <1>3, StillOrOwn

LEMMA LinkOwes ==
  ASSUME EventInv, NEW c \in Calls, Link(c), NEW e, e \in {calls[c].event, calls[c].other}
  PROVE  Owed(e)'
<1>1. calls'[c].pc = "linkFlag" /\ calls'[c].event = calls[c].event /\ calls'[c].other = calls[c].other
  BY CallType DEF Link, Goto, EventInv, TriageTypeOK, CallState
<1> QED  BY <1>1 DEF Owed, Owes

LEMMA UnjudgedStays ==
  ASSUME EventInv, [TriageNext]_triageVars, NEW e \in Events, Unjudged(e),
         \A c \in Calls : ~Save(c)
  PROVE  Unjudged(e)'
<1>1. decisions'[e] = decisions[e] \/ Aged(decisions'[e], decisions[e])
  BY DecisionMoves
<1> QED  BY <1>1 DEF Unjudged, Aged

(* While an agent judges nothing moves, and while anything moves no agent  *)
(* judges.                                                                 *)
LEMMA AloneKept ==
  ASSUME EventInv, JudgingAlone, [TriageNext]_triageVars, "judgment" \notin mixed'
  PROVE  JudgingAlone'
<1>1. ASSUME NEW d \in Calls, calls'[d].pc \in Moving, calls[d].pc \notin Moving
      PROVE  ~Some(Judging)
  <2>1. ASSUME NEW m \in Mails, StartsRecord(d, m) PROVE ~Some(Judging)
    <3>1. "judgment" \notin Mixes("facts")
      BY <2>1 DEF StartsRecord, Ingest, Replay, Enter, Recorded, IdleTurn
    <3> QED  BY <3>1 DEF Mixes, Judging
  <2>2. ASSUME NEW e \in Events, NEW f \in Events, StartsMerge(d, e, f) PROVE ~Some(Judging)
    <3>1. "judgment" \notin Mixes("child")
      BY <2>2 DEF StartsMerge, BeginMerge, Enter, IdleTurn
    <3> QED  BY <3>1 DEF Mixes, Judging
  <2>3. ASSUME NEW e \in Events, StartsUnmerge(d, e) PROVE ~Some(Judging)
    <3>1. "judgment" \notin Mixes("link")
      BY <2>3 DEF StartsUnmerge, BeginUnmerge, Enter, IdleTurn
    <3> QED  BY <3>1 DEF Mixes, Judging
  <2>4. CASE calls'[d].pc \in Merging
    BY <1>1, <2>2, <2>3, <2>4, MergeMoves DEF Unmoved, MayLink, HasLinked, Moving, Merging
  <2>5. CASE calls'[d].pc \in Recording
    BY <1>1, <2>1, <2>5, RecordMoves DEF Unmoved, GoesOn, SameRecord, Moving
  <2> QED  BY <1>1, <2>4, <2>5 DEF Moving
<1>2. ASSUME NEW d \in Calls, calls'[d].pc \in Judging, calls[d].pc \notin Judging
      PROVE  ~Some(Moving)
  <2>1. PICK e \in Events : StartsJudge(d, e)
    BY <1>2, JudgeMoves DEF Unmoved, Prepares, Judging
  <2>2. "judgment" \notin Mixes("judging")
    BY <2>1 DEF StartsJudge, Judge, Enter, IdleTurn
  <2> QED  BY <2>2 DEF Mixes, Judging, Moving, Some
<1>3. SUFFICES ASSUME NEW c \in Calls, calls'[c].pc \in Judging,
                      NEW d \in Calls, calls'[d].pc \in Moving
               PROVE  FALSE
  BY DEF JudgingAlone, Some
<1>4. c # d
  BY <1>3 DEF Judging, Moving, Recording, Merging
<1>5. CASE Unmoved(c)
  BY <1>1, <1>3, <1>5 DEF Unmoved, JudgingAlone, Some
<1>6. CASE Unmoved(d)
  BY <1>2, <1>3, <1>6 DEF Unmoved, JudgingAlone, Some
<1>7. CASE UNCHANGED calls
  BY <1>5, <1>7 DEF Unmoved
<1>8. ASSUME NEW x \in Calls, StepOf(x) PROVE Unmoved(c) \/ Unmoved(d)
  BY <1>4, <1>8, OthersUnmoved DEF EventInv
<1> QED  BY <1>5, <1>6, <1>7, <1>8, NextCases DEF InboxState, Tick, triageVars

(* A step that leaves the messages of events and the events alone. *)
LEMMA ShowsAsBefore ==
  ASSUME [TriageNext]_triageVars, JudgingAlone, Some(Judging)
  PROVE  UNCHANGED <<member, events>>
<1>1. \A c \in Calls : calls[c].pc \notin Moving
  BY DEF JudgingAlone, Some
<1>2. \A c \in Calls : ~Join(c) /\ ~Link(c) /\ ~Create(c) /\ ~Touch(c)
  BY <1>1 DEF Join, Link, Create, Touch, At, Moving, Recording, Merging
<1>3. ASSUME NEW c \in Calls, StepOf(c) PROVE UNCHANGED events
  BY <1>2, <1>3 DEF StepOf, Ingests, Records, Judges, Merges, Ingest, Replay, WriteFacts, Known, Match,
       Redirect, Join, InsertKey, FlagJoined, Supersede, Judge, Prepare, Save, ChangeContext,
       markUocChanged, BeginMerge, BeginUnmerge, CheckChild, FlagLinked, Abandon, Enter,
       OnlyCalls, tables
<1>4. UNCHANGED events
  BY <1>3, NextCases DEF InboxState, Tick, triageVars, tables
<1> QED  BY <1>2, <1>4, OnlyMovers

LEMMA ShownKept ==
  ASSUME EventInv, JudgingAlone, [TriageNext]_triageVars, NEW d \in Calls, JudgedAsShown(calls[d])
  PROVE  JudgedAsShown(calls[d])'
<1>1. SUFFICES ASSUME calls'[d].pc \in Judging
               PROVE  (Canonical(calls[d].event) /\ calls[d].sees = Context(calls[d].event))'
  BY DEF JudgedAsShown
<1>2. PICK e : e = calls'[d].event
  OBVIOUS
<1>3. UNCHANGED <<member, events>> => (Canonical(e)' <=> Canonical(e)) /\ Context(e)' = Context(e)
  BY DEF Canonical, Context
<1>4. CASE \E f \in Events : StartsJudge(d, f)
  <2>1. StartsJudge(d, e) /\ UNCHANGED <<member, events>>
    BY <1>2, <1>4 DEF StartsJudge, Judge, Enter, tables
  <2>2. Canonical(e)' /\ calls'[d].sees = Context(e)'
    BY <1>3, <2>1 DEF StartsJudge, Judge
  <2> QED  BY <1>2, <2>2
<1>5. CASE Unmoved(d) \/ Prepares(d)
  <2>1. calls[d].pc \in Judging /\ calls'[d].event = calls[d].event /\ calls'[d].sees = calls[d].sees
    BY <1>1, <1>5 DEF Unmoved, Prepares, Judging
  <2>2. UNCHANGED <<member, events>>
    BY <2>1, ShowsAsBefore DEF Some
  <2>3. Canonical(e) /\ calls[d].sees = Context(e)
    BY <1>2, <2>1 DEF JudgedAsShown
  <2>4. Canonical(e)' /\ calls'[d].sees = Context(e)'
    BY <1>3, <2>1, <2>2, <2>3
  <2> QED  BY <1>2, <2>4
<1> QED  BY <1>1, <1>4, <1>5, JudgeMoves

LEMMA FreshMoves ==
  ASSUME EventInv, [TriageNext]_triageVars, NEW d \in Calls, calls'[d].fresh, ~calls[d].fresh
  PROVE  /\ Create(d) /\ calls'[d].pc = "join"
         /\ calls'[d].event \in Events /\ events[calls'[d].event] = None
<1> USE DEF EventInv
<1>1. calls[d] \in CallState
  BY CallType
<1>2. ~IdleTurn.fresh
  BY DEF IdleTurn
<1>8. ASSUME NEW p PROVE ~Goto(d, p)
  BY <1>1 DEF Goto, TriageTypeOK, CallState
<1>9. ~Leave(d)
  BY <1>2 DEF Leave, TriageTypeOK
<1>3. CASE Ingests(d) \/ ChangeContext(d)
  <2>1. ASSUME NEW m \in Mails, Ingest(d, m) \/ Replay(d, m) PROVE FALSE
    <3>1. calls'[d] = Recorded(m)
      BY <2>1 DEF Ingest, Replay, Enter, OutdatedCalls, TriageTypeOK
    <3> QED  BY <3>1 DEF Recorded, IdleTurn
  <2>2. ~ChangeContext(d)
    BY DEF ChangeContext, OutdatedCalls, IdleTurn
  <2> QED  BY <1>3, <2>1, <2>2 DEF Ingests
<1>4. CASE Records(d)
  <2>1. ASSUME WriteFacts(d) \/ Known(d) \/ Join(d) \/ Touch(d) \/ FlagJoined(d) \/ Supersede(d)
        PROVE  FALSE
    BY <1>8, <1>9, <2>1 DEF WriteFacts, Known, Join, Touch, FlagJoined, Supersede
  <2>2. ASSUME Match(d) \/ Redirect(d) PROVE FALSE
    <3>1. ASSUME NEW p, NEW e, \/ calls' = [calls EXCEPT ![d].pc = p, ![d].event = e]
                               \/ calls' = [calls EXCEPT ![d].pc = p]
          PROVE  FALSE
      BY <1>1, <3>1 DEF TriageTypeOK, CallState
    <3>2. Redirect(d) => calls' = [calls EXCEPT ![d].pc = "join", ![d].event = Target(calls[d].event)]
      BY DEF Redirect, TriageTypeOK
    <3> QED  BY <2>2, <3>1, <3>2 DEF Match, Goto
  <2>3. ASSUME InsertKey(d) PROVE FALSE
    <3>1. PICK next : next = [calls[d] EXCEPT !.left = Tail(@)]
      OBVIOUS
    <3>2. ~next.fresh /\ calls'[d] = IF next.left = <<>> THEN AfterKeys(next) ELSE next
      BY <1>1, <2>3, <3>1 DEF InsertKey, TriageTypeOK, CallState
    <3>3. ~[next EXCEPT !.pc = "touch"].fresh
      BY <1>1, <3>1, <3>2 DEF CallState
    <3> QED  BY <1>2, <3>2, <3>3 DEF AfterKeys
  <2>4. ASSUME Create(d)
        PROVE  /\ calls'[d].pc = "join"
               /\ calls'[d].event \in Events /\ events[calls'[d].event] = None
    <3>1. PICK e \in Events :
            /\ events[e] = None
            /\ calls' = [calls EXCEPT ![d].pc = "join", ![d].event = e, ![d].fresh = TRUE]
      BY <2>4 DEF Create
    <3>2. calls'[d].pc = "join" /\ calls'[d].event = e
      BY <1>1, <3>1 DEF TriageTypeOK, CallState
    <3> QED  BY <3>1, <3>2
  <2> QED  BY <1>4, <2>1, <2>2, <2>3, <2>4 DEF Records
<1>5. CASE Judges(d)
  <2>1. ASSUME NEW e \in Events, Judge(d, e) PROVE FALSE
    BY <2>1 DEF Judge, Enter, IdleTurn, TriageTypeOK
  <2>2. ASSUME NEW j \in Judgments, Prepare(d, j) PROVE FALSE
    BY <1>1, <1>2, <2>2 DEF Prepare, Leave, TriageTypeOK, CallState
  <2>3. ASSUME Save(d) \/ markUocChanged(d) PROVE FALSE
    BY <1>2, <2>3 DEF Save, markUocChanged, Leave, TriageTypeOK
  <2> QED  BY <1>3, <1>5, <2>1, <2>2, <2>3 DEF Judges
<1>6. CASE Merges(d)
  <2>1. ASSUME NEW e \in Events, NEW f \in Events, BeginMerge(d, e, f) PROVE FALSE
    BY <2>1 DEF BeginMerge, Enter, IdleTurn, TriageTypeOK
  <2>2. ASSUME NEW e \in Events, BeginUnmerge(d, e) PROVE FALSE
    BY <2>2 DEF BeginUnmerge, Enter, IdleTurn, TriageTypeOK
  <2>3. ASSUME CheckChild(d) \/ Link(d) \/ FlagLinked(d) PROVE FALSE
    BY <1>8, <1>9, <2>3 DEF CheckChild, Link, FlagLinked
  <2> QED  BY <1>6, <2>1, <2>2, <2>3 DEF Merges
<1>7. ~Abandon(d)
  BY <1>2 DEF Abandon, Leave, TriageTypeOK
<1> QED  BY <1>3, <1>4, <1>5, <1>6, <1>7, StillOrOwn DEF StepOf, Unmoved

(* The event a call has just made has no judgment yet. *)
LEMMA NewKept ==
  ASSUME EventInv, JudgingAlone, [TriageNext]_triageVars, NEW d \in Calls, NewUnjudged(calls[d])
  PROVE  NewUnjudged(calls[d])'
<1> USE DEF EventInv
<1>1. SUFFICES ASSUME calls'[d].fresh
               PROVE  (\/ calls[d].pc = "supersede"
                       \/ calls[d].pc \in {"join", "keys"} /\ decisions[calls[d].event] = None)'
  BY DEF NewUnjudged
<1>2. ASSUME NEW e \in Events, decisions[e] = None, calls[d].pc \in Recording
      PROVE  decisions'[e] = None
  <2>1. \A c \in Calls : ~Save(c)
    BY <1>2 DEF JudgingAlone, Some, Moving, Save, At, Judging
  <2> QED  BY <1>2, <2>1, DecisionMoves DEF Aged
<1>3. CASE ~calls[d].fresh
  <2>1. /\ Create(d) /\ calls'[d].pc = "join"
        /\ calls'[d].event \in Events /\ events[calls'[d].event] = None
    BY <1>1, <1>3, FreshMoves
  <2>2. decisions[calls'[d].event] = None
    BY <2>1 DEF NamedInv, Row
  <2> QED  BY <2>1, <2>2 DEF Create
<1>4. CASE calls[d].fresh /\ Unmoved(d)
  <2>1. CASE calls[d].pc = "supersede"
    BY <1>4, <2>1 DEF Unmoved
  <2>2. CASE calls[d].pc \in {"join", "keys"} /\ decisions[calls[d].event] = None
    <3>1. PICK e : e = calls[d].event
      OBVIOUS
    <3>2. e \in Events
      BY <2>2, <3>1 DEF TurnInv, TurnSound, Holding, Joining, Row
    <3>3. decisions'[e] = None
      BY <1>2, <2>2, <3>1, <3>2 DEF Recording
    <3> QED  BY <1>4, <2>2, <3>1, <3>3 DEF Unmoved
  <2> QED  BY <1>4, <2>1, <2>2 DEF NewUnjudged
<1>5. CASE calls[d].fresh /\ StepOf(d)
  <2>1. calls[d] \in CallState
    BY CallType
  <2>2. calls'[d] # IdleTurn
    BY <1>1 DEF IdleTurn
  <2>3. Join(d) \/ InsertKey(d)
    BY <1>5, <2>2 DEF NewUnjudged, StepOf, Ingests, Records, Judges, Merges, Ingest, Replay,
       WriteFacts, Known, Match, Redirect, Create, Touch, FlagJoined, Supersede, Judge, Prepare,
       Save, ChangeContext, markUocChanged, BeginMerge, BeginUnmerge, CheckChild, Link,
       FlagLinked, Abandon, Enter, Leave, At, TriageTypeOK
  <2>4. decisions' = decisions /\ calls[d].pc \in {"join", "keys"}
    BY <2>3 DEF Join, InsertKey, At
  <2>5. decisions[calls[d].event] = None
    BY <1>5, <2>4 DEF NewUnjudged
  <2>6. CASE Join(d)
    <3>1. calls'[d].pc = "keys" /\ calls'[d].event = calls[d].event
      BY <2>1, <2>6 DEF Join, Goto, TriageTypeOK, CallState
    <3> QED  BY <2>4, <2>5, <3>1
  <2>7. CASE InsertKey(d)
    <3>1. PICK next : next = [calls[d] EXCEPT !.left = Tail(@)]
      OBVIOUS
    <3>2. /\ next.pc = "keys" /\ next.event = calls[d].event /\ next.fresh
          /\ calls'[d] = IF next.left = <<>> THEN AfterKeys(next) ELSE next
      BY <1>5, <2>1, <2>7, <3>1 DEF InsertKey, At, TriageTypeOK, CallState
    <3>3. [next EXCEPT !.pc = "supersede"].pc = "supersede"
      BY <2>1, <3>1 DEF CallState
    <3> QED  BY <2>2, <2>4, <2>5, <3>2, <3>3 DEF AfterKeys
  <2> QED  BY <2>3, <2>6, <2>7
<1> QED  BY <1>3, <1>4, <1>5, StillOrOwn

(* A message about to join an event that was merged meanwhile finds the    *)
(* judgment of the one it is shown with flagged, or about to be.           *)
LEMMA JoinsKept ==
  ASSUME EventInv, JudgingAlone, Flat, [TriageNext]_triageVars, "judgment" \notin mixed',
         \A c \in Calls : LinkSound(calls[c]),
         NEW d \in Calls, JoinsKnown(calls[d])
  PROVE  JoinsKnown(calls[d])'
<1> USE DEF EventInv
<1>1. PICK e, f : e = calls'[d].event /\ f = events'[e].into
  OBVIOUS
<1>2. SUFFICES ASSUME calls'[d].pc = "join", f # None PROVE Unjudged(f)' \/ Owed(f)'
  BY <1>1 DEF JoinsKnown
<1>3. CASE Unmoved(d)
  <2>1. calls[d].pc = "join" /\ e = calls[d].event /\ Row(e)
    BY <1>1, <1>2, <1>3 DEF Unmoved, TurnInv, TurnSound, Holding, Joining
  <2>2. \A c \in Calls : ~Save(c)
    BY <2>1 DEF JudgingAlone, Some, Moving, Recording, Save, At, Judging
  <2>3. CASE \E c \in Calls : Link(c) /\ calls[c].event = e
    <3>1. PICK c \in Calls : Link(c) /\ calls[c].event = e
      BY <2>3
    <3>2. Row(e) /\ calls[c].into \in {None, calls[c].other}
      BY <2>1, <3>1 DEF Link, At, TurnInv, TurnSound, Merging
    <3>3. events' = [events EXCEPT ![e] = [events[e] EXCEPT !.into = calls[c].into]]
      BY <3>1 DEF Link, TriageTypeOK
    <3>4. events[e] \in EventRow /\ e \in Events
      BY <3>2 DEF Row, TriageTypeOK
    <3>5. events'[e].into = calls[c].into
      <4>1. events'[e] = [events[e] EXCEPT !.into = calls[c].into]
        BY <3>3, <3>4 DEF TriageTypeOK
      <4>2. PICK r, i : r = events[e] /\ i = calls[c].into
        OBVIOUS
      <4>3. r \in EventRow /\ events'[e] = [r EXCEPT !.into = i]
        BY <3>4, <4>1, <4>2
      <4>4. [r EXCEPT !.into = i].into = i
        BY <4>3 DEF EventRow
      <4> QED  BY <4>2, <4>3, <4>4
    <3> QED  BY <1>1, <1>2, <3>1, <3>2, <3>5, LinkOwes
  <2>4. CASE ~\E c \in Calls : Link(c) /\ calls[c].event = e
    <3>1. f = events[e].into
      <4>1. ASSUME NEW c \in Calls, events'[e] = [events[e] EXCEPT !.state = StateOf[calls[c].mail]]
            PROVE  events'[e].into = events[e].into
        BY <2>1, <4>1 DEF Row, TriageTypeOK, EventRow
      <4> QED  BY <1>1, <2>1, <2>4, <4>1, EventMoves DEF Row
    <3>2. f \in Events /\ (Unjudged(f) \/ Owed(f))
      BY <1>2, <2>1, <3>1 DEF JoinsKnown, NamedInv, Row
    <3> QED  BY <2>2, <3>2, OwedStays, UnjudgedStays
  <2> QED  BY <2>3, <2>4
<1>4. CASE Redirect(d) /\ e = Target(calls[d].event)
  <2>1. Row(calls[d].event) /\ events' = events
    BY <1>4 DEF Redirect, At, OnlyCalls, tables, TurnInv, TurnSound, Holding, Joining
  <2>2. PICK g : g = calls[d].event
    OBVIOUS
  <2>3. e = IF events[g].into # None THEN events[g].into ELSE g
    BY <1>4, <2>2 DEF Target
  <2>4. events[g].into # None => Canonical(events[g].into)
    BY <2>1, <2>2 DEF Flat, Row
  <2>5. events[e].into = None
    BY <2>3, <2>4 DEF Canonical
  <2> QED  BY <1>1, <1>2, <2>1, <2>5
<1>5. CASE /\ e \in Events
           /\ events' = [events EXCEPT ![e] = [into |-> None, state |-> StateOf[calls[d].mail]]]
  BY <1>1, <1>2, <1>5 DEF TriageTypeOK
<1> QED  BY <1>1, <1>2, <1>3, <1>4, <1>5, RecordMoves DEF StartsRecord, Recording

(* A judgment left behind what its event shows is about to be flagged. *)
LEMMA BehindKept ==
  ASSUME EventInv, JudgingAlone, [TriageNext]_triageVars, "judgment" \notin mixed',
         \A c \in Calls : LinkSound(calls[c]),
         \A c \in Calls : JudgedAsShown(calls[c]) /\ NewUnjudged(calls[c]) /\ JoinsKnown(calls[c]),
         NEW e \in Events, Behind(e) => Owed(e), Behind(e)'
  PROVE  Owed(e)'
<1> USE DEF EventInv
<1>1. /\ Canonical(e)' /\ decisions'[e] # None /\ ~decisions'[e].stale
      /\ decisions'[e].sees # Context(e)'
  BY DEF Behind, Unjudged
<1>2. ~(\E c \in Calls : Save(c) /\ calls[c].event = e)
  <2>1. ASSUME NEW c \in Calls, Save(c), calls[c].event = e PROVE FALSE
    <3>1. decisions'[e].sees = calls[c].sees
      BY <2>1 DEF Save, TriageTypeOK
    <3>2. calls[c].sees = Context(e)
      BY <2>1 DEF JudgedAsShown, Save, At, Judging
    <3>3. Context(e)' = Context(e)
      BY <2>1 DEF Save, Context
    <3> QED  BY <1>1, <3>1, <3>2, <3>3
  <2> QED  BY <2>1
<1>3. decisions[e] # None /\ ~decisions[e].stale /\ decisions[e].sees = decisions'[e].sees
  BY <1>1, <1>2, DecisionMoves DEF Aged
<1>4. Row(e) /\ ~Unjudged(e) /\ ~Unjudged(e)'
  BY <1>1, <1>3 DEF NamedInv, Unjudged
<1>5. CASE Owed(e)
  BY <1>4, <1>5, OwedStays
<1>6. CASE ~Canonical(e)
  <2>1. events'[e].into # events[e].into
    BY <1>1, <1>4, <1>6 DEF Canonical, Row
  <2>2. ASSUME NEW c \in Calls, events'[e] = [events[e] EXCEPT !.state = StateOf[calls[c].mail]]
        PROVE  events'[e].into = events[e].into
    BY <1>4, <2>2 DEF Row, TriageTypeOK, EventRow
  <2>3. PICK c \in Calls : Link(c) /\ calls[c].event = e
    <3>1. events'[e] # events[e]
      BY <2>1
    <3>2. \A c \in Calls : events'[e] # [events[e] EXCEPT !.state = StateOf[calls[c].mail]]
      BY <2>1, <2>2
    <3>3. \/ \E c \in Calls : Create(c) /\ ~Row(e)
          \/ \E c \in Calls : Link(c) /\ calls[c].event = e
      BY <3>1, <3>2, EventMoves
    <3> QED  BY <1>4, <3>3
  <2> QED  BY <2>3, LinkOwes
<1>7. CASE Canonical(e) /\ ~Owed(e)
  <2>1. decisions[e].sees = Context(e)
    BY <1>4, <1>7 DEF Behind
  <2>2. Context(e)' # Context(e)
    BY <1>1, <1>3, <2>1
  <2>3. ASSUME NEW c \in Calls, Join(c), calls[c].event = e \/ events[calls[c].event].into = e
        PROVE  Owed(e)'
    <3>1. calls[c].pc = "join" /\ calls[c] \in CallState
      BY <2>3, CallType DEF Join, At
    <3>2. /\ calls'[c].pc = "keys" /\ calls'[c].event = calls[c].event
          /\ calls'[c].fresh = calls[c].fresh
      BY <2>3, <3>1 DEF Join, Goto, TriageTypeOK, CallState
    <3>3. CASE calls[c].event = e
      <4>1. ~calls[c].fresh
        BY <1>3, <3>1, <3>3 DEF NewUnjudged
      <4> QED  BY <3>2, <3>3, <4>1 DEF Owed, Owes
    <3>4. CASE events[calls[c].event].into = e
      <4>1. e # None
        BY TriageAssumption
      <4> QED  BY <1>4, <1>7, <3>1, <3>4, <4>1 DEF JoinsKnown
    <3> QED  BY <2>3, <3>3, <3>4
  <2>4. ASSUME NEW c \in Calls, Link(c), events[calls[c].event].into = e \/ calls[c].into = e
        PROVE  Owed(e)'
    <3>1. /\ calls[c].into \in {None, calls[c].other} /\ LinkSound(calls[c])
          /\ calls[c].pc = "link" /\ e # None
      BY <2>4, TriageAssumption DEF Link, At, TurnInv, TurnSound, Merging
    <3>2. calls[c].other = e
      <4>1. CASE calls[c].into = None
        BY <2>4, <3>1, <4>1 DEF LinkSound
      <4>2. CASE calls[c].into # None
        <5>1. events[calls[c].event].into = None
          BY <3>1, <4>2 DEF LinkSound, Apart, Canonical
        <5> QED  BY <2>4, <3>1, <4>2, <5>1
      <4> QED  BY <4>1, <4>2
    <3> QED  BY <2>4, <3>2, LinkOwes
  <2> QED  BY <2>2, <2>3, <2>4, ContextMoves
<1> QED  BY <1>5, <1>6, <1>7

LEMMA FreshKept ==
  ASSUME EventInv, MergeInv, FreshInv, [TriageNext]_triageVars
  PROVE  FreshInv'
<1>1. SUFFICES ASSUME "judgment" \notin mixed', "merge" \notin mixed'
               PROVE  (/\ JudgingAlone
                       /\ \A c \in Calls : /\ JudgedAsShown(calls[c]) /\ NewUnjudged(calls[c])
                                           /\ JoinsKnown(calls[c])
                       /\ \A e \in Events : Behind(e) => Owed(e))'
  BY DEF FreshInv
<1>2. "judgment" \notin mixed /\ "merge" \notin mixed
  BY <1>1, MixedStays
<1>3. /\ JudgingAlone
      /\ \A c \in Calls : JudgedAsShown(calls[c]) /\ NewUnjudged(calls[c]) /\ JoinsKnown(calls[c])
      /\ \A e \in Events : Behind(e) => Owed(e)
      /\ Flat /\ \A c \in Calls : LinkSound(calls[c])
  BY <1>2 DEF FreshInv, MergeInv
<1>4. JudgingAlone'
  BY <1>1, <1>3, AloneKept
<1>5. ASSUME NEW c \in Calls
      PROVE  (JudgedAsShown(calls[c]) /\ NewUnjudged(calls[c]) /\ JoinsKnown(calls[c]))'
  BY <1>1, <1>3, ShownKept, NewKept, JoinsKept
<1>6. ASSUME NEW e \in Events PROVE (Behind(e) => Owed(e))'
  BY <1>1, <1>3, BehindKept
<1> QED  BY <1>4, <1>5, <1>6

(* Between calls a judgment the inbox shows as up to date was made of the  *)
(* messages its event has now, as long as no event changes while it is     *)
(* judged and merges come one at a time: whatever changes an event (a      *)
(* message, a merge) flags its decision stale before the call ends.        *)
THEOREM JudgmentsAreFresh == TriageSpec => []FreshBetweenCalls
<1>1. TriageInit => FreshInv
  <2> SUFFICES ASSUME TriageInit PROVE FreshInv
    OBVIOUS
  <2>1. \A c \in Calls : calls[c] = IdleTurn
    BY DEF TriageInit
  <2>2. \A e \in Events : ~Canonical(e)
    BY DEF TriageInit, Canonical
  <2>3. ~Some(Judging)
    BY <2>1 DEF Some, Judging, IdleTurn
  <2>4. \A c \in Calls : JudgedAsShown(calls[c]) /\ NewUnjudged(calls[c]) /\ JoinsKnown(calls[c])
    BY <2>1 DEF JudgedAsShown, NewUnjudged, JoinsKnown, IdleTurn, Judging
  <2> QED  BY <2>2, <2>3, <2>4 DEF FreshInv, JudgingAlone, Behind
<1>2. TriageInit => MergeInv
  BY DEF TriageInit, MergeInv, OneMerge, Flat, LinkSound, Row, IdleTurn, Merging
<1>3. FreshInv => FreshBetweenCalls
  <2> SUFFICES ASSUME FreshInv, {"judgment", "merge"} \cap mixed = {}, Quiet, NEW e \in Events,
                      Canonical(e), decisions[e] # None, ~decisions[e].stale
               PROVE  decisions[e].sees = Context(e)
    BY DEF FreshBetweenCalls
  <2>1. ~Owed(e)
    BY DEF Owed, Owes, Quiet, At
  <2> QED  BY <2>1 DEF FreshInv, Behind, Unjudged
<1>4. EventInv /\ MergeInv /\ FreshInv /\ [TriageNext]_triageVars => MergeInv' /\ FreshInv'
  BY MergesKept, FreshKept
<1> QED  BY <1>1, <1>2, <1>3, <1>4, EventsInit, EventsKept, PTL DEF TriageSpec

-----------------------------------------------------------------------------
(* The facts of a message, and the messages there are. *)
LEMMA FactMoves ==
  ASSUME TriageTypeOK, [TriageNext]_triageVars, NEW m \in Mails
  PROVE  \/ facts'[m] = facts[m]
         \/ \E c \in Calls : /\ WriteFacts(c) /\ calls[c].mail = m
                             /\ facts'[m] = extractFeatures(Message[m], clock)
<1>1. ASSUME NEW c \in Calls, WriteFacts(c), facts'[m] # facts[m]
      PROVE  calls[c].mail = m /\ facts'[m] = extractFeatures(Message[m], clock)
  BY <1>1 DEF WriteFacts, TriageTypeOK
<1>2. ASSUME NEW c \in Calls, StepOf(c), ~WriteFacts(c) PROVE UNCHANGED facts
  BY <1>2 DEF StepOf, Ingests, Records, Judges, Merges, Ingest, Replay, Known, Match,
       Redirect, Create, Join, InsertKey, Touch, FlagJoined, Supersede, Judge, Prepare, Save,
       ChangeContext, markUocChanged, BeginMerge, BeginUnmerge, CheckChild, Link, FlagLinked,
       Abandon, Enter, OnlyCalls, tables
<1> QED  BY <1>1, <1>2, NextCases DEF InboxState, Tick, triageVars, tables

LEMMA StoredMoves ==
  ASSUME TriageTypeOK, [TriageNext]_triageVars
  PROVE  /\ clock <= clock'
         /\ \/ stored' = stored
            \/ \E c \in Calls, m \in Mails :
                 /\ Ingest(c, m) /\ stored' = stored \union {m} /\ ReceivedAt[m] <= clock
<1>1. ASSUME NEW c \in Calls, NEW m \in Mails, Ingest(c, m)
      PROVE  stored' = stored \union {m} /\ ReceivedAt[m] <= clock /\ clock' = clock
  BY <1>1 DEF Ingest
<1>2. ASSUME NEW c \in Calls, StepOf(c), \A m \in Mails : ~Ingest(c, m)
      PROVE  UNCHANGED <<stored, clock>>
  BY <1>2 DEF StepOf, Ingests, Records, Judges, Merges, Replay, WriteFacts, Known, Match,
       Redirect, Create, Join, InsertKey, Touch, FlagJoined, Supersede, Judge, Prepare, Save,
       ChangeContext, markUocChanged, BeginMerge, BeginUnmerge, CheckChild, Link, FlagLinked,
       Abandon, Enter, OnlyCalls, tables
<1>3. clock \in Nat
  BY TriageAssumption DEF TriageTypeOK
<1>4. UNCHANGED triageVars => UNCHANGED <<stored, clock>>
  BY DEF triageVars, tables
<1>5. ASSUME NEW e \in Events, InboxState(e) PROVE UNCHANGED <<stored, clock>>
  BY <1>5 DEF InboxState
<1>6. Tick => stored' = stored /\ clock' = clock + 1
  BY DEF Tick, tables
<1> QED  BY <1>1, <1>2, <1>3, <1>4, <1>5, <1>6, NextCases

LEMMA RecordFrom ==
  ASSUME EventInv, [TriageNext]_triageVars, NEW d \in Calls, calls'[d].pc \in Recording
  PROVE  \/ \E m \in Mails : StartsRecord(d, m)
         \/ WriteFacts(d) /\ calls[d].pc = "facts" /\ calls'[d].mail = calls[d].mail
         \/ /\ calls[d].pc \in Recording /\ calls'[d].mail = calls[d].mail
            /\ calls[d].pc = "facts" => calls'[d].pc = "facts"
<1>1. CASE Unmoved(d)
  BY <1>1 DEF Unmoved
<1>2. CASE WriteFacts(d) /\ GoesOn(d)
  BY <1>2 DEF WriteFacts, At, GoesOn, SameRecord
<1>3. ASSUME SameRecord(d), Known(d) \/ Match(d) \/ Redirect(d) \/ Create(d) \/ Join(d)
                            \/ InsertKey(d) \/ Touch(d) \/ FlagJoined(d)
      PROVE  calls[d].pc \in Recording /\ calls'[d].mail = calls[d].mail /\ calls[d].pc # "facts"
  BY <1>3 DEF SameRecord, Known, Match, Redirect, Create, Join, InsertKey, Touch, FlagJoined, At
<1> QED  BY <1>1, <1>2, <1>3, RecordMoves DEF GoesOn

LEMMA RecordedMail ==
  ASSUME EventInv, NEW c \in Calls, calls[c].pc \in Recording
  PROVE  calls[c].mail \in Mails
<1>1. calls[c] \in CallState /\ calls[c].mail # None
  BY CallType DEF EventInv, TurnInv, TurnSound
<1> QED  BY <1>1 DEF CallState

LEMMA FactsKept ==
  ASSUME EventInv, FactsInv, [TriageNext]_triageVars
  PROVE  FactsInv'
<1> USE DEF EventInv
<1>1. ASSUME NEW m \in Mails, facts[m] # None PROVE facts'[m] # None
  <2>1. extractFeatures(Message[m], clock) \in TriageFacts
    BY MessageType, FeaturesType, TriageAssumption DEF TriageTypeOK
  <2> QED  BY <1>1, <2>1, FactMoves, TriageRowAssumption
<1>2. ASSUME NEW m \in Mails PROVE (facts[m] # None => Extracted(m))'
  <2>1. ASSUME NEW c \in Calls, facts'[m] = extractFeatures(Message[m], clock) PROVE Extracted(m)'
    BY <2>1 DEF Extracted, TriageTypeOK
  <2>2. ASSUME facts'[m] = facts[m], facts[m] # None PROVE Extracted(m)'
    BY <2>2 DEF Extracted, FactsInv
  <2> QED  BY <2>1, <2>2, FactMoves
<1>3. ASSUME NEW c \in Calls, calls'[c].pc \in Recording \ {"facts"}
      PROVE  facts'[calls'[c].mail] # None
  <2>1. CASE WriteFacts(c) /\ calls[c].pc = "facts" /\ calls'[c].mail = calls[c].mail
    <3>1. calls[c].mail \in Mails
      BY <2>1, RecordedMail DEF Recording
    <3>2. facts'[calls[c].mail] = extractFeatures(Message[calls[c].mail], clock)
      BY <2>1, <3>1 DEF WriteFacts, TriageTypeOK
    <3>3. extractFeatures(Message[calls[c].mail], clock) \in TriageFacts
      BY <3>1, MessageType, FeaturesType, TriageAssumption DEF TriageTypeOK
    <3> QED  BY <2>1, <3>2, <3>3, TriageRowAssumption
  <2>2. CASE calls[c].pc \in Recording \ {"facts"} /\ calls'[c].mail = calls[c].mail
    <3>1. calls[c].mail \in Mails
      BY <2>2, RecordedMail
    <3>2. facts[calls[c].mail] # None
      BY <2>2 DEF FactsInv
    <3> QED  BY <1>1, <2>2, <3>1, <3>2
  <2> QED  BY <1>3, <2>1, <2>2, RecordFrom DEF StartsRecord
<1>4. ASSUME NEW m \in Mails, member'[m] # None PROVE facts'[m] # None
  <2>1. facts[m] # None
    <3>1. ASSUME NEW c \in Calls, Join(c), calls[c].mail = m PROVE facts[m] # None
      BY <3>1 DEF Join, At, FactsInv, Recording
    <3> QED  BY <1>4, <3>1, MemberMoves DEF FactsInv
  <2> QED  BY <1>1, <2>1
<1> QED  BY <1>2, <1>3, <1>4 DEF FactsInv

LEMMA StoredKept ==
  ASSUME EventInv, StoredInv, [TriageNext]_triageVars
  PROVE  StoredInv'
<1> USE DEF EventInv
<1>1. stored \subseteq stored'
  BY StoredMoves
<1>2. ASSUME NEW m \in stored' PROVE ReceivedAt[m] <= clock'
  <2>1. m \in Mails /\ clock \in Nat /\ clock' \in Nat
    BY TypesKept, TriageAssumption DEF TriageTypeOK
  <2>2. ReceivedAt[m] \in Nat /\ ReceivedAt[m] <= clock
    BY <1>2, <2>1, StoredMoves, MessageType DEF StoredInv
  <2> QED  BY <2>1, <2>2, StoredMoves
<1>3. ASSUME NEW m \in Mails, member'[m] # None PROVE m \in stored'
  BY <1>1, <1>3, MemberMoves DEF StoredInv, Join, At, Recording
<1>4. ASSUME NEW c \in Calls, calls'[c].pc \in Recording PROVE calls'[c].mail \in stored'
  <2>1. ASSUME NEW m \in Mails, StartsRecord(c, m) PROVE calls'[c].mail \in stored'
    BY <2>1 DEF StartsRecord, Ingest, Replay, Enter, tables
  <2>2. ASSUME calls[c].pc \in Recording, calls'[c].mail = calls[c].mail
        PROVE  calls'[c].mail \in stored'
    BY <1>1, <2>2 DEF StoredInv
  <2> QED  BY <1>4, <2>1, <2>2, RecordFrom DEF Recording
<1> QED  BY <1>2, <1>3, <1>4 DEF StoredInv

-----------------------------------------------------------------------------
(* Messages recorded one by one. *)
LEMMA OneRecordKept ==
  ASSUME EventInv, OneRecord, [TriageNext]_triageVars, "order" \notin mixed'
  PROVE  OneRecord'
<1>1. ASSUME NEW c \in Calls, calls'[c].pc \in Recording, calls[c].pc \notin Recording
      PROVE  ~Some(Recording)
  <2>1. ASSUME NEW m \in Mails, StartsRecord(c, m) PROVE ~Some(Recording)
    <3>1. "order" \notin Mixes("facts")
      BY <2>1 DEF StartsRecord, Ingest, Replay, Enter, Recorded, IdleTurn
    <3> QED  BY <3>1 DEF Mixes, Recording
  <2> QED  BY <1>1, <2>1, RecordFrom DEF Recording
<1>2. SUFFICES ASSUME NEW c \in Calls, NEW d \in Calls, c # d,
                      calls'[c].pc \in Recording, calls'[d].pc \in Recording
               PROVE  FALSE
  BY DEF OneRecord
<1>3. CASE calls[c].pc \in Recording /\ calls[d].pc \in Recording
  BY <1>2, <1>3 DEF OneRecord
<1>4. CASE calls[c].pc \notin Recording /\ calls[d].pc \in Recording
  BY <1>1, <1>2, <1>4 DEF Some
<1>5. CASE calls[c].pc \in Recording /\ calls[d].pc \notin Recording
  BY <1>1, <1>2, <1>5 DEF Some
<1>6. CASE calls[c].pc \notin Recording /\ calls[d].pc \notin Recording
  <2>1. Unmoved(c) \/ Unmoved(d)
    <3>1. CASE UNCHANGED calls
      BY <3>1 DEF Unmoved
    <3>2. ASSUME NEW x \in Calls, StepOf(x) PROVE Unmoved(c) \/ Unmoved(d)
      BY <1>2, <3>2, OthersUnmoved DEF EventInv
    <3> QED  BY <3>1, <3>2, NextCases DEF InboxState, Tick, triageVars
  <2> QED  BY <1>2, <1>6, <2>1 DEF Unmoved
<1> QED  BY <1>3, <1>4, <1>5, <1>6

LEMMA FreshPlace ==
  ASSUME EventInv, [TriageNext]_triageVars, NEW d \in Calls, calls'[d].fresh,
         calls[d].fresh => calls[d].pc \in {"join", "keys", "supersede"}
  PROVE  calls'[d].pc \in {"join", "keys", "supersede"}
<1> USE DEF EventInv
<1>1. calls[d] \in CallState /\ calls'[d] # IdleTurn
  <2>1. ~IdleTurn.fresh
    BY DEF IdleTurn
  <2> QED  BY <2>1, CallType
<1>2. CASE calls[d].fresh /\ StepOf(d)
  <2>1. Join(d) \/ InsertKey(d)
    BY <1>1, <1>2 DEF StepOf, Ingests, Records, Judges, Merges, Ingest, Replay,
       WriteFacts, Known, Match, Redirect, Create, Touch, FlagJoined, Supersede, Judge, Prepare,
       Save, ChangeContext, markUocChanged, BeginMerge, BeginUnmerge, CheckChild, Link,
       FlagLinked, Abandon, Enter, Leave, At, TriageTypeOK
  <2>2. CASE Join(d)
    BY <1>1, <2>2 DEF Join, Goto, TriageTypeOK, CallState
  <2>3. CASE InsertKey(d)
    <3>1. PICK next : next = [calls[d] EXCEPT !.left = Tail(@)]
      OBVIOUS
    <3>2. /\ next.pc = "keys" /\ next.fresh
          /\ calls'[d] = IF next.left = <<>> THEN AfterKeys(next) ELSE next
      BY <1>1, <1>2, <2>3, <3>1 DEF InsertKey, At, TriageTypeOK, CallState
    <3>3. [next EXCEPT !.pc = "supersede"].pc = "supersede"
      BY <1>1, <3>1 DEF CallState
    <3> QED  BY <1>1, <3>2, <3>3 DEF AfterKeys
  <2> QED  BY <2>1, <2>2, <2>3
<1> QED  BY <1>2, FreshMoves, StillOrOwn DEF Unmoved

(* Beside the one call that records, nothing is stored and nothing joins. *)
LEMMA RecordAlone ==
  ASSUME EventInv, OneRecord, OneRecord', [TriageNext]_triageVars,
         NEW d \in Calls, calls[d].pc \in Recording, calls'[d].pc \in Recording
  PROVE  /\ stored' = stored
         /\ \A c \in Calls : Join(c) \/ Touch(c) \/ Create(c) => c = d
         /\ \A m \in Mails : member'[m] = member[m] \/ Join(d)
<1>1. ASSUME NEW c \in Calls, NEW m \in Mails, Ingest(c, m) PROVE FALSE
  <2>1. calls'[c] = Recorded(m) /\ calls[c].pc = "idle"
    BY <1>1 DEF Ingest, OutdatedCalls, At, EventInv, TriageTypeOK
  <2>2. calls'[c].pc = "facts"
    BY <2>1 DEF Recorded, IdleTurn
  <2> QED  BY <2>1, <2>2 DEF OneRecord, Recording
<1>2. \A c \in Calls : Join(c) \/ Touch(c) \/ Create(c) => c = d
  BY DEF OneRecord, Join, Touch, Create, At, Recording
<1>3. \A m \in Mails : member'[m] = member[m] \/ Join(d)
  BY <1>2, MemberMoves DEF EventInv
<1> QED  BY <1>1, <1>2, <1>3, StoredMoves DEF EventInv

LEMMA SoundKept ==
  ASSUME EventInv, StoredInv, OneRecord, OneRecord', [TriageNext]_triageVars, "order" \notin mixed',
         \A m \in stored : OnRecord(m), NEW d \in Calls, RecordSound(calls[d])
  PROVE  RecordSound(calls[d])'
<1> USE DEF EventInv
<1>1. calls'[d].fresh => calls'[d].pc \in {"join", "keys", "supersede"}
  BY FreshPlace DEF RecordSound
<1>2. CASE calls'[d].pc \notin Recording
  BY <1>1, <1>2 DEF RecordSound, Recording
<1>3. ASSUME NEW m \in Mails, StartsRecord(d, m) PROVE RecordSound(calls[d])'
  <2>1. calls'[d].pc = "facts" /\ calls'[d].mail = m
    BY <1>3 DEF StartsRecord
  <2>2. ASSUME Ingest(d, m) PROVE IsLast(m, stored')
    <3>1. stored' = stored \union {m} /\ \A n \in stored : ~(ReceivedAt[n] > ReceivedAt[m])
      BY <2>2 DEF Ingest
    <3>2. \A n \in stored' : ReceivedAt[n] \in Nat /\ ReceivedAt[m] \in Nat
      BY <3>1, MessageType DEF TriageTypeOK
    <3> QED  BY <3>1, <3>2 DEF IsLast
  <2>3. ASSUME Replay(d, m) PROVE member'[m] # None
    <3>1. m \in stored /\ Quiet /\ member' = member
      BY <2>3 DEF Replay, Enter, tables
    <3> QED  BY <3>1 DEF OnRecord, Quiet, At, Recording
  <2> QED  BY <1>1, <1>3, <2>1, <2>2, <2>3 DEF RecordSound, StartsRecord
<1>4. CASE calls'[d].pc \in Recording /\ calls[d].pc \in Recording
  <2>1. PICK m, e : m = calls[d].mail /\ e = calls[d].event
    OBVIOUS
  <2>2. m \in Mails
    BY <1>4, <2>1, RecordedMail
  <2>3. /\ stored' = stored
        /\ \A c \in Calls : Join(c) \/ Touch(c) \/ Create(c) => c = d
        /\ \A n \in Mails : member'[n] = member[n] \/ Join(d)
    BY <1>4, RecordAlone
  <2>4. None \notin Events
    BY TriageAssumption
  <2>5. CASE Unmoved(d)
    <3>1. ~Join(d) /\ ~Touch(d) /\ ~Create(d)
      <4>1. calls[d] \in CallState
        BY CallType
      <4>2. ~Join(d) /\ ~Touch(d)
        BY <2>5, <4>1 DEF Unmoved, Join, Touch, At, Goto, TriageTypeOK, CallState
      <4>3. ASSUME NEW x, calls' = [calls EXCEPT ![d].pc = "join", ![d].event = x, ![d].fresh = TRUE]
            PROVE  calls'[d].pc = "join"
        BY <4>1, <4>3 DEF TriageTypeOK, CallState
      <4>4. ~Create(d)
        BY <2>5, <4>3 DEF Unmoved, Create, At
      <4> QED  BY <4>2, <4>4
    <3>2. member'[m] = member[m]
      BY <2>2, <2>3, <3>1
    <3>3. CASE calls[d].pc = "join" /\ calls[d].fresh
      <4>1. Row(e) /\ events[e].state = StateOf[m] /\ MembersOf(e) = {}
        BY <2>1, <3>3 DEF RecordSound, TurnInv, TurnSound, Holding, Joining
      <4>2. MembersOf(e)' = {}
        BY <2>3, <3>1, <4>1 DEF MembersOf
      <4>3. events'[e].state = StateOf[m]
        <5>1. ASSUME NEW c \in Calls, events'[e] = [events[e] EXCEPT !.into = calls[c].into]
              PROVE  events'[e].state = events[e].state
          BY <4>1, <5>1 DEF Row, TriageTypeOK, EventRow
        <5>2. \A c \in Calls : ~Create(c) /\ ~Touch(c)
          BY <2>3, <3>1
        <5>3. \/ events'[e] = events[e]
              \/ \E c \in Calls : events'[e] = [events[e] EXCEPT !.into = calls[c].into]
          BY <4>1, <5>2, EventMoves DEF Row
        <5> QED  BY <4>1, <5>1, <5>3
      <4> QED  BY <1>1, <2>1, <2>3, <2>5, <3>2, <3>3, <4>2, <4>3 DEF RecordSound, Unmoved
    <3>4. CASE ~(calls[d].pc = "join" /\ calls[d].fresh)
      BY <1>1, <2>1, <2>3, <2>5, <3>2, <3>4 DEF RecordSound, Unmoved
    <3> QED  BY <3>3, <3>4
  <2>6. CASE \/ WriteFacts(d) /\ calls'[d].pc = "known" /\ GoesOn(d)
             \/ Known(d) /\ calls'[d].pc = "match" /\ GoesOn(d) /\ member[calls[d].mail] = None
             \/ Match(d) /\ calls'[d].pc \in {"create", "redirect"} /\ SameRecord(d)
             \/ /\ Redirect(d) /\ calls'[d].pc = "join" /\ SameRecord(d)
                /\ calls'[d].fresh = calls[d].fresh
    <3>1. member' = member /\ calls'[d].mail = m
      BY <2>1, <2>6 DEF WriteFacts, Known, Match, Redirect, OnlyCalls, tables, GoesOn, SameRecord
    <3>2. \/ calls[d].pc = "facts" /\ calls'[d].pc = "known"
          \/ calls[d].pc = "known" /\ calls'[d].pc = "match" /\ member[m] = None
          \/ calls[d].pc = "match" /\ calls'[d].pc \in {"create", "redirect"}
          \/ calls[d].pc = "redirect" /\ calls'[d].pc = "join" /\ calls'[d].fresh = calls[d].fresh
      BY <2>1, <2>6 DEF WriteFacts, Known, Match, Redirect, At
    <3> QED  BY <1>1, <2>1, <2>3, <3>1, <3>2 DEF RecordSound
  <2>7. CASE /\ Create(d) /\ calls'[d].pc = "join" /\ SameRecord(d)
             /\ calls'[d].event \in Events /\ events[calls'[d].event] = None
             /\ events' = [events EXCEPT ![calls'[d].event] =
                             [into |-> None, state |-> StateOf[calls[d].mail]]]
    <3>1. PICK f : f = calls'[d].event
      OBVIOUS
    <3>2. events'[f].state = StateOf[m]
      BY <2>1, <2>7, <3>1 DEF TriageTypeOK
    <3>3. member' = member /\ calls'[d].mail = m /\ calls[d].pc = "create"
      BY <2>1, <2>7 DEF Create, At, SameRecord
    <3>4. MembersOf(f)' = {}
      BY <2>4, <2>7, <3>1, <3>3 DEF MembersOf, NamedInv, Row
    <3> QED  BY <1>1, <2>1, <2>3, <2>7, <3>1, <3>2, <3>3, <3>4 DEF RecordSound
  <2>8. CASE Join(d) /\ calls'[d].pc = "keys" /\ GoesOn(d)
    <3>1. calls[d].pc = "join" /\ calls'[d].mail = m /\ calls'[d].event = e
      BY <2>1, <2>8 DEF Join, At, GoesOn, SameRecord
    <3>2. IsLast(m, stored) /\ member[m] = None
      BY <2>1, <3>1 DEF RecordSound
    <3>3. member'[m] = e
      BY <2>1, <2>2, <2>8, <3>2 DEF Join, TriageTypeOK
    <3> QED  BY <1>1, <2>3, <2>8, <3>1, <3>2, <3>3 DEF RecordSound
  <2>9. CASE \/ InsertKey(d) /\ calls'[d].pc \in {"keys", "touch", "supersede"} /\ GoesOn(d)
             \/ Touch(d) /\ calls'[d].pc = "flag" /\ GoesOn(d)
             \/ FlagJoined(d) /\ calls'[d].pc = "supersede" /\ GoesOn(d)
    <3>1. member' = member /\ calls'[d].mail = m /\ calls'[d].event = e
      BY <2>1, <2>9 DEF InsertKey, Touch, FlagJoined, GoesOn, SameRecord
    <3>2. \/ calls[d].pc \in {"keys", "touch"} /\ calls'[d].pc \in {"keys", "touch", "supersede", "flag"}
          \/ calls[d].pc = "flag" /\ calls'[d].pc = "supersede"
      BY <2>9 DEF InsertKey, Touch, FlagJoined, At
    <3>3. Row(e)
      BY <2>1, <3>2 DEF TurnInv, TurnSound, Holding, Joining
    <3> QED  BY <1>1, <2>1, <2>3, <2>4, <3>1, <3>2, <3>3 DEF RecordSound, Row
  <2>10. ASSUME NEW n \in Mails, StartsRecord(d, n) PROVE FALSE
    BY <1>4, <2>10 DEF StartsRecord, Ingest, Replay, Enter, At, Recording
  <2> QED  BY <1>4, <2>5, <2>6, <2>7, <2>8, <2>9, <2>10, RecordMoves DEF GoesOn
<1> QED  BY <1>2, <1>3, <1>4, RecordFrom DEF Recording

(* What is stored has joined an event, or is being recorded. *)
LEMMA OnRecordKept ==
  ASSUME EventInv, [TriageNext]_triageVars, "order" \notin mixed',
         \A c \in Calls : RecordSound(calls[c]), NEW m \in stored, OnRecord(m)
  PROVE  OnRecord(m)'
<1> USE DEF EventInv
<1>1. m \in Mails /\ None \notin Events
  BY TriageAssumption DEF TriageTypeOK
<1>2. CASE member[m] # None
  <2>1. member'[m] = member[m]
    BY <1>1, <1>2, MemberMoves
  <2> QED  BY <1>2, <2>1 DEF OnRecord
<1>3. ASSUME NEW c \in Calls, calls[c].pc \in Recording, calls[c].mail = m, member[m] = None
      PROVE  OnRecord(m)'
  <2>1. CASE calls'[c].pc \in Recording
    <3>1. ASSUME NEW n \in Mails, StartsRecord(c, n) PROVE FALSE
      BY <1>3, <3>1 DEF StartsRecord, Ingest, Replay, Enter, At, Recording
    <3>2. calls'[c].mail = m
      BY <1>3, <2>1, <3>1, RecordFrom
    <3> QED  BY <2>1, <3>2 DEF OnRecord
  <2>2. CASE calls'[c].pc \notin Recording
    <3>1. calls[c].pc \notin {"keys", "touch", "flag", "supersede"}
      <4>1. calls[c].pc \in {"keys", "touch"} => Row(calls[c].event)
        BY DEF TurnInv, TurnSound, Holding, Joining
      <4> QED  BY <1>1, <1>3, <4>1 DEF RecordSound, Row
    <3>2. StepOf(c) /\ ~Abandon(c)
      <4>1. ~Unmoved(c)
        BY <1>3, <2>2 DEF Unmoved
      <4> QED  BY <4>1, StillOrOwn DEF Abandon
    <3>3. calls[c] \in CallState
      BY CallType
    <3>4. WriteFacts(c) \/ Known(c) \/ Match(c) \/ Redirect(c) \/ Create(c) \/ Join(c)
      BY <1>3, <3>1, <3>2 DEF StepOf, Ingests, Records, Judges, Merges, Ingest, Replay, InsertKey,
         Touch, FlagJoined, Supersede, Judge, Prepare, Save, ChangeContext, markUocChanged,
         BeginMerge, BeginUnmerge, CheckChild, Link, FlagLinked, Enter, At, Recording
    <3>5. CASE WriteFacts(c) \/ Known(c) \/ Join(c)
      BY <1>3, <2>2, <3>3, <3>5 DEF WriteFacts, Known, Join, Goto, TriageTypeOK, CallState, Recording
    <3>6. ASSUME NEW p, NEW e, \/ calls' = [calls EXCEPT ![c].pc = p]
                               \/ calls' = [calls EXCEPT ![c].pc = p, ![c].event = e]
                               \/ calls' = [calls EXCEPT ![c].pc = p, ![c].event = e, ![c].fresh = TRUE]
          PROVE  calls'[c].pc = p
      BY <3>3, <3>6 DEF TriageTypeOK, CallState
    <3>7. CASE Match(c)
      BY <2>2, <3>6, <3>7 DEF Match, Goto, Recording
    <3>8. CASE Redirect(c)
      <4>1. calls' = [calls EXCEPT ![c].pc = "join", ![c].event = Target(calls[c].event)]
        BY <3>8 DEF Redirect, TriageTypeOK
      <4> QED  BY <2>2, <3>6, <4>1 DEF Recording
    <3>9. CASE Create(c)
      BY <2>2, <3>6, <3>9 DEF Create, Recording
    <3> QED  BY <3>4, <3>5, <3>7, <3>8, <3>9
  <2> QED  BY <2>1, <2>2
<1> QED  BY <1>2, <1>3 DEF OnRecord

(* The state of an event follows its newest message. *)
LEMMA StateKept ==
  ASSUME EventInv, StoredInv, OneRecord, OneRecord', [TriageNext]_triageVars, "order" \notin mixed',
         \A c \in Calls : RecordSound(calls[c]),
         NEW e \in Events, MembersOf(e) # {} => InState(e), MembersOf(e)' # {}
  PROVE  InState(e)'
<1> USE DEF EventInv
<1>1. None \notin Events
  BY TriageAssumption
<1>2. MembersOf(e) \subseteq stored
  BY <1>1 DEF MembersOf, StoredInv
<1>3. ASSUME NEW c \in Calls, Join(c), calls[c].event = e PROVE InState(e)'
  <2>1. PICK m : m = calls[c].mail
    OBVIOUS
  <2>2. calls[c].pc = "join" /\ m \in Mails /\ calls[c] \in CallState
    BY <1>3, <2>1, RecordedMail, CallType DEF Join, At, Recording
  <2>3. IsLast(m, stored) /\ member[m] = None
    BY <2>1, <2>2 DEF RecordSound
  <2>4. member' = [member EXCEPT ![m] = e] /\ events' = events
    BY <1>3, <2>1, <2>3 DEF Join
  <2>5. MembersOf(e)' = MembersOf(e) \union {m}
    BY <2>2, <2>4 DEF MembersOf, TriageTypeOK
  <2>6. IsLast(m, MembersOf(e))'
    <3>1. ReceivedAt[m] <= ReceivedAt[m]
      BY <2>2, MessageType
    <3> QED  BY <1>2, <2>3, <2>5, <3>1 DEF IsLast
  <2>7. CASE calls[c].fresh
    BY <1>3, <2>1, <2>2, <2>4, <2>6, <2>7 DEF RecordSound, InState
  <2>8. CASE ~calls[c].fresh
    <3>1. /\ calls'[c].pc = "keys" /\ ~calls'[c].fresh /\ calls'[c].event = e
          /\ calls'[c].mail = m
      BY <1>3, <2>1, <2>2, <2>8 DEF Join, Goto, TriageTypeOK, CallState
    <3> QED  BY <2>2, <2>6, <3>1 DEF InState, Settling
  <2> QED  BY <2>7, <2>8
<1>4. CASE ~\E c \in Calls : Join(c) /\ calls[c].event = e
  <2>1. MembersOf(e)' = MembersOf(e)
    BY <1>1, <1>4, MemberMoves DEF MembersOf
  <2>2. InState(e) /\ Row(e)
    BY <1>1, <2>1 DEF MembersOf, NamedInv
  <2>3. PICK m \in Mails : /\ IsLast(m, MembersOf(e))
                           /\ \/ events[e].state = StateOf[m]
                              \/ \E c \in Calls : Settling(calls[c], e, m)
    BY <2>2 DEF InState
  <2>4. \A n : IsLast(n, MembersOf(e))' <=> IsLast(n, MembersOf(e))
    BY <2>1 DEF IsLast
  <2>5. ASSUME NEW c \in Calls, Touch(c), calls[c].event = e PROVE InState(e)'
    <3>1. PICK n : n = calls[c].mail
      OBVIOUS
    <3>2. calls[c].pc = "touch" /\ n \in Mails
      BY <2>5, <3>1, RecordedMail DEF Touch, At, Recording
    <3>3. IsLast(n, stored) /\ member[n] = e
      BY <2>5, <3>1, <3>2 DEF RecordSound
    <3>4. IsLast(n, MembersOf(e))
      BY <1>2, <3>2, <3>3 DEF IsLast, MembersOf
    <3>5. events'[e].state = StateOf[n]
      <4>1. events'[e] = [events[e] EXCEPT !.state = StateOf[n]] /\ events[e] \in EventRow
        BY <2>2, <2>5, <3>1 DEF Touch, Row, TriageTypeOK
      <4> QED  BY <4>1 DEF EventRow
    <3> QED  BY <2>4, <3>2, <3>4, <3>5 DEF InState
  <2>6. ASSUME \A c \in Calls : ~(Touch(c) /\ calls[c].event = e)
        PROVE  events'[e].state = events[e].state
    <3>1. ASSUME NEW c \in Calls, events'[e] = [events[e] EXCEPT !.into = calls[c].into]
          PROVE  events'[e].state = events[e].state
      BY <2>2, <3>1 DEF Row, TriageTypeOK, EventRow
    <3>2. \/ events'[e] = events[e]
          \/ \E c \in Calls : events'[e] = [events[e] EXCEPT !.into = calls[c].into]
      BY <2>2, <2>6, EventMoves
    <3> QED  BY <3>1, <3>2
  <2>7. CASE events[e].state = StateOf[m]
    BY <2>3, <2>4, <2>5, <2>6, <2>7 DEF InState
  <2>8. ASSUME NEW c \in Calls, Settling(calls[c], e, m) PROVE InState(e)'
    <3>1. CASE Unmoved(c)
      BY <2>3, <2>4, <2>8, <3>1 DEF Unmoved, Settling, InState
    <3>2. CASE StepOf(c) /\ calls[c].pc = "touch"
      <4>1. Touch(c)
        BY <3>2 DEF StepOf, Ingests, Records, Judges, Merges, Ingest, Replay, WriteFacts,
         Known, Match, Redirect, Create, Join, InsertKey, FlagJoined, Supersede, Judge, Prepare, Save,
         ChangeContext, markUocChanged, BeginMerge, BeginUnmerge, CheckChild, Link, FlagLinked,
         Enter, At, Abandon
      <4> QED  BY <2>5, <2>8, <4>1 DEF Settling
    <3>3. CASE StepOf(c) /\ calls[c].pc = "keys"
      <4>1. InsertKey(c)
        BY <3>3 DEF StepOf, Ingests, Records, Judges, Merges, Ingest, Replay, WriteFacts,
         Known, Match, Redirect, Create, Join, Touch, FlagJoined, Supersede, Judge, Prepare, Save,
         ChangeContext, markUocChanged, BeginMerge, BeginUnmerge, CheckChild, Link, FlagLinked,
         Enter, At, Abandon
      <4>2. calls[c] \in CallState
        BY CallType
      <4>3. PICK next : next = [calls[c] EXCEPT !.left = Tail(@)]
        OBVIOUS
      <4>4. /\ next.pc = "keys" /\ next.event = e /\ next.mail = m /\ ~next.fresh
            /\ calls'[c] = IF next.left = <<>> THEN AfterKeys(next) ELSE next
        BY <2>8, <3>3, <4>1, <4>2, <4>3 DEF InsertKey, Settling, TriageTypeOK, CallState
      <4>5. PICK t : t = [next EXCEPT !.pc = "touch"]
        OBVIOUS
      <4>6. t.pc = "touch" /\ t.event = e /\ t.mail = m /\ ~t.fresh
        BY <4>2, <4>3, <4>4, <4>5 DEF CallState
      <4>7. calls'[c] = next \/ calls'[c] = t
        BY <4>4, <4>5 DEF AfterKeys
      <4>8. Settling(calls[c], e, m)'
        BY <4>4, <4>6, <4>7 DEF Settling
      <4> QED  BY <2>3, <2>4, <4>8 DEF InState
    <3> QED  BY <2>8, <3>1, <3>2, <3>3, StillOrOwn DEF Settling
  <2> QED  BY <2>3, <2>7, <2>8
<1> QED  BY <1>3, <1>4

LEMMA OrderKept ==
  ASSUME EventInv, StoredInv, OrderInv, [TriageNext]_triageVars
  PROVE  OrderInv'
<1>1. SUFFICES ASSUME "order" \notin mixed'
               PROVE  (/\ OneRecord
                       /\ \A m \in stored : OnRecord(m)
                       /\ \A c \in Calls : RecordSound(calls[c])
                       /\ \A e \in Events : MembersOf(e) # {} => InState(e))'
  BY DEF OrderInv
<1>2. /\ OneRecord
      /\ \A m \in stored : OnRecord(m)
      /\ \A c \in Calls : RecordSound(calls[c])
      /\ \A e \in Events : MembersOf(e) # {} => InState(e)
  BY <1>1, MixedStays DEF OrderInv
<1>3. OneRecord'
  BY <1>1, <1>2, OneRecordKept
<1>4. ASSUME NEW m \in stored' PROVE OnRecord(m)'
  <2>1. CASE m \in stored
    BY <1>1, <1>2, <2>1, OnRecordKept
  <2>2. CASE m \notin stored
    <3>1. PICK c \in Calls : Ingest(c, m)
      BY <1>4, <2>2, StoredMoves DEF EventInv
    <3>2. m \in Mails
      BY <1>4, TypesKept DEF TriageTypeOK
    <3>3. calls'[c] = Recorded(m)
      BY <3>1 DEF Ingest, OutdatedCalls
    <3>4. calls'[c].pc = "facts" /\ calls'[c].mail = m
      BY <3>3 DEF Recorded, IdleTurn
    <3> QED  BY <3>4 DEF OnRecord, Recording
  <2> QED  BY <2>1, <2>2
<1>5. ASSUME NEW c \in Calls PROVE RecordSound(calls[c])'
  BY <1>1, <1>2, <1>3, SoundKept
<1>6. ASSUME NEW e \in Events PROVE (MembersOf(e) # {} => InState(e))'
  BY <1>1, <1>2, <1>3, StateKept
<1> QED  BY <1>3, <1>4, <1>5, <1>6

-----------------------------------------------------------------------------
(* The newest of some messages. *)
LEMMA LastExists ==
  ASSUME NEW ms, ms \subseteq Mails, ms # {}, \A m \in ms : ReceivedAt[m] <= MaxClock
  PROVE  \E m \in ms : IsLast(m, ms)
<1> DEFINE T == {MaxClock - ReceivedAt[m] : m \in ms}
<1>1. \A m \in ms : ReceivedAt[m] \in Nat
  BY MessageType
<1>2. MaxClock \in Nat
  BY TriageAssumption
<1>3. T \subseteq Nat /\ T # {}
  BY <1>1, <1>2
<1>4. \E x \in T : \A y \in T : ~(<<y, x>> \in OpToRel(<, Nat))
  <2> HIDE DEF T
  <2> QED  BY <1>3, WFMin, NatLessThanWellFounded
<1>5. PICK x \in T : \A y \in T : ~(<<y, x>> \in OpToRel(<, Nat))
  BY <1>4
<1>6. \A y \in T : ~(y < x)
  <2> HIDE DEF T
  <2> QED  BY <1>3, <1>5 DEF OpToRel
<1>7. PICK m \in ms : x = MaxClock - ReceivedAt[m]
  BY <1>5
<1>8. ASSUME NEW n \in ms PROVE ReceivedAt[n] <= ReceivedAt[m]
  <2>1. ~(MaxClock - ReceivedAt[n] < MaxClock - ReceivedAt[m])
    BY <1>6, <1>7
  <2> QED  BY <1>1, <1>2, <2>1
<1> QED  BY <1>8 DEF IsLast

LEMMA LatestIsLast ==
  ASSUME NEW ms, ms \subseteq Mails, ms # {}, \A m \in ms : ReceivedAt[m] <= MaxClock
  PROVE  IsLast(Latest(ms), ms)
<1>1. \E m \in ms : \A n \in ms : ReceivedAt[n] <= ReceivedAt[m]
  BY LastExists DEF IsLast
<1> QED  BY <1>1 DEF Latest, IsLast

LEMMA LastIsOne ==
  ASSUME NEW ms, ms \subseteq Mails, NEW m, NEW n, IsLast(m, ms), IsLast(n, ms)
  PROVE  m = n
<1>1. m \in Mails /\ n \in Mails /\ ReceivedAt[m] <= ReceivedAt[n] /\ ReceivedAt[n] <= ReceivedAt[m]
  BY DEF IsLast
<1>2. ReceivedAt[m] = ReceivedAt[n]
  BY <1>1, MessageType
<1> QED  BY <1>1, <1>2, TriageAssumption

(* What a presentation puts into the action lane is neither over by its    *)
(* event nor by its judgment, and what it calls safe has no code run out.  *)
LEMMA ActionLane ==
  ASSUME NEW j, NEW f, NEW observed, Presentation(j, f, observed).lane = "action", Accepted(j)
  PROVE  observed # "resolved" /\ ~Terminal(j)
<1>1. Lane(j, Band(j, f, observed)) = "action"
  BY DEF Presentation
<1>2. Band(j, f, observed) # Noise /\ j.action
  BY <1>1 DEF Lane
<1> QED  BY <1>2 DEF Band, Accepted

LEMMA SafeLane ==
  ASSUME NEW j, NEW f, NEW observed, Presentation(j, ForClamps(f), observed).safe
  PROVE  \A c \in f.credentials : c.state # "expired"
<1>1. SafeTarget(ForClamps(f))
  BY DEF Presentation
<1>2. ~ForClamps(f).expiredCredential
  BY <1>1 DEF SafeTarget
<1> QED  BY <1>2 DEF ForClamps

(* Facts as they are at a time. *)
LEMMA RefreshType ==
  ASSUME NEW f \in TriageFacts, NEW now \in Nat
  PROVE  /\ refreshTemporalFacts(f, now) \in TriageFacts
         /\ refreshTemporalFacts(f, now).credentials = {Credential(c.expiresAt, now) : c \in f.credentials}
<1> DEFINE D == {Deadline(d.at, now) : d \in f.deadlines}
           C == {Credential(c.expiresAt, now) : c \in f.credentials}
<1>1. D \subseteq [at : SUBSET Nat, state : {"past", "future", "unknown"}]
  <2>1. \A d \in f.deadlines : d.at \in SUBSET Nat
    BY DEF TriageFacts
  <2> QED  BY <2>1 DEF Deadline
<1>2. C \subseteq [expiresAt : Nat, state : {"valid", "expired"}]
  <2>1. \A c \in f.credentials : c.expiresAt \in Nat
    BY DEF TriageFacts
  <2> QED  BY <2>1 DEF Credential
<1>3. refreshTemporalFacts(f, now) = [f EXCEPT !.deadlines = D, !.credentials = C]
  BY DEF refreshTemporalFacts
<1> HIDE DEF D, C
<1>4. refreshTemporalFacts(f, now) \in TriageFacts /\ refreshTemporalFacts(f, now).credentials = C
  BY <1>1, <1>2, <1>3 DEF TriageFacts
<1> QED  BY <1>4 DEF C

LEMMA MergedCredentials ==
  ASSUME NEW f \in TriageFacts, NEW all
  PROVE  mergeFacts(f, all).credentials = UNION {g.credentials : g \in all}
BY DEF mergeFacts, TriageFacts

(* A code that has run out since its message was read is seen to have. *)
LEMMA CodeRunsOut ==
  ASSUME NEW m \in TriageFeatureMessage, "code" \in m.signs, NEW at \in Expires(m),
         NEW then \in Nat, NEW now \in Nat, at <= now
  PROVE  \E c \in refreshTemporalFacts(extractFeatures(m, then), now).credentials : c.state = "expired"
<1>1. PICK f : f = extractFeatures(m, then)
  OBVIOUS
<1>2. f \in TriageFacts
  BY <1>1, FeaturesType
<1>3. f.credentials = parseCredentials(m, then)
  BY <1>1 DEF extractFeatures
<1>4. Credential(at, then) \in f.credentials
  BY <1>3 DEF parseCredentials, Expires
<1>5. Credential(at, then).expiresAt = at
  BY DEF Credential
<1>6. Credential(at, now) \in refreshTemporalFacts(f, now).credentials
  BY <1>2, <1>4, <1>5, RefreshType
<1>7. Credential(at, now).state = "expired"
  BY DEF Credential
<1> QED  BY <1>1, <1>6, <1>7

LEMMA ActionsLive ==
  ASSUME EventInv, FactsInv, StoredInv, OrderInv
  PROVE  ActionIsLive
<1> USE DEF EventInv
<1>1. SUFFICES ASSUME NEW e \in Events, Canonical(e), decisions[e] # None, Context(e) # {}
               PROVE  /\ Shown(e).safe => \A m \in Context(e) : "code" \in Message[m].signs =>
                                             \A at \in Expires(Message[m]) : clock < at
                      /\ /\ "order" \notin mixed /\ ~Some(Recording)
                         /\ MembersOf(e) # {} /\ e \in getWaitingForUser
                         => StateOf[Latest(MembersOf(e))] = "active" /\ ~Terminal(decisions[e].judgment)
  BY DEF ActionIsLive
<1>2. clock \in Nat /\ MaxClock \in Nat /\ clock <= MaxClock /\ None \notin Events
  BY TriageAssumption DEF TriageTypeOK
<1>3. ASSUME NEW m \in Mails, member[m] # None
      PROVE  /\ facts[m] \in TriageFacts /\ ReceivedAt[m] <= MaxClock
             /\ \E at \in Nat : facts[m] = extractFeatures(Message[m], at)
  <2>1. facts[m] # None /\ m \in stored
    BY <1>3 DEF FactsInv, StoredInv
  <2>2. ReceivedAt[m] <= clock /\ ReceivedAt[m] \in Nat
    BY <1>3, <2>1, MessageType DEF StoredInv
  <2>3. PICK at \in 0..MaxClock : facts[m] = extractFeatures(Message[m], at)
    BY <1>3, <2>1 DEF FactsInv, Extracted
  <2> QED  BY <1>2, <1>3, <2>1, <2>2, <2>3 DEF TriageTypeOK
<1>4. \A m \in Context(e) : m \in Mails /\ member[m] # None
  BY DEF Context
<1>5. ASSUME Shown(e).safe, NEW m \in Context(e), "code" \in Message[m].signs,
             NEW at \in Expires(Message[m])
      PROVE  clock < at
  <2> DEFINE now(n) == refreshTemporalFacts(facts[n], clock)
             all == {now(n) : n \in Context(e)}
  <2>1. Latest(Context(e)) \in Context(e)
    BY <1>1, <1>3, <1>4, LatestIsLast DEF IsLast
  <2>2. now(Latest(Context(e))) \in TriageFacts
    BY <1>2, <1>3, <1>4, <2>1, RefreshType
  <2>3. EventFacts(e) = ForClamps(mergeFacts(now(Latest(Context(e))), all))
    BY DEF EventFacts
  <2>4. PICK f : f = mergeFacts(now(Latest(Context(e))), all)
    OBVIOUS
  <2>5. f.credentials = UNION {g.credentials : g \in all}
    BY <2>2, <2>4, MergedCredentials
  <2>6. \A c \in f.credentials : c.state # "expired"
    BY <1>5, <2>3, <2>4, SafeLane DEF Shown
  <2>7. now(m) \in all
    OBVIOUS
  <2>8. \A c \in now(m).credentials : c.state # "expired"
    <3> HIDE DEF all, now
    <3> QED  BY <2>5, <2>6, <2>7
  <2>9. PICK then \in Nat : facts[m] = extractFeatures(Message[m], then)
    BY <1>3, <1>4
  <2>10. at \in Nat
    <3>1. Message[m] \in TriageFeatureMessage
      BY <1>4, MessageType
    <3>2. Message[m].receivedAt \in Nat /\ Message[m].ttl \subseteq Nat
      BY <3>1 DEF TriageFeatureMessage
    <3> QED  BY <3>2 DEF Expires
  <2>11. ~(at <= clock)
    <3>1. Message[m] \in TriageFeatureMessage
      BY <1>4, MessageType
    <3> QED  BY <1>2, <1>5, <2>8, <2>9, <3>1, CodeRunsOut
  <2> QED  BY <1>2, <2>10, <2>11
<1>6. ASSUME "order" \notin mixed, ~Some(Recording), MembersOf(e) # {}, e \in getWaitingForUser
      PROVE  StateOf[Latest(MembersOf(e))] = "active" /\ ~Terminal(decisions[e].judgment)
  <2>1. compatibilityItem(e).workflowState = "action_required"
    BY <1>6 DEF getWaitingForUser
  <2>2. Shown(e).lane = "action"
    BY <1>1, <2>1 DEF compatibilityItem
  <2>3. Accepted(decisions[e].judgment)
    BY <1>1 DEF NamedInv
  <2>4. events[e].state # "resolved" /\ ~Terminal(decisions[e].judgment)
    BY <2>2, <2>3, ActionLane DEF Shown
  <2>5. events[e].state \in {"active", "resolved"}
    BY <1>1 DEF Canonical, TriageTypeOK, EventRow
  <2>6. PICK m \in Mails : /\ IsLast(m, MembersOf(e))
                           /\ \/ events[e].state = StateOf[m]
                              \/ \E c \in Calls : Settling(calls[c], e, m)
    BY <1>6 DEF OrderInv, InState
  <2>7. events[e].state = StateOf[m]
    BY <1>6, <2>6 DEF Settling, Some, Recording
  <2>8. /\ MembersOf(e) \subseteq Mails
        /\ \A n \in MembersOf(e) : ReceivedAt[n] <= MaxClock
    BY <1>2, <1>3 DEF MembersOf
  <2>9. m = Latest(MembersOf(e))
    BY <1>6, <2>6, <2>8, LatestIsLast, LastIsOne
  <2> QED  BY <2>4, <2>5, <2>7, <2>9
<1> QED  BY <1>5, <1>6

(* The action queue of the inbox (getWaitingForUser) asks for nothing that *)
(* is over, as long as messages are recorded in the order they came; and   *)
(* no target is ever called safe for a code that has run out.              *)
THEOREM ActionsAreLive == TriageSpec => []ActionIsLive
<1>1. TriageInit => FactsInv /\ StoredInv /\ OrderInv
  <2> SUFFICES ASSUME TriageInit PROVE FactsInv /\ StoredInv /\ OrderInv
    OBVIOUS
  <2>1. \A c \in Calls : calls[c].pc = "idle" /\ ~calls[c].fresh
    BY DEF TriageInit, IdleTurn
  <2>2. \A e \in Events : MembersOf(e) = {}
    BY TriageAssumption DEF TriageInit, MembersOf
  <2>3. \A c \in Calls : RecordSound(calls[c])
    BY <2>1 DEF RecordSound
  <2>4. OneRecord
    BY <2>1 DEF OneRecord, Recording
  <2>5. FactsInv /\ StoredInv
    BY <2>1 DEF TriageInit, FactsInv, StoredInv, Recording
  <2> QED  BY <2>2, <2>3, <2>4, <2>5 DEF OrderInv, TriageInit
<1>2. EventInv /\ FactsInv /\ StoredInv /\ OrderInv /\ [TriageNext]_triageVars
        => FactsInv' /\ StoredInv' /\ OrderInv'
  BY FactsKept, StoredKept, OrderKept
<1>3. EventInv /\ FactsInv /\ StoredInv /\ OrderInv => ActionIsLive
  BY ActionsLive
<1> QED  BY <1>1, <1>2, <1>3, EventsInit, EventsKept, PTL DEF TriageSpec

-----------------------------------------------------------------------------
(* Mailbox.  What a call holds at each of its statements: a sync the       *)
(* message it has taken, stored once it is past the insert; a call about a *)
(* sender that sender, and its profile once that is read or made.  Of the  *)
(* messages a sync was shown each is still to come, stored, or the one it  *)
(* is about to store.                                                      *)
Storing == {"exists", "insert"}
SyncOnly == {"next", "seen", "thread", "count", "saved", "act"} \union Storing
Profiling == {"profile", "newProfile"}
Relating == {"relation", "relate"}
OfSender == Profiling \union Relating \union {"seen", "project", "newProject"}
Forgetting == {"forgetRelations", "forgetSenders"}
BoxPcs == {"idle", "flag"} \union SyncOnly \union OfSender \union Forgetting
BoxCall ==
  [kind : AllKinds \union {"idle"}, pc : BoxPcs, shown : SUBSET Uids, left : SUBSET Uids,
   msg : Uids \union {None}, sender : Senders \union {None}, type : Types \union {None},
   project : Projects \union {None}, action : AllActions \union UserActions \union {None},
   profile : ProfileRow \union {None}, thread : Nat \union {None},
   flags : Flags \union {None}, relation : RelationRow \union {None}]
Told == [types : [Senders -> Types \union {None}], projects : [Senders -> SUBSET Projects],
         flags : [Uids -> Flags \union {None}]]

(* A sync whose message is stored, and has its thread not yet counted. *)
Uncounting == Profiling \union {"seen", "thread", "count"}
Uncounted(call) == call.kind = "sync" /\ call.pc \in Uncounting
OfStored(call) == Uncounted(call) \/ call.pc \in {"saved", "act", "flag"}

KindSound(call) ==
  /\ call.pc = "idle" => call.kind = "idle"
  /\ call.pc \in SyncOnly => call.kind = "sync"
  /\ call.pc \in Profiling => call.kind \in {"sync", "relate", "associate", "look"}
  /\ call.pc \in {"project", "newProject"} => call.kind = "associate"
  /\ call.pc \in Relating => call.kind \in {"relate", "associate"}
  /\ call.pc \in Forgetting => call.kind = "forget"
HoldSound(call) ==
  /\ call.pc \in OfSender => call.sender # None
  /\ call.pc \in OfSender \ Profiling => call.profile # None
  /\ call.kind = "relate" => call.type # None
  /\ call.kind = "associate" => call.project # None
  /\ call.pc \in {"act", "flag"} => call.flags # None
  /\ call.pc \in Storing => call.msg # None
  /\ call.kind = "sync" /\ call.msg # None => call.sender = SenderOf(call.msg)
StoreSound(call) ==
  /\ OfStored(call) => call.msg # None /\ Ingested(call.msg)
  /\ call.kind = "sync" =>
       \A m \in call.shown : \/ m \in call.left \/ Ingested(m)
                             \/ call.pc \in Storing /\ m = call.msg

Shape == {call \in BoxCall : KindSound(call) /\ HoldSound(call)}

BoxTables == MailboxTypeOK /\ promised \subseteq Uids /\ since \subseteq Uids /\ told \in Told
BoxInv ==
  /\ BoxTables /\ calls \in [Calls -> Shape]
  /\ \A c \in Calls : StoreSound(calls[c])
  /\ ShownIsStored

(* As long as calls come one at a time there is one call, and what it has  *)
(* read is still so.                                                       *)
OneCall == \A c, d \in Calls : calls[c].pc # "idle" /\ calls[d].pc # "idle" => c = d
ReadSound(call) ==
  /\ call.pc = "insert" => ~Ingested(call.msg)
  /\ call.pc = "newProfile" => senders[call.sender] = None
  /\ call.pc = "seen" => call.profile = senders[call.sender]
  /\ call.pc = "count" => call.thread = threads[ThreadOf(call.msg)]
  /\ call.pc \in {"act", "flag"} => call.flags = emails[call.msg].flags
LoneInv == raced = 0 => OneCall /\ \A c \in Calls : ReadSound(calls[c])

(* ... and a thread counts its stored messages but the one that the sync   *)
(* has yet to count, a sender those counted since.                         *)
CountedOf(t) ==
  {m \in Uids : Ingested(m) /\ ThreadOf(m) = t
                /\ ~\E c \in Calls : Uncounted(calls[c]) /\ calls[c].msg = m}
SinceOf(s) == {m \in since : SenderOf(m) = s}
CountOf(ms) == IF ms = {} THEN None ELSE Cardinality(ms)
CountsInv ==
  raced = 0 =>
    /\ \A t \in Threads : threads[t] = CountOf(CountedOf(t))
    /\ \A s \in Senders : IF senders[s] = None THEN SinceOf(s) = {}
                          ELSE senders[s].seen = 1 + Cardinality(SinceOf(s))
    /\ \A m \in since : Ingested(m)
    /\ \A c \in Calls : calls[c].kind = "sync" /\ calls[c].pc \in Profiling \union {"seen"} =>
                          calls[c].msg \notin since

(* ... and a stored message is marked as the user has marked it, unless a  *)
(* sync is about to act upon it: then the user has not.                    *)
MarksInv ==
  raced = 0 =>
    /\ \A m \in Uids : told.flags[m] # None => Ingested(m) /\ emails[m].flags = told.flags[m]
    /\ \A c \in Calls : calls[c].kind = "sync" /\ calls[c].pc \in BoxPcs \ {"next", "exists"} =>
                          told.flags[calls[c].msg] = None

(* The shapes a call takes. *)
LEMMA IdleCallShape == IdleCall \in Shape
BY MailboxNoneAssumption DEF IdleCall, Shape, BoxCall, KindSound, HoldSound, BoxPcs, SyncOnly,
   Profiling, Relating, OfSender, Forgetting, Storing

LEMMA ThrewShape ==
  ASSUME NEW r \in Shape
  PROVE  Threw(r) \in Shape
<1>1. r.shown \subseteq Uids /\ r.left \subseteq Uids
  BY DEF Shape, BoxCall
<1>2. PICK new : new = [IdleCall EXCEPT !.kind = "sync", !.pc = "next",
                                        !.shown = r.shown, !.left = r.left]
  OBVIOUS
<1>3. new \in BoxCall
  BY <1>1, <1>2 DEF IdleCall, BoxCall, BoxPcs, SyncOnly, AllKinds
<1>4. KindSound(new) /\ HoldSound(new)
  BY <1>2 DEF IdleCall, KindSound, HoldSound, SyncOnly,
     Profiling, Relating, OfSender, Forgetting, Storing
<1> QED  BY <1>2, <1>3, <1>4, IdleCallShape DEF Threw, Shape

(* A call that goes on keeps its shape when its kind goes on as it may.    *)
LEMMA GotoShape ==
  ASSUME NEW r \in Shape, NEW pc,
         \/ r.kind = "sync" /\ r.msg # None /\ pc \in {"next", "insert", "profile"}
         \/ r.pc = "profile" /\ pc = "newProfile"
         \/ r.pc \in {"project", "newProject"} /\ pc \in {"newProject", "relation"}
         \/ r.pc = "forgetRelations" /\ pc = "forgetSenders"
  PROVE  [r EXCEPT !.pc = pc] \in Shape
<1>1. PICK new : new = [r EXCEPT !.pc = pc]
  OBVIOUS
<1>2. r \in BoxCall /\ KindSound(r) /\ HoldSound(r)
  BY DEF Shape
<1>3. pc \in BoxPcs
  BY DEF BoxPcs, SyncOnly, OfSender, Profiling, Relating, Forgetting, Storing
<1>4. new \in BoxCall
  BY <1>1, <1>2, <1>3 DEF BoxCall
<1>5. /\ new.pc = pc /\ new.kind = r.kind /\ new.sender = r.sender /\ new.profile = r.profile
      /\ new.type = r.type /\ new.project = r.project /\ new.msg = r.msg /\ new.flags = r.flags
  BY <1>1, <1>2 DEF BoxCall
<1>6. KindSound(new)
  BY <1>2, <1>5 DEF KindSound, SyncOnly, Profiling, Relating, Forgetting, Storing, OfSender
<1>7. r.kind = "sync" /\ r.msg # None => r.sender # None
  BY <1>2, SenderAssumption, MailboxNoneAssumption DEF HoldSound, BoxCall
<1>8. HoldSound(new)
  BY <1>2, <1>5, <1>7 DEF HoldSound, SyncOnly, Profiling, Relating, Forgetting, Storing, OfSender
<1> QED  BY <1>1, <1>4, <1>6, <1>8 DEF Shape

LEMMA SetCall ==
  ASSUME calls \in [Calls -> Shape], NEW c \in Calls, NEW new \in Shape,
         calls' = [calls EXCEPT ![c] = new]
  PROVE  calls' \in [Calls -> Shape]
OBVIOUS

LEMMA GoesTo ==
  ASSUME calls \in [Calls -> Shape], NEW c \in Calls, NEW pc, Goto(c, pc)
  PROVE  calls' = [calls EXCEPT ![c] = [calls[c] EXCEPT !.pc = pc]]
BY DEF Goto

(* The kinds of calls that begin. *)
LEMMA SyncShape ==
  ASSUME NEW found \in SUBSET Uids
  PROVE  [IdleCall EXCEPT !.kind = "sync", !.pc = "next", !.shown = found, !.left = found] \in Shape
<1>1. PICK new : new = [IdleCall EXCEPT !.kind = "sync", !.pc = "next", !.shown = found,
                                        !.left = found]
  OBVIOUS
<1>2. new \in BoxCall
  BY <1>1 DEF IdleCall, BoxCall, BoxPcs, SyncOnly, AllKinds
<1>3. KindSound(new) /\ HoldSound(new)
  BY <1>1 DEF IdleCall, KindSound, HoldSound, SyncOnly,
     Profiling, Relating, OfSender, Forgetting, Storing
<1> QED  BY <1>1, <1>2, <1>3 DEF Shape

LEMMA MutateShape ==
  ASSUME NEW m \in Uids, NEW flags \in Flags, NEW action \in UserActions
  PROVE  [IdleCall EXCEPT !.kind = "mutate", !.pc = "flag", !.msg = m, !.flags = flags,
                          !.action = action] \in Shape
<1>1. PICK new : new = [IdleCall EXCEPT !.kind = "mutate", !.pc = "flag", !.msg = m,
                                        !.flags = flags, !.action = action]
  OBVIOUS
<1>2. new \in BoxCall
  BY <1>1 DEF IdleCall, BoxCall, BoxPcs, AllKinds
<1>3. flags # None
  BY MailboxRowAssumption
<1>4. KindSound(new) /\ HoldSound(new)
  BY <1>1, <1>3 DEF IdleCall, KindSound, HoldSound, SyncOnly,
     Profiling, Relating, OfSender, Forgetting, Storing
<1> QED  BY <1>1, <1>2, <1>4 DEF Shape

LEMMA LookShape ==
  ASSUME NEW s \in Senders
  PROVE  [IdleCall EXCEPT !.kind = "look", !.pc = "profile", !.sender = s] \in Shape
<1>1. PICK new : new = [IdleCall EXCEPT !.kind = "look", !.pc = "profile", !.sender = s]
  OBVIOUS
<1>2. new \in BoxCall
  BY <1>1 DEF IdleCall, BoxCall, BoxPcs, AllKinds, OfSender, Profiling
<1>3. s # None
  BY MailboxNoneAssumption
<1>4. KindSound(new) /\ HoldSound(new)
  BY <1>1, <1>3 DEF IdleCall, KindSound, HoldSound, SyncOnly,
     Profiling, Relating, OfSender, Forgetting, Storing
<1> QED  BY <1>1, <1>2, <1>4 DEF Shape

LEMMA RelateShape ==
  ASSUME NEW s \in Senders, NEW type \in Types
  PROVE  [IdleCall EXCEPT !.kind = "relate", !.pc = "profile", !.sender = s, !.type = type] \in Shape
<1>1. PICK new : new = [IdleCall EXCEPT !.kind = "relate", !.pc = "profile", !.sender = s, !.type = type]
  OBVIOUS
<1>2. new \in BoxCall
  BY <1>1 DEF IdleCall, BoxCall, BoxPcs, AllKinds, OfSender, Profiling
<1>3. s # None /\ type # None
  BY MailboxNoneAssumption
<1>4. KindSound(new) /\ HoldSound(new)
  BY <1>1, <1>3 DEF IdleCall, KindSound, HoldSound, SyncOnly,
     Profiling, Relating, OfSender, Forgetting, Storing
<1> QED  BY <1>1, <1>2, <1>4 DEF Shape

LEMMA AssociateShape ==
  ASSUME NEW s \in Senders, NEW p \in Projects
  PROVE  [IdleCall EXCEPT !.kind = "associate", !.pc = "profile", !.sender = s, !.project = p] \in Shape
<1>1. PICK new : new = [IdleCall EXCEPT !.kind = "associate", !.pc = "profile", !.sender = s, !.project = p]
  OBVIOUS
<1>2. new \in BoxCall
  BY <1>1 DEF IdleCall, BoxCall, BoxPcs, AllKinds, OfSender, Profiling
<1>3. s # None /\ p # None
  BY MailboxNoneAssumption
<1>4. KindSound(new) /\ HoldSound(new)
  BY <1>1, <1>3 DEF IdleCall, KindSound, HoldSound, SyncOnly,
     Profiling, Relating, OfSender, Forgetting, Storing
<1> QED  BY <1>1, <1>2, <1>4 DEF Shape

LEMMA ForgetShape ==
  [IdleCall EXCEPT !.kind = "forget", !.pc = "forgetRelations"] \in Shape
<1>1. PICK new : new = [IdleCall EXCEPT !.kind = "forget", !.pc = "forgetRelations"]
  OBVIOUS
<1>2. new \in BoxCall
  BY <1>1 DEF IdleCall, BoxCall, BoxPcs, AllKinds, Forgetting
<1>3. KindSound(new) /\ HoldSound(new)
  BY <1>1 DEF IdleCall, KindSound, HoldSound, SyncOnly,
     Profiling, Relating, OfSender, Forgetting, Storing
<1> QED  BY <1>1, <1>2, <1>3 DEF Shape

-----------------------------------------------------------------------------
(* Every step of a call gives it a shape. *)
LEMMA ShapeOf ==
  ASSUME calls \in [Calls -> Shape], NEW c \in Calls
  PROVE  calls[c] \in BoxCall /\ KindSound(calls[c]) /\ HoldSound(calls[c])
BY DEF Shape

LEMMA NewestType ==
  ASSUME MailboxTypeOK
  PROVE  Newest \subseteq Uids
<1>1. 1..arrived \subseteq Uids
  BY MailboxAssumption DEF MailboxTypeOK, Uids
<1> QED  BY <1>1 DEF Newest, MailboxTypeOK

Begins(c) ==
  \/ \E found \in SUBSET Uids : Sync(c, found)
  \/ \E m \in Uids, action \in UserActions : BeginMutate(c, m, action)
  \/ \E s \in Senders : \/ BeginLook(c, s)
                        \/ \E type \in Types : BeginRelate(c, s, type)
                        \/ \E p \in Projects : BeginAssociate(c, s, p)
  \/ BeginForget(c)
Ingesting(c) ==
  NextMessage(c) \/ FindEmail(c) \/ InsertEmail(c) \/ CountSender(c) \/ ReadThread(c)
  \/ CountThread(c) \/ Saved(c) \/ Act(c)
Profiles(c) == ReadProfile(c) \/ InsertProfile(c)
Speaking(c) ==
  Flag(c) \/ ReadProject(c) \/ InsertProject(c) \/ ReadRelation(c) \/ WriteRelation(c)
  \/ ForgetRelations(c) \/ ForgetSenders(c)
Stops(c) == Fail(c) \/ Crash(c)
BoxStep(c) == Begins(c) \/ Ingesting(c) \/ Profiles(c) \/ Speaking(c) \/ Stops(c)

LEMMA BoxCases ==
  ASSUME MailboxTypeOK, [MailboxNext]_boxVars
  PROVE  \/ \E c \in Calls : BoxStep(c)
         \/ Arrive \/ \E m \in Uids : MoveOut(m)
         \/ PurgeBodies
         \/ UNCHANGED boxVars
<1>1. ASSUME NEW c \in Calls, BeginSync(c) \/ BeginGmailSync(c)
      PROVE  \E found \in SUBSET Uids : Sync(c, found)
  BY <1>1, NewestType DEF BeginSync, BeginGmailSync
<1> QED  BY <1>1 DEF MailboxNext, PrivacyRoutes, BoxStep, Begins, Ingesting, Profiles, Speaking,
           Stops

LEMMA BeginShapes ==
  ASSUME BoxTables, calls \in [Calls -> Shape], NEW c \in Calls, Begins(c)
  PROVE  calls' \in [Calls -> Shape]
<1>1. ASSUME NEW found \in SUBSET Uids, Sync(c, found) PROVE calls' \in [Calls -> Shape]
  BY <1>1, SyncShape, SetCall DEF Sync, Begin, Go
<1>2. ASSUME NEW m \in Uids, NEW action \in UserActions, BeginMutate(c, m, action)
      PROVE  calls' \in [Calls -> Shape]
  <2>1. emails[m].flags \in Flags
    BY <1>2 DEF BeginMutate, Ingested, BoxTables, MailboxTypeOK, EmailRow
  <2> QED  BY <1>2, <2>1, MutateShape, SetCall DEF BeginMutate, Begin, Go
<1>3. ASSUME NEW s \in Senders, BeginLook(c, s) PROVE calls' \in [Calls -> Shape]
  BY <1>3, LookShape, SetCall DEF BeginLook, Begin, Go
<1>4. ASSUME NEW s \in Senders, NEW type \in Types, BeginRelate(c, s, type)
      PROVE  calls' \in [Calls -> Shape]
  BY <1>4, RelateShape, SetCall DEF BeginRelate, Begin, Go
<1>5. ASSUME NEW s \in Senders, NEW p \in Projects, BeginAssociate(c, s, p)
      PROVE  calls' \in [Calls -> Shape]
  BY <1>5, AssociateShape, SetCall DEF BeginAssociate, Begin, Go
<1>6. CASE BeginForget(c)
  BY <1>6, ForgetShape, SetCall DEF BeginForget, Begin, Go
<1> QED  BY <1>1, <1>2, <1>3, <1>4, <1>5, <1>6 DEF Begins

(* The newest of the messages that are left is one of them. *)
LEMMA NextExists ==
  ASSUME NEW left \in SUBSET Uids, left # {}
  PROVE  (CHOOSE n \in left : \A o \in left : n >= o) \in left
<1> DEFINE T == {LastUid - n : n \in left}
<1>1. LastUid \in Nat /\ \A n \in left : n \in Nat /\ n <= LastUid
  BY MailboxAssumption DEF Uids
<1>2. T \subseteq Nat /\ T # {}
  BY <1>1
<1>3. \E x \in T : \A y \in T : ~(<<y, x>> \in OpToRel(<, Nat))
  <2> HIDE DEF T
  <2> QED  BY <1>2, WFMin, NatLessThanWellFounded
<1>4. PICK x \in T : \A y \in T : ~(<<y, x>> \in OpToRel(<, Nat))
  BY <1>3
<1>5. \A y \in T : ~(y < x)
  <2> HIDE DEF T
  <2> QED  BY <1>2, <1>4 DEF OpToRel
<1>6. PICK m \in left : x = LastUid - m
  BY <1>4
<1>7. ASSUME NEW n \in left PROVE m >= n
  <2>1. ~(LastUid - n < LastUid - m)
    BY <1>5, <1>6
  <2> QED  BY <1>1, <2>1
<1> QED  BY <1>7

(* A sync holds its message, and so its sender. *)
LEMMA SyncHolds ==
  ASSUME BoxInv, NEW c \in Calls, calls[c].kind = "sync", calls[c].pc # "next"
  PROVE  /\ calls[c].msg \in Uids
         /\ calls[c].sender = SenderOf(calls[c].msg) /\ calls[c].sender # None
<1>1. calls[c] \in BoxCall /\ KindSound(calls[c]) /\ HoldSound(calls[c]) /\ StoreSound(calls[c])
  BY ShapeOf DEF BoxInv
<1>2. calls[c].msg # None
  BY <1>1 DEF KindSound, HoldSound, StoreSound, OfStored, Uncounted, Uncounting, BoxCall, BoxPcs,
     SyncOnly, OfSender, Profiling, Relating, Forgetting, Storing
<1> QED  BY <1>1, <1>2, SenderAssumption, MailboxNoneAssumption DEF HoldSound, BoxCall

LEMMA NextShape ==
  ASSUME NEW r \in Shape, NEW m \in Uids, r.kind = "sync", r.pc = "next"
  PROVE  [r EXCEPT !.pc = "exists", !.msg = m, !.left = @ \ {m}, !.sender = SenderOf(m)] \in Shape
<1>1. PICK new : new = [r EXCEPT !.pc = "exists", !.msg = m, !.left = @ \ {m},
                                 !.sender = SenderOf(m)]
  OBVIOUS
<1>2. r \in BoxCall /\ SenderOf(m) \in Senders
  BY SenderAssumption DEF Shape
<1>3. /\ new.pc = "exists" /\ new.msg = m /\ new.left = r.left \ {m}
      /\ new.sender = SenderOf(m) /\ new.kind = "sync"
  BY <1>1, <1>2 DEF BoxCall
<1>4. new \in BoxCall
  <2>1. r.left \ {m} \in SUBSET Uids
    BY <1>2 DEF BoxCall
  <2> QED  BY <1>1, <1>2, <2>1 DEF BoxCall, BoxPcs, SyncOnly, Storing
<1>5. m # None /\ SenderOf(m) # None
  BY <1>2, MailboxNoneAssumption DEF Uids
<1>6. KindSound(new) /\ HoldSound(new)
  BY <1>3, <1>5 DEF KindSound, HoldSound, SyncOnly,
     Profiling, Relating, OfSender, Forgetting, Storing
<1> QED  BY <1>1, <1>4, <1>6 DEF Shape

(* What a sync reads or forgets of its profile, its thread and the flags. *)
LEMMA SeenShape ==
  ASSUME NEW r \in Shape, r.kind = "sync"
  PROVE  [r EXCEPT !.pc = "thread", !.profile = None] \in Shape
<1>1. PICK new : new = [r EXCEPT !.pc = "thread", !.profile = None]
  OBVIOUS
<1>2. r \in BoxCall /\ HoldSound(r)
  BY DEF Shape
<1>3. new.pc = "thread" /\ new.kind = "sync" /\ new.msg = r.msg /\ new.sender = r.sender
  BY <1>1, <1>2 DEF BoxCall
<1>4. new \in BoxCall
  BY <1>1, <1>2 DEF BoxCall, BoxPcs, SyncOnly
<1>5. KindSound(new) /\ HoldSound(new)
  BY <1>2, <1>3 DEF KindSound, HoldSound, SyncOnly,
     Profiling, Relating, OfSender, Forgetting, Storing
<1> QED  BY <1>1, <1>4, <1>5 DEF Shape

LEMMA ThreadShape ==
  ASSUME NEW r \in Shape, r.kind = "sync", NEW pc \in {"count", "saved"}, NEW n \in Nat \union {None}
  PROVE  [r EXCEPT !.pc = pc, !.thread = n] \in Shape
<1>1. PICK new : new = [r EXCEPT !.pc = pc, !.thread = n]
  OBVIOUS
<1>2. r \in BoxCall /\ HoldSound(r)
  BY DEF Shape
<1>3. new.pc = pc /\ new.kind = "sync" /\ new.msg = r.msg /\ new.sender = r.sender
  BY <1>1, <1>2 DEF BoxCall
<1>4. new \in BoxCall
  BY <1>1, <1>2 DEF BoxCall, BoxPcs, SyncOnly
<1>5. KindSound(new) /\ HoldSound(new)
  BY <1>2, <1>3 DEF KindSound, HoldSound, SyncOnly,
     Profiling, Relating, OfSender, Forgetting, Storing
<1> QED  BY <1>1, <1>4, <1>5 DEF Shape

LEMMA ActShape ==
  ASSUME NEW r \in Shape, r.kind = "sync", NEW f \in Flags, NEW action \in Actions
  PROVE  [r EXCEPT !.pc = "act", !.flags = f, !.action = action] \in Shape
<1>1. PICK new : new = [r EXCEPT !.pc = "act", !.flags = f, !.action = action]
  OBVIOUS
<1>2. r \in BoxCall /\ HoldSound(r)
  BY DEF Shape
<1>3. /\ new.pc = "act" /\ new.kind = "sync" /\ new.msg = r.msg /\ new.sender = r.sender
      /\ new.flags = f
  BY <1>1, <1>2 DEF BoxCall
<1>4. new \in BoxCall
  BY <1>1, <1>2, KindsOfCallsAssumption DEF BoxCall, BoxPcs, SyncOnly
<1>5. f # None
  BY MailboxRowAssumption
<1>6. KindSound(new) /\ HoldSound(new)
  BY <1>2, <1>3, <1>5 DEF KindSound, HoldSound, SyncOnly,
     Profiling, Relating, OfSender, Forgetting, Storing
<1> QED  BY <1>1, <1>4, <1>6 DEF Shape

LEMMA ProfileShape ==
  ASSUME NEW r \in Shape, r.pc \in Profiling, r.kind # "look", NEW row \in ProfileRow
  PROVE  [r EXCEPT !.pc = AfterProfile[r.kind], !.profile = row] \in Shape
<1>1. PICK new : new = [r EXCEPT !.pc = AfterProfile[r.kind], !.profile = row]
  OBVIOUS
<1>2. r \in BoxCall /\ HoldSound(r) /\ r.kind \in {"sync", "relate", "associate"}
  BY DEF Shape, KindSound
<1>3. /\ r.kind = "sync" => AfterProfile[r.kind] = "seen"
      /\ r.kind = "relate" => AfterProfile[r.kind] = "relation"
      /\ r.kind = "associate" => AfterProfile[r.kind] = "project"
  BY <1>2 DEF AfterProfile
<1>4. /\ new.pc = AfterProfile[r.kind] /\ new.kind = r.kind /\ new.msg = r.msg
      /\ new.sender = r.sender /\ new.profile = row /\ new.type = r.type
      /\ new.project = r.project
  BY <1>1, <1>2 DEF BoxCall
<1>5. new \in BoxCall
  BY <1>1, <1>2, <1>3 DEF BoxCall, BoxPcs, SyncOnly, OfSender, Relating
<1>6. row # None
  BY MailboxRowAssumption
<1>7. KindSound(new)
  BY <1>2, <1>3, <1>4 DEF KindSound, SyncOnly, Profiling, Relating, Forgetting, Storing
<1>8. HoldSound(new)
  BY <1>2, <1>3, <1>4, <1>6 DEF HoldSound, SyncOnly, Profiling, Relating, OfSender, Forgetting,
     Storing
<1> QED  BY <1>1, <1>5, <1>7, <1>8 DEF Shape

LEMMA RelationShape ==
  ASSUME NEW r \in Shape, r.pc = "relation", NEW row \in RelationRow \union {None}
  PROVE  [r EXCEPT !.pc = "relate", !.relation = row] \in Shape
<1>1. PICK new : new = [r EXCEPT !.pc = "relate", !.relation = row]
  OBVIOUS
<1>2. r \in BoxCall /\ HoldSound(r) /\ KindSound(r)
  BY DEF Shape
<1>3. /\ new.pc = "relate" /\ new.kind = r.kind /\ new.msg = r.msg
      /\ new.sender = r.sender /\ new.profile = r.profile /\ new.type = r.type
      /\ new.project = r.project
  BY <1>1, <1>2 DEF BoxCall
<1>4. new \in BoxCall
  BY <1>1, <1>2 DEF BoxCall, BoxPcs, OfSender, Relating
<1>5. KindSound(new)
  BY <1>2, <1>3 DEF KindSound, SyncOnly, Profiling, Relating, Forgetting, Storing
<1>6. HoldSound(new)
  BY <1>2, <1>3 DEF HoldSound, SyncOnly, Profiling, Relating, OfSender, Forgetting, Storing
<1> QED  BY <1>1, <1>4, <1>5, <1>6 DEF Shape

LEMMA IngestShapes ==
  ASSUME BoxInv, NEW c \in Calls, Ingesting(c)
  PROVE  calls' \in [Calls -> Shape]
<1>1. calls \in [Calls -> Shape] /\ calls[c] \in Shape /\ calls[c] \in BoxCall
      /\ KindSound(calls[c]) /\ HoldSound(calls[c])
  BY ShapeOf DEF BoxInv
<1>2. calls[c].pc \in SyncOnly /\ calls[c].kind = "sync"
  BY <1>1 DEF Ingesting, NextMessage, FindEmail, InsertEmail, CountSender, ReadThread, CountThread,
     Saved, Act, At, KindSound, SyncOnly, Storing
<1>3. ASSUME calls[c].pc # "next"
      PROVE  calls[c].msg \in Uids /\ calls[c].msg # None /\ ThreadOf(calls[c].msg) \in Threads
  BY <1>2, <1>3, SyncHolds, SenderAssumption, MailboxNoneAssumption DEF Uids
<1>4. CASE NextMessage(c)
  <2>1. CASE calls[c].left = {}
    BY <1>1, <1>4, <2>1, IdleCallShape, SetCall DEF NextMessage, End
  <2>2. CASE calls[c].left # {}
    <3>1. PICK m \in calls[c].left :
            Go(c, [calls[c] EXCEPT !.pc = "exists", !.msg = m, !.left = @ \ {m},
                                   !.sender = SenderOf(m)])
      <4>1. calls[c].left \in SUBSET Uids
        BY <1>1 DEF BoxCall
      <4>2. (CHOOSE n \in calls[c].left : \A o \in calls[c].left : n >= o) \in calls[c].left
        BY <4>1, <2>2, NextExists
      <4> QED  BY <1>4, <2>2, <4>2 DEF NextMessage
    <3>2. m \in Uids /\ calls[c].pc = "next"
      BY <1>1, <1>4 DEF BoxCall, NextMessage, At
    <3>3. [calls[c] EXCEPT !.pc = "exists", !.msg = m, !.left = @ \ {m}, !.sender = SenderOf(m)]
            \in Shape
      BY <1>1, <1>2, <3>2, NextShape
    <3> QED  BY <1>1, <3>1, <3>3, SetCall DEF Go
  <2> QED  BY <2>1, <2>2
<1>5. CASE FindEmail(c)
  <2>1. PICK pc \in {"next", "insert"} : Goto(c, pc)
    BY <1>5 DEF FindEmail, After
  <2>2. calls[c].msg # None
    BY <1>3, <1>5 DEF FindEmail, At
  <2>3. [calls[c] EXCEPT !.pc = pc] \in Shape
    BY <1>1, <1>2, <2>2, GotoShape
  <2> QED  BY <1>1, <2>1, <2>3, GoesTo, SetCall
<1>6. CASE InsertEmail(c)
  <2>1. CASE Go(c, Threw(calls[c]))
    BY <1>1, <2>1, ThrewShape, SetCall DEF Go
  <2>2. CASE Goto(c, "profile")
    <3>1. calls[c].msg # None
      BY <1>3, <1>6 DEF InsertEmail, At
    <3>2. [calls[c] EXCEPT !.pc = "profile"] \in Shape
      BY <1>1, <1>2, <3>1, GotoShape
    <3> QED  BY <1>1, <2>2, <3>2, GoesTo, SetCall
  <2> QED  BY <1>6, <2>1, <2>2 DEF InsertEmail
<1>7. CASE CountSender(c)
  <2>1. Go(c, [calls[c] EXCEPT !.pc = "thread", !.profile = None])
    BY <1>7 DEF CountSender
  <2> QED  BY <1>1, <1>2, <2>1, SeenShape, SetCall DEF Go
<1>8. CASE ReadThread(c)
  <2>1. PICK n : n = threads[ThreadOf(calls[c].msg)]
    OBVIOUS
  <2>2. n \in Nat \union {None}
    <3>1. calls[c].pc # "next"
      BY <1>8 DEF ReadThread, At
    <3> QED  BY <1>3, <2>1, <3>1 DEF BoxInv, BoxTables, MailboxTypeOK
  <2>3. Go(c, [calls[c] EXCEPT !.pc = "count", !.thread = n])
    BY <1>8, <2>1 DEF ReadThread
  <2> QED  BY <1>1, <1>2, <2>2, <2>3, ThreadShape, SetCall DEF Go
<1>9. CASE CountThread(c)
  <2>1. CASE Go(c, Threw(calls[c]))
    BY <1>1, <2>1, ThrewShape, SetCall DEF Go
  <2>2. CASE Go(c, [calls[c] EXCEPT !.pc = "saved", !.thread = None])
    BY <1>1, <1>2, <2>2, ThreadShape, SetCall DEF Go
  <2> QED  BY <1>9, <2>1, <2>2 DEF CountThread
<1>10. CASE Saved(c)
  <2>1. PICK f : f = emails[calls[c].msg].flags
    OBVIOUS
  <2>2. f \in Flags
    <3>1. calls[c].pc = "saved"
      BY <1>10 DEF Saved, At
    <3>2. Ingested(calls[c].msg)
      BY <3>1 DEF BoxInv, StoreSound, OfStored
    <3> QED  BY <1>3, <2>1, <3>1, <3>2 DEF BoxInv, BoxTables, MailboxTypeOK, Ingested, EmailRow
  <2>3. PICK action \in Actions :
          Go(c, [calls[c] EXCEPT !.pc = "act", !.flags = f, !.action = action])
    BY <1>10, <2>1 DEF Saved
  <2> QED  BY <1>1, <1>2, <2>2, <2>3, ActShape, SetCall DEF Go
<1>11. CASE Act(c)
  BY <1>1, <1>11, ThrewShape, SetCall DEF Act, Go
<1> QED  BY <1>4, <1>5, <1>6, <1>7, <1>8, <1>9, <1>10, <1>11 DEF Ingesting

LEMMA ProfileShapes ==
  ASSUME BoxInv, NEW c \in Calls, Profiles(c)
  PROVE  calls' \in [Calls -> Shape]
<1>1. calls \in [Calls -> Shape] /\ calls[c] \in Shape /\ calls[c] \in BoxCall
      /\ KindSound(calls[c]) /\ HoldSound(calls[c])
  BY ShapeOf DEF BoxInv
<1>2. calls[c].pc \in Profiling /\ calls[c].sender \in Senders
  BY <1>1 DEF Profiles, ReadProfile, InsertProfile, At, HoldSound, OfSender, Profiling, BoxCall
<1>3. ASSUME NEW row \in ProfileRow,
             Go(c, IF calls[c].kind = "look" THEN IdleCall
                   ELSE [calls[c] EXCEPT !.pc = AfterProfile[calls[c].kind], !.profile = row])
      PROVE  calls' \in [Calls -> Shape]
  <2>1. CASE calls[c].kind = "look"
    BY <1>1, <1>3, <2>1, IdleCallShape, SetCall DEF Go
  <2>2. CASE calls[c].kind # "look"
    <3>1. [calls[c] EXCEPT !.pc = AfterProfile[calls[c].kind], !.profile = row] \in Shape
      BY <1>1, <1>2, <2>2, ProfileShape
    <3> QED  BY <1>1, <1>3, <2>2, <3>1, SetCall DEF Go
  <2> QED  BY <2>1, <2>2
<1>4. CASE ReadProfile(c)
  <2>1. CASE senders[calls[c].sender] = None
    <3>1. Goto(c, "newProfile") /\ calls[c].pc = "profile"
      BY <1>4, <2>1 DEF ReadProfile, At
    <3>2. [calls[c] EXCEPT !.pc = "newProfile"] \in Shape
      BY <1>1, <3>1, GotoShape
    <3> QED  BY <1>1, <3>1, <3>2, GoesTo, SetCall
  <2>2. CASE senders[calls[c].sender] # None
    <3>1. PICK row : row = senders[calls[c].sender]
      OBVIOUS
    <3>2. row \in ProfileRow
      BY <1>2, <2>2, <3>1 DEF BoxInv, BoxTables, MailboxTypeOK
    <3> QED  BY <1>3, <1>4, <2>2, <3>1, <3>2 DEF ReadProfile
  <2> QED  BY <2>1, <2>2
<1>5. CASE InsertProfile(c)
  <2>1. CASE senders[calls[c].sender] # None
    BY <1>1, <1>5, <2>1, ThrewShape, SetCall DEF InsertProfile, Go
  <2>2. CASE senders[calls[c].sender] = None
    <3>1. PICK row : row = [id |-> rows[calls[c].sender] + 1, seen |-> 1]
      OBVIOUS
    <3>2. row \in ProfileRow
      BY <1>2, <1>5, <3>1, MailboxAssumption DEF InsertProfile, ProfileRow, BoxInv, BoxTables,
         MailboxTypeOK
    <3> QED  BY <1>3, <1>5, <2>2, <3>1, <3>2 DEF InsertProfile
  <2> QED  BY <2>1, <2>2
<1> QED  BY <1>4, <1>5 DEF Profiles

LEMMA SpeakingShapes ==
  ASSUME BoxInv, NEW c \in Calls, Speaking(c)
  PROVE  calls' \in [Calls -> Shape]
<1>1. calls \in [Calls -> Shape] /\ calls[c] \in Shape /\ calls[c] \in BoxCall
      /\ KindSound(calls[c]) /\ HoldSound(calls[c])
  BY ShapeOf DEF BoxInv
<1>2. CASE Flag(c) \/ WriteRelation(c) \/ ForgetSenders(c)
  BY <1>1, <1>2, IdleCallShape, SetCall DEF Flag, WriteRelation, ForgetSenders, End
<1>3. CASE ReadProject(c) \/ InsertProject(c) \/ ForgetRelations(c)
  <2>1. PICK pc : Goto(c, pc) /\ [calls[c] EXCEPT !.pc = pc] \in Shape
    <3>1. CASE ReadProject(c)
      <4>1. PICK pc \in {"relation", "newProject"} : Goto(c, pc)
        BY <3>1 DEF ReadProject
      <4>2. calls[c].pc = "project"
        BY <3>1 DEF ReadProject, At
      <4> QED  BY <1>1, <4>1, <4>2, GotoShape
    <3>2. CASE InsertProject(c)
      BY <1>1, <3>2, GotoShape DEF InsertProject, At
    <3>3. CASE ForgetRelations(c)
      BY <1>1, <3>3, GotoShape DEF ForgetRelations, At
    <3> QED  BY <1>3, <3>1, <3>2, <3>3
  <2> QED  BY <1>1, <2>1, GoesTo, SetCall
<1>4. CASE ReadRelation(c)
  <2>1. PICK row : row = relations[calls[c].sender]
    OBVIOUS
  <2>2. calls[c].pc = "relation" /\ calls[c].sender \in Senders
    BY <1>1, <1>4 DEF ReadRelation, At, HoldSound, OfSender, Relating, BoxCall
  <2>3. row \in RelationRow \union {None}
    BY <2>1, <2>2 DEF BoxInv, BoxTables, MailboxTypeOK
  <2> QED  BY <1>1, <1>4, <2>1, <2>2, <2>3, RelationShape, SetCall DEF ReadRelation, Go
<1> QED  BY <1>2, <1>3, <1>4 DEF Speaking

LEMMA StopShapes ==
  ASSUME BoxInv, NEW c \in Calls, Stops(c)
  PROVE  calls' \in [Calls -> Shape]
<1>1. calls \in [Calls -> Shape] /\ calls[c] \in Shape
  BY DEF BoxInv
<1>2. CASE Crash(c)
  BY <1>1, <1>2, IdleCallShape, SetCall DEF Crash, End
<1>3. CASE Fail(c)
  <2>1. PICK new, left : new = [Threw(calls[c]) EXCEPT !.shown = left]
                         /\ left = Threw(calls[c]).shown \ {calls[c].msg}
    OBVIOUS
  <2>2. Threw(calls[c]) \in Shape
    BY <1>1, ThrewShape
  <2>3. new \in BoxCall /\ KindSound(new) /\ HoldSound(new)
    <3>1. PICK r : r = Threw(calls[c])
      OBVIOUS
    <3>2. r \in BoxCall /\ KindSound(r) /\ HoldSound(r)
      BY <2>2, <3>1 DEF Shape
    <3>3. left \in SUBSET Uids
      BY <2>1, <3>1, <3>2 DEF BoxCall
    <3>4. new = [r EXCEPT !.shown = left]
      BY <2>1, <3>1
    <3>5. new \in BoxCall
      BY <3>2, <3>3, <3>4 DEF BoxCall
    <3>6. /\ new.pc = r.pc /\ new.kind = r.kind /\ new.sender = r.sender /\ new.type = r.type
          /\ new.profile = r.profile /\ new.project = r.project /\ new.msg = r.msg
          /\ new.flags = r.flags
      BY <3>2, <3>4 DEF BoxCall
    <3> QED  BY <3>2, <3>5, <3>6 DEF KindSound, HoldSound
  <2>4. calls' = [calls EXCEPT ![c] = new]
    BY <1>3, <2>1 DEF Fail, Go
  <2> QED  BY <1>1, <2>3, <2>4, SetCall DEF Shape
<1> QED  BY <1>2, <1>3 DEF Stops

-----------------------------------------------------------------------------
(* The tables keep their types. *)
LEMMA ActedType ==
  ASSUME NEW f \in Flags, NEW action
  PROVE  Acted(f, action) \in Flags
BY DEF Acted, Flags

LEMMA JoinedType ==
  ASSUME NEW row \in RelationRow, NEW read \in RelationRow, NEW call \in Shape, call.pc = "relate"
  PROVE  Joined(row, read, call) \in RelationRow /\ Joined(row, read, call) # None
<1>1. call.kind = "relate" => call.type \in Types
  BY DEF Shape, HoldSound, BoxCall
<1>2. call.kind # "relate" => call.project \in Projects
  BY DEF Shape, HoldSound, KindSound, BoxCall, Relating
<1>3. Joined(row, read, call) \in RelationRow
  <2>1. CASE call.kind = "relate"
    <3>1. PICK new : new = [row EXCEPT !.type = call.type]
      OBVIOUS
    <3>2. new \in RelationRow
      BY <1>1, <2>1, <3>1 DEF RelationRow
    <3> QED  BY <2>1, <3>1, <3>2 DEF Joined
  <2>2. CASE call.kind # "relate"
    <3>1. PICK new : new = [row EXCEPT !.projects = read.projects \union {call.project}]
      OBVIOUS
    <3>2. read.projects \union {call.project} \subseteq Projects
      BY <1>2, <2>2 DEF RelationRow
    <3>3. new \in RelationRow
      BY <3>1, <3>2 DEF RelationRow
    <3> QED  BY <2>2, <3>1, <3>3 DEF Joined, Associated
  <2> QED  BY <2>1, <2>2
<1> QED  BY <1>3, MailboxRowAssumption

LEMMA HeardType ==
  ASSUME told \in Told, NEW call \in Shape, call.pc = "relate"
  PROVE  Heard(call) \in Told /\ Heard(call).flags = told.flags
<1>1. call.sender \in Senders
  BY DEF Shape, HoldSound, BoxCall, OfSender, Relating
<1>2. call.kind = "relate" => call.type \in Types
  BY DEF Shape, HoldSound, BoxCall
<1>3. call.kind # "relate" => call.project \in Projects
  BY DEF Shape, HoldSound, KindSound, BoxCall, Relating
<1>4. CASE call.kind = "relate"
  <2>1. [told.types EXCEPT ![call.sender] = call.type] \in [Senders -> Types \union {None}]
    BY <1>1, <1>2, <1>4 DEF Told
  <2>2. PICK new : new = [told EXCEPT !.types = [told.types EXCEPT ![call.sender] = call.type]]
    OBVIOUS
  <2>3. new \in Told /\ new.flags = told.flags
    BY <2>1, <2>2 DEF Told
  <2>4. Heard(call) = new
    BY <1>4, <2>2 DEF Heard
  <2> QED  BY <2>3, <2>4
<1>5. CASE call.kind # "relate"
  <2>1. [told.projects EXCEPT ![call.sender] = @ \union {call.project}] \in [Senders -> SUBSET Projects]
    BY <1>1, <1>3, <1>5 DEF Told
  <2>2. PICK new : new = [told EXCEPT !.projects = [told.projects EXCEPT ![call.sender]
                                                      = @ \union {call.project}]]
    OBVIOUS
  <2>3. new \in Told /\ new.flags = told.flags
    BY <2>1, <2>2 DEF Told
  <2>4. Heard(call) = new
    BY <1>5, <2>2 DEF Heard
  <2> QED  BY <2>3, <2>4
<1> QED  BY <1>4, <1>5

LEMMA SaidNothingType ==
  ASSUME told \in Told
  PROVE  /\ SaidNothing \in Told
         /\ [SaidNothing EXCEPT !.flags = told.flags] \in Told
         /\ [SaidNothing EXCEPT !.flags = told.flags].flags = told.flags
<1>1. told.flags \in [Uids -> Flags \union {None}]
  BY DEF Told
<1>2. PICK new : new = [SaidNothing EXCEPT !.flags = told.flags]
  OBVIOUS
<1>3. SaidNothing \in Told
  BY DEF SaidNothing, Told
<1>4. new \in Told /\ new.flags = told.flags
  BY <1>1, <1>2, <1>3 DEF Told
<1> QED  BY <1>2, <1>3, <1>4

LEMMA IngestTables ==
  ASSUME BoxInv, NEW c \in Calls, Ingesting(c)
  PROVE  BoxTables'
<1>1. calls[c] \in Shape /\ calls[c] \in BoxCall /\ KindSound(calls[c]) /\ HoldSound(calls[c])
      /\ StoreSound(calls[c])
  BY ShapeOf DEF BoxInv
<1>2. calls[c].pc \in SyncOnly /\ calls[c].kind = "sync"
  BY <1>1 DEF Ingesting, NextMessage, FindEmail, InsertEmail, CountSender, ReadThread, CountThread,
     Saved, Act, At, KindSound, SyncOnly, Storing
<1>3. ASSUME calls[c].pc # "next"
      PROVE  /\ calls[c].msg \in Uids /\ ThreadOf(calls[c].msg) \in Threads
             /\ calls[c].sender \in Senders
  BY <1>2, <1>3, SyncHolds, SenderAssumption DEF BoxInv
<1>4. BoxTables
  BY DEF BoxInv
<1>5. CASE NextMessage(c)
  <2>1. promised' \subseteq Uids
    BY <1>1, <1>4, <1>5 DEF NextMessage, BoxTables, BoxCall
  <2> QED  BY <1>4, <1>5, <2>1 DEF NextMessage, BoxTables, MailboxTypeOK, memory
<1>6. CASE FindEmail(c) \/ ReadThread(c) \/ Saved(c)
  BY <1>4, <1>6 DEF FindEmail, ReadThread, Saved, OnlyReads, BoxTables, MailboxTypeOK, memory, history
<1>7. CASE InsertEmail(c)
  <2>1. emails' \in [Uids -> EmailRow \union {None}]
    <3>1. [flags |-> NewFlags, body |-> TRUE] \in EmailRow
      BY DEF NewFlags, EmailRow, Flags
    <3> QED  BY <1>3, <1>4, <1>7, <3>1 DEF InsertEmail, At, BoxTables, MailboxTypeOK
  <2> QED  BY <1>4, <1>7, <2>1 DEF InsertEmail, World, BoxTables, MailboxTypeOK, memory
<1>8. CASE CountSender(c)
  <2>1. calls[c].msg \in Uids /\ calls[c].sender \in Senders /\ calls[c].profile \in ProfileRow
    BY <1>1, <1>3, <1>8 DEF CountSender, At, HoldSound, OfSender, Profiling, BoxCall
  <2>2. PICK s, n : s = calls[c].sender /\ n = calls[c].profile.seen + 1
    OBVIOUS
  <2>3. n \in Nat /\ s \in Senders
    BY <2>1, <2>2 DEF ProfileRow
  <2>4. HasProfile(calls[c]) => [senders[s] EXCEPT !.seen = n] \in ProfileRow
    BY <1>4, <2>2, <2>3 DEF HasProfile, BoxTables, MailboxTypeOK, ProfileRow
  <2>5. senders' = IF HasProfile(calls[c])
                   THEN [senders EXCEPT ![s] = [senders[s] EXCEPT !.seen = n]] ELSE senders
    BY <1>8, <2>2 DEF CountSender, Seen
  <2>6. /\ senders' \in [Senders -> ProfileRow \union {None}]
        /\ \A t \in Senders : senders[t] # None => senders'[t] # None
    BY <1>4, <2>3, <2>4, <2>5, MailboxRowAssumption DEF BoxTables, MailboxTypeOK
  <2>7. since' \subseteq Uids
    BY <1>4, <1>8, <2>1 DEF CountSender, BoxTables
  <2> QED  BY <1>4, <1>8, <2>6, <2>7 DEF CountSender, World, BoxTables, MailboxTypeOK
<1>9. CASE CountThread(c)
  <2>1. Counted(calls[c].thread) \in Nat
    BY <1>1 DEF Counted, BoxCall
  <2>2. threads' \in [Threads -> Nat \union {None}]
    BY <1>3, <1>4, <1>9, <2>1 DEF CountThread, At, BoxTables, MailboxTypeOK
  <2> QED  BY <1>4, <1>9, <2>2 DEF CountThread, World, BoxTables, MailboxTypeOK
<1>10. CASE Act(c)
  <2>1. PICK m, f : m = calls[c].msg /\ f = Acted(calls[c].flags, calls[c].action)
    OBVIOUS
  <2>2. m \in Uids /\ emails[m] \in EmailRow /\ f \in Flags
    <3>1. calls[c].flags \in Flags
      BY <1>1, <1>10 DEF Act, At, HoldSound, BoxCall
    <3>2. emails[m] # None
      BY <1>1, <1>10, <2>1 DEF Act, At, StoreSound, OfStored, Ingested
    <3> QED  BY <1>3, <1>4, <1>10, <2>1, <3>1, <3>2, ActedType DEF Act, At, BoxTables, MailboxTypeOK
  <2>3. emails' = [emails EXCEPT ![m] = [emails[m] EXCEPT !.flags = f]]
    BY <1>10, <2>1 DEF Act
  <2>4. [emails[m] EXCEPT !.flags = f] \in EmailRow
    BY <2>2 DEF EmailRow
  <2>5. emails' \in [Uids -> EmailRow \union {None}]
    BY <1>4, <2>3, <2>4 DEF BoxTables, MailboxTypeOK
  <2> QED  BY <1>4, <1>10, <2>5 DEF Act, World, BoxTables, MailboxTypeOK, memory
<1> QED  BY <1>5, <1>6, <1>7, <1>8, <1>9, <1>10 DEF Ingesting

LEMMA ProfileTables ==
  ASSUME BoxInv, NEW c \in Calls, Profiles(c)
  PROVE  BoxTables'
<1>1. BoxTables /\ calls[c].sender \in Senders
  <2>1. calls[c] \in BoxCall /\ HoldSound(calls[c])
    BY ShapeOf DEF BoxInv
  <2> QED  BY <2>1 DEF BoxInv, Profiles, ReadProfile, InsertProfile, At, HoldSound, OfSender,
             Profiling, BoxCall
<1>2. CASE ReadProfile(c)
  BY <1>1, <1>2 DEF ReadProfile, OnlyReads, BoxTables, MailboxTypeOK, memory, history
<1>3. CASE InsertProfile(c)
  <2>1. CASE senders[calls[c].sender] # None
    BY <1>1, <1>3, <2>1 DEF InsertProfile, World, BoxTables, MailboxTypeOK
  <2>2. CASE senders[calls[c].sender] = None
    <3>1. PICK s, row : s = calls[c].sender /\ row = [id |-> rows[s] + 1, seen |-> 1]
      OBVIOUS
    <3>2. rows[s] \in Nat /\ rows[s] < MaxRows /\ s \in Senders
      BY <1>1, <1>3, <3>1 DEF InsertProfile, BoxTables, MailboxTypeOK
    <3>3. row \in ProfileRow /\ rows[s] + 1 \in 0..MaxRows
      BY <3>1, <3>2, MailboxAssumption DEF ProfileRow
    <3>4. senders' = [senders EXCEPT ![s] = row] /\ rows' = [rows EXCEPT ![s] = @ + 1]
      BY <1>3, <2>2, <3>1 DEF InsertProfile
    <3>5. /\ senders' \in [Senders -> ProfileRow \union {None}]
          /\ \A t \in Senders : senders[t] # None => senders'[t] # None
      BY <1>1, <3>2, <3>3, <3>4, MailboxRowAssumption DEF BoxTables, MailboxTypeOK
    <3>6. rows' \in [Senders -> 0..MaxRows]
      BY <1>1, <3>2, <3>3, <3>4 DEF BoxTables, MailboxTypeOK
    <3> QED  BY <1>1, <1>3, <3>5, <3>6 DEF InsertProfile, World, BoxTables, MailboxTypeOK
  <2> QED  BY <2>1, <2>2
<1> QED  BY <1>2, <1>3 DEF Profiles

LEMMA RelationTables ==
  ASSUME BoxInv, NEW c \in Calls, WriteRelation(c)
  PROVE  BoxTables'
<1>1. calls[c] \in Shape /\ calls[c] \in BoxCall /\ HoldSound(calls[c]) /\ calls[c].pc = "relate"
  BY ShapeOf DEF BoxInv, WriteRelation, At
<1>2. BoxTables /\ calls[c].sender \in Senders
  BY <1>1 DEF BoxInv, HoldSound, OfSender, Relating, BoxCall
<1>3. Heard(calls[c]) \in Told
  BY <1>1, <1>2, HeardType DEF BoxTables
<1>4. PICK s, old : s = calls[c].sender /\ old = relations[s]
  OBVIOUS
<1>5. s \in Senders /\ old \in RelationRow \union {None}
  BY <1>2, <1>4 DEF BoxTables, MailboxTypeOK
<1>6. told' \in Told
  BY <1>2, <1>3, <1>5 DEF WriteRelation, BoxTables
<1>7. /\ relations' \in [Senders -> RelationRow \union {None}]
      /\ rows' \in [Senders -> 0..MaxRows]
      /\ \A t \in Senders : relations'[t] # None => senders[t] # None
  <2>1. CASE calls[c].relation # None
    <3>1. calls[c].relation \in RelationRow
      BY <1>1, <2>1 DEF BoxCall
    <3>2. old # None => Joined(old, calls[c].relation, calls[c]) \in RelationRow
      BY <1>1, <1>5, <3>1, JoinedType
    <3>3. /\ relations' = IF old # None /\ old.id = calls[c].relation.id
                          THEN [relations EXCEPT ![s] = Joined(old, calls[c].relation, calls[c])]
                          ELSE relations
          /\ rows' = rows
      BY <1>4, <2>1 DEF WriteRelation
    <3> QED  BY <1>2, <1>4, <1>5, <3>2, <3>3 DEF BoxTables, MailboxTypeOK
  <2>2. CASE calls[c].relation = None /\ old = None /\ HasProfile(calls[c])
    <3>1. PICK new : new = [id |-> rows[s] + 1, type |-> "unknown", projects |-> {}]
      OBVIOUS
    <3>2. /\ rows[s] < MaxRows
          /\ relations' = [relations EXCEPT ![s] = Joined(new, new, calls[c])]
          /\ rows' = [rows EXCEPT ![s] = @ + 1]
      BY <1>4, <2>2, <3>1 DEF WriteRelation
    <3>3. new \in RelationRow /\ rows[s] + 1 \in 0..MaxRows
      BY <1>2, <1>5, <3>1, <3>2, MailboxAssumption DEF BoxTables, MailboxTypeOK, RelationRow
    <3>4. Joined(new, new, calls[c]) \in RelationRow
      BY <1>1, <3>3, JoinedType
    <3>5. senders[s] # None
      BY <1>4, <2>2 DEF HasProfile
    <3> QED  BY <1>2, <1>5, <3>2, <3>3, <3>4, <3>5 DEF BoxTables, MailboxTypeOK
  <2>3. CASE ~(calls[c].relation # None) /\ ~(calls[c].relation = None /\ old = None /\ HasProfile(calls[c]))
    BY <1>2, <1>4, <2>3 DEF WriteRelation, BoxTables, MailboxTypeOK
  <2> QED  BY <2>1, <2>2, <2>3
<1> QED  BY <1>2, <1>6, <1>7 DEF WriteRelation, World, BoxTables, MailboxTypeOK

LEMMA SpeakingTables ==
  ASSUME BoxInv, NEW c \in Calls, Speaking(c)
  PROVE  BoxTables'
<1>1. calls[c] \in BoxCall /\ KindSound(calls[c]) /\ HoldSound(calls[c]) /\ StoreSound(calls[c])
      /\ BoxTables
  BY ShapeOf DEF BoxInv
<1>2. CASE Flag(c)
  <2>1. PICK m, f, said :
          /\ m = calls[c].msg /\ f = Acted(calls[c].flags, calls[c].action)
          /\ said = Acted(IF told.flags[m] = None THEN calls[c].flags ELSE told.flags[m],
                          calls[c].action)
    OBVIOUS
  <2>2. m \in Uids /\ emails[m] \in EmailRow /\ calls[c].flags \in Flags
    BY <1>1, <1>2, <2>1 DEF Flag, At, StoreSound, OfStored, Ingested, HoldSound, BoxCall, BoxTables,
       MailboxTypeOK
  <2>3. f \in Flags /\ said \in Flags
    BY <1>1, <2>1, <2>2, ActedType DEF BoxTables, Told
  <2>4. /\ emails' = [emails EXCEPT ![m] = [emails[m] EXCEPT !.flags = f]]
        /\ told' = [told EXCEPT !.flags = [told.flags EXCEPT ![m] = said]]
    BY <1>2, <2>1 DEF Flag
  <2>5. [emails[m] EXCEPT !.flags = f] \in EmailRow
    BY <2>2, <2>3 DEF EmailRow
  <2>6. emails' \in [Uids -> EmailRow \union {None}]
    BY <1>1, <2>4, <2>5 DEF BoxTables, MailboxTypeOK
  <2>7. [told.flags EXCEPT ![m] = said] \in [Uids -> Flags \union {None}]
    BY <1>1, <2>3 DEF BoxTables, Told
  <2>8. told' \in Told
    BY <1>1, <2>4, <2>7 DEF BoxTables, Told
  <2> QED  BY <1>1, <1>2, <2>6, <2>8 DEF Flag, World, BoxTables, MailboxTypeOK, memory
<1>3. CASE ReadProject(c) \/ ReadRelation(c)
  BY <1>1, <1>3 DEF ReadProject, ReadRelation, OnlyReads, BoxTables, MailboxTypeOK, memory, history
<1>4. CASE InsertProject(c)
  <2>1. calls[c].project \in Projects
    BY <1>1, <1>4 DEF InsertProject, At, KindSound, HoldSound, BoxCall
  <2>2. projects' \in [Projects -> Nat]
    BY <1>1, <1>4, <2>1 DEF InsertProject, BoxTables, MailboxTypeOK
  <2> QED  BY <1>1, <1>4, <2>2 DEF InsertProject, World, BoxTables, MailboxTypeOK
<1>5. CASE WriteRelation(c)
  BY <1>5, RelationTables
<1>6. CASE ForgetRelations(c)
  BY <1>1, <1>6, SaidNothingType DEF ForgetRelations, World, BoxTables, MailboxTypeOK
<1>7. CASE ForgetSenders(c)
  BY <1>1, <1>7 DEF ForgetSenders, World, BoxTables, MailboxTypeOK
<1> QED  BY <1>2, <1>3, <1>4, <1>5, <1>6, <1>7 DEF Speaking

LEMMA BeginTables ==
  ASSUME BoxInv, NEW c \in Calls, Begins(c)
  PROVE  BoxTables' /\ emails' = emails /\ promised' = promised
<1>1. /\ UNCHANGED <<inbox, arrived, emails, memory, history>>
      /\ Speak \/ UNCHANGED spoken
      /\ CountRace
  BY DEF Begins, Sync, BeginMutate, BeginLook, BeginRelate, BeginAssociate, BeginForget, Begin
<1>2. raced' \in 0..MaxRaces
  BY <1>1, MailboxAssumption DEF CountRace, BoxInv, BoxTables, MailboxTypeOK
<1>3. spoken' \in 0..MaxTold
  BY <1>1, MailboxAssumption DEF Speak, BoxInv, BoxTables, MailboxTypeOK
<1> QED  BY <1>1, <1>2, <1>3 DEF BoxInv, BoxTables, MailboxTypeOK, memory, history

LEMMA StopTables ==
  ASSUME BoxInv, NEW c \in Calls, Stops(c)
  PROVE  BoxTables' /\ emails' = emails /\ promised' = promised /\ raced' # 0
<1>1. /\ UNCHANGED <<inbox, arrived, emails, memory, spoken, history>>
      /\ raced < MaxRaces /\ raced' = raced + 1
  BY DEF Stops, Fail, Crash
<1>2. raced' \in 0..MaxRaces /\ raced' # 0
  BY <1>1, MailboxAssumption DEF BoxInv, BoxTables, MailboxTypeOK
<1> QED  BY <1>1, <1>2 DEF BoxInv, BoxTables, MailboxTypeOK, memory, history

LEMMA PurgedType ==
  ASSUME BoxInv, PurgeBodies
  PROVE  /\ emails' \in [Uids -> EmailRow \union {None}]
         /\ \A m \in Uids : emails'[m] = None <=> emails[m] = None
         /\ \A m \in Uids : emails[m] # None => emails'[m].flags = emails[m].flags
<1>1. ASSUME NEW m \in Uids, emails[m] # None
      PROVE  /\ [emails[m] EXCEPT !.body = FALSE] \in EmailRow
             /\ [emails[m] EXCEPT !.body = FALSE].flags = emails[m].flags
  BY <1>1 DEF BoxInv, BoxTables, MailboxTypeOK, EmailRow
<1>2. emails' = [m \in Uids |-> IF emails[m] = None THEN None ELSE [emails[m] EXCEPT !.body = FALSE]]
  BY DEF PurgeBodies
<1> QED  BY <1>1, <1>2, MailboxRowAssumption

LEMMA TablesKept ==
  ASSUME BoxInv, [MailboxNext]_boxVars
  PROVE  BoxTables' /\ calls' \in [Calls -> Shape]
<1>1. BoxTables /\ calls \in [Calls -> Shape]
  BY DEF BoxInv
<1>2. ASSUME NEW c \in Calls, BoxStep(c)
      PROVE  BoxTables' /\ calls' \in [Calls -> Shape]
  BY <1>1, <1>2, BeginShapes, IngestShapes, ProfileShapes, SpeakingShapes, StopShapes,
     BeginTables, IngestTables, ProfileTables, SpeakingTables, StopTables DEF BoxStep
<1>3. CASE Arrive
  <2>1. inbox' \subseteq 1..arrived' /\ arrived' \in 0..LastUid
    BY <1>1, <1>3, MailboxAssumption DEF Arrive, BoxTables, MailboxTypeOK
  <2> QED  BY <1>1, <1>3, <2>1 DEF Arrive, BoxTables, MailboxTypeOK, memory, history
<1>4. ASSUME NEW m \in Uids, MoveOut(m)
      PROVE  BoxTables' /\ calls' \in [Calls -> Shape]
  BY <1>1, <1>4 DEF MoveOut, BoxTables, MailboxTypeOK, memory, history
<1>5. CASE PurgeBodies
  <2>1. spoken' \in 0..MaxTold
    BY <1>1, <1>5, MailboxAssumption DEF PurgeBodies, Speak, BoxTables, MailboxTypeOK
  <2> QED  BY <1>1, <1>5, <2>1, PurgedType DEF PurgeBodies, BoxTables, MailboxTypeOK, memory, history
<1>6. CASE UNCHANGED boxVars
  BY <1>1, <1>6 DEF boxVars, BoxTables, MailboxTypeOK, memory, history
<1>7. MailboxTypeOK
  BY <1>1 DEF BoxTables
<1> QED  BY <1>2, <1>3, <1>4, <1>5, <1>6, <1>7, BoxCases

-----------------------------------------------------------------------------
(* How the table of messages moves: a row is made, or its flags or its     *)
(* body are written; none goes.                                            *)
Marks(c, m) ==
  /\ Act(c) \/ Flag(c)
  /\ calls[c].msg = m
  /\ emails'[m] # None /\ emails'[m].flags = Acted(calls[c].flags, calls[c].action)
Stores(c, m) == InsertEmail(c) /\ calls[c].msg = m /\ emails[m] = None /\ emails'[m] # None

LEMMA EmailMoves ==
  ASSUME BoxInv, [MailboxNext]_boxVars, NEW m \in Uids
  PROVE  \/ emails'[m] = emails[m]
         \/ \E c \in Calls : Stores(c, m)
         \/ emails[m] # None /\ \E c \in Calls : Marks(c, m)
         \/ emails[m] # None /\ emails'[m] # None /\ emails'[m].flags = emails[m].flags
<1>1. emails \in [Uids -> EmailRow \union {None}]
  BY DEF BoxInv, BoxTables, MailboxTypeOK
<1>2. ASSUME NEW c \in Calls, InsertEmail(c)
      PROVE  emails'[m] = emails[m] \/ Stores(c, m)
  <2>1. [flags |-> NewFlags, body |-> TRUE] # None
    <3>1. [flags |-> NewFlags, body |-> TRUE] \in EmailRow
      BY DEF NewFlags, EmailRow, Flags
    <3> QED  BY <3>1, MailboxRowAssumption
  <2> QED  BY <1>1, <1>2, <2>1 DEF InsertEmail, Stores
<1>3. ASSUME NEW c \in Calls, Act(c) \/ Flag(c)
      PROVE  emails'[m] = emails[m] \/ (emails[m] # None /\ Marks(c, m))
  <2>1. PICK u, f : u = calls[c].msg /\ f = Acted(calls[c].flags, calls[c].action)
    OBVIOUS
  <2>2. calls[c] \in BoxCall /\ HoldSound(calls[c]) /\ StoreSound(calls[c])
    BY ShapeOf DEF BoxInv
  <2>3. calls[c].pc \in {"act", "flag"}
    BY <1>3 DEF Act, Flag, At
  <2>4. u \in Uids /\ emails[u] \in EmailRow /\ f \in Flags
    BY <1>1, <2>1, <2>2, <2>3, ActedType DEF HoldSound, StoreSound, OfStored, Ingested, BoxCall
  <2>5. emails' = [emails EXCEPT ![u] = [emails[u] EXCEPT !.flags = f]]
    BY <1>3, <2>1 DEF Act, Flag
  <2>6. [emails[u] EXCEPT !.flags = f] \in EmailRow /\ [emails[u] EXCEPT !.flags = f].flags = f
    BY <2>4 DEF EmailRow
  <2>7. CASE u # m
    BY <1>1, <2>5, <2>7
  <2>8. CASE u = m
    <3>1. emails'[m] = [emails[u] EXCEPT !.flags = f]
      BY <1>1, <2>5, <2>8
    <3>2. emails'[m].flags = f /\ emails'[m] # None /\ emails[m] # None
      BY <2>4, <2>6, <2>8, <3>1, MailboxRowAssumption
    <3> QED  BY <1>3, <2>1, <2>8, <3>2 DEF Marks
  <2> QED  BY <2>7, <2>8
<1>4. CASE PurgeBodies
  BY <1>1, <1>4, PurgedType
<1>5. ASSUME NEW c \in Calls, BoxStep(c)
      PROVE  InsertEmail(c) \/ Act(c) \/ Flag(c) \/ emails' = emails
  <2>1. CASE Begins(c) \/ Stops(c)
    BY <2>1, BeginTables, StopTables
  <2>2. CASE Ingesting(c)
    BY <2>2 DEF Ingesting, NextMessage, FindEmail, CountSender, ReadThread, CountThread, Saved, OnlyReads
  <2>3. CASE Profiles(c)
    BY <2>3 DEF Profiles, ReadProfile, InsertProfile, OnlyReads
  <2>4. CASE Speaking(c)
    BY <2>4 DEF Speaking, ReadProject, InsertProject, ReadRelation, WriteRelation, ForgetRelations,
       ForgetSenders, OnlyReads
  <2> QED  BY <1>5, <2>1, <2>2, <2>3, <2>4 DEF BoxStep
<1>6. CASE Arrive \/ (\E n \in Uids : MoveOut(n)) \/ UNCHANGED boxVars
  BY <1>6 DEF Arrive, MoveOut, boxVars
<1>7. MailboxTypeOK
  BY DEF BoxInv, BoxTables
<1>8. ASSUME NEW c \in Calls, BoxStep(c)
      PROVE  emails'[m] = emails[m] \/ Stores(c, m) \/ (emails[m] # None /\ Marks(c, m))
  BY <1>2, <1>3, <1>5, <1>8
<1> QED  BY <1>4, <1>6, <1>7, <1>8, BoxCases

(* A stored message stays stored, so what a sync was shown stays so. *)
LEMMA StoredStays ==
  ASSUME BoxInv, [MailboxNext]_boxVars, NEW m \in Uids, Ingested(m)
  PROVE  Ingested(m)'
BY EmailMoves DEF Ingested, Stores, Marks

LEMMA StoreSoundStays ==
  ASSUME BoxInv, [MailboxNext]_boxVars, NEW d \in Calls, calls'[d] = calls[d]
  PROVE  StoreSound(calls[d])'
<1>1. calls[d] \in BoxCall /\ StoreSound(calls[d])
  BY ShapeOf DEF BoxInv
<1>2. PICK r : r = calls[d]
  OBVIOUS
<1>3. r \in BoxCall /\ StoreSound(r)
  BY <1>1, <1>2
<1>4. (\A m \in Uids : Ingested(m) => Ingested(m)')
  BY StoredStays
<1>5. StoreSound(r)'
  BY <1>3, <1>4 DEF StoreSound, Ingested, BoxCall
<1> QED  BY <1>2, <1>5

(* A call's step leaves the other calls as they are. *)
LEMMA OthersKept ==
  ASSUME BoxInv, NEW c \in Calls, NEW d \in Calls, d # c, BoxStep(c)
  PROVE  calls'[d] = calls[d]
<1>1. calls \in [Calls -> Shape]
  BY DEF BoxInv
<1>2. CASE Begins(c)
  BY <1>1, <1>2 DEF Begins, Sync, BeginMutate, BeginLook, BeginRelate, BeginAssociate, BeginForget,
     Begin, Go
<1>3. CASE Ingesting(c)
  BY <1>1, <1>3 DEF Ingesting, NextMessage, FindEmail, InsertEmail, CountSender, ReadThread,
     CountThread, Saved, Act, Go, Goto, End
<1>4. CASE Profiles(c) \/ Stops(c)
  BY <1>1, <1>4 DEF Profiles, ReadProfile, InsertProfile, Stops, Fail, Crash, Go, Goto, End
<1>5. CASE Speaking(c)
  BY <1>1, <1>5 DEF Speaking, Flag, ReadProject, InsertProject, ReadRelation, WriteRelation,
     ForgetRelations, ForgetSenders, Go, Goto, End
<1> QED  BY <1>2, <1>3, <1>4, <1>5 DEF BoxStep

(* What a call becomes that does not go on with its message. *)
LEMMA IdleSound == StoreSound(IdleCall) /\ IdleCall.pc = "idle" /\ IdleCall.kind = "idle"
BY DEF IdleCall, StoreSound, OfStored, Uncounted

LEMMA ThrewSound ==
  ASSUME NEW r \in BoxCall,
         r.kind = "sync" => \A m \in r.shown : m \in r.left \/ Ingested(m)
  PROVE  StoreSound(Threw(r))
<1>1. CASE r.kind = "sync"
  <2>1. PICK new : new = [IdleCall EXCEPT !.kind = "sync", !.pc = "next", !.shown = r.shown,
                                          !.left = r.left]
    OBVIOUS
  <2>2. new.kind = "sync" /\ new.pc = "next" /\ new.shown = r.shown /\ new.left = r.left
    BY <2>1 DEF IdleCall
  <2>3. StoreSound(new)
    BY <1>1, <2>2 DEF StoreSound, OfStored, Uncounted, Uncounting, Profiling
  <2> QED  BY <1>1, <2>1, <2>3 DEF Threw
<1> QED  BY <1>1, IdleSound DEF Threw

(* ... and one that goes on past the insert, having sound messages. *)
LEMMA OnSound ==
  ASSUME NEW r, NEW new, StoreSound(r), Ingested(r.msg), r.msg # None,
         new.shown = r.shown, new.left = r.left, new.msg = r.msg, new.kind = r.kind
  PROVE  StoreSound(new)
BY DEF StoreSound

LEMMA BeginsSound ==
  ASSUME BoxInv, NEW c \in Calls, Begins(c)
  PROVE  StoreSound(calls[c])'
<1>1. emails' = emails /\ calls \in [Calls -> Shape]
  BY BeginTables DEF BoxInv
<1>2. PICK new : calls' = [calls EXCEPT ![c] = new] /\ StoreSound(new)
  <2>1. ASSUME NEW found \in SUBSET Uids, Sync(c, found)
        PROVE  \E new : calls' = [calls EXCEPT ![c] = new] /\ StoreSound(new)
    <3>1. PICK new : new = [IdleCall EXCEPT !.kind = "sync", !.pc = "next", !.shown = found,
                                            !.left = found]
      OBVIOUS
    <3>2. new.pc = "next" /\ new.shown = found /\ new.left = found
      BY <3>1 DEF IdleCall
    <3>3. StoreSound(new)
      BY <3>2 DEF StoreSound, OfStored, Uncounted, Uncounting, Profiling
    <3> QED  BY <2>1, <3>1, <3>3 DEF Sync, Begin, Go
  <2>2. ASSUME NEW m \in Uids, NEW action \in UserActions, BeginMutate(c, m, action)
        PROVE  \E new : calls' = [calls EXCEPT ![c] = new] /\ StoreSound(new)
    <3>1. PICK new : new = [IdleCall EXCEPT !.kind = "mutate", !.pc = "flag", !.msg = m,
                                            !.flags = emails[m].flags, !.action = action]
      OBVIOUS
    <3>2. new.kind = "mutate" /\ new.msg = m
      BY <3>1 DEF IdleCall
    <3>3. m # None
      BY MailboxNoneAssumption DEF Uids
    <3>4. StoreSound(new)
      BY <2>2, <3>2, <3>3 DEF StoreSound, BeginMutate
    <3> QED  BY <2>2, <3>1, <3>4 DEF BeginMutate, Begin, Go
  <2>3. ASSUME NEW s \in Senders, BeginLook(c, s)
        PROVE  \E new : calls' = [calls EXCEPT ![c] = new] /\ StoreSound(new)
    <3>1. PICK new : new = [IdleCall EXCEPT !.kind = "look", !.pc = "profile", !.sender = s]
      OBVIOUS
    <3>2. StoreSound(new)
      BY <3>1 DEF IdleCall, StoreSound, OfStored, Uncounted
    <3> QED  BY <2>3, <3>1, <3>2 DEF BeginLook, Begin, Go
  <2>4. ASSUME NEW s \in Senders, NEW type \in Types, BeginRelate(c, s, type)
        PROVE  \E new : calls' = [calls EXCEPT ![c] = new] /\ StoreSound(new)
    <3>1. PICK new : new = [IdleCall EXCEPT !.kind = "relate", !.pc = "profile", !.sender = s,
                                            !.type = type]
      OBVIOUS
    <3>2. StoreSound(new)
      BY <3>1 DEF IdleCall, StoreSound, OfStored, Uncounted
    <3> QED  BY <2>4, <3>1, <3>2 DEF BeginRelate, Begin, Go
  <2>5. ASSUME NEW s \in Senders, NEW p \in Projects, BeginAssociate(c, s, p)
        PROVE  \E new : calls' = [calls EXCEPT ![c] = new] /\ StoreSound(new)
    <3>1. PICK new : new = [IdleCall EXCEPT !.kind = "associate", !.pc = "profile", !.sender = s,
                                            !.project = p]
      OBVIOUS
    <3>2. StoreSound(new)
      BY <3>1 DEF IdleCall, StoreSound, OfStored, Uncounted
    <3> QED  BY <2>5, <3>1, <3>2 DEF BeginAssociate, Begin, Go
  <2>6. ASSUME BeginForget(c)
        PROVE  \E new : calls' = [calls EXCEPT ![c] = new] /\ StoreSound(new)
    <3>1. PICK new : new = [IdleCall EXCEPT !.kind = "forget", !.pc = "forgetRelations"]
      OBVIOUS
    <3>2. StoreSound(new)
      BY <3>1 DEF IdleCall, StoreSound, OfStored, Uncounted
    <3> QED  BY <2>6, <3>1, <3>2 DEF BeginForget, Begin, Go
  <2> QED  BY <2>1, <2>2, <2>3, <2>4, <2>5, <2>6 DEF Begins
<1>3. calls'[c] = new
  BY <1>1, <1>2
<1> QED  BY <1>1, <1>2, <1>3 DEF StoreSound, Ingested

LEMMA StopsSound ==
  ASSUME BoxInv, NEW c \in Calls, Stops(c)
  PROVE  StoreSound(calls[c])'
<1>1. emails' = emails /\ calls \in [Calls -> Shape] /\ calls[c] \in BoxCall /\ StoreSound(calls[c])
      /\ KindSound(calls[c])
  BY StopTables, ShapeOf DEF BoxInv
<1>2. PICK new : calls' = [calls EXCEPT ![c] = new] /\ StoreSound(new)
  <2>1. CASE Crash(c)
    BY <2>1, IdleSound DEF Crash, End
  <2>2. CASE Fail(c)
    <3>1. PICK r : r = Threw(calls[c])
      OBVIOUS
    <3>2. PICK new : new = [r EXCEPT !.shown = @ \ {calls[c].msg}]
      OBVIOUS
    <3>3. r \in BoxCall /\ r.pc \in {"next", "idle"}
      <4>1. r \in Shape
        BY <1>1, <3>1, ThrewShape
      <4> QED  BY <3>1, <4>1 DEF Shape, Threw, IdleCall
    <3>4. new.pc = r.pc /\ new.shown = r.shown \ {calls[c].msg} /\ new.left = r.left
          /\ new.kind = r.kind
      BY <3>2, <3>3 DEF BoxCall
    <3>5. CASE calls[c].kind = "sync"
      <4>1. r.shown = calls[c].shown /\ r.left = calls[c].left
        BY <3>1, <3>5 DEF Threw, IdleCall
      <4> QED  BY <1>1, <2>2, <3>1, <3>2, <3>3, <3>4, <3>5, <4>1 DEF StoreSound, OfStored, Uncounted,
                 Uncounting, Profiling, Fail, Go
    <3>6. CASE calls[c].kind # "sync"
      <4>1. r = IdleCall
        BY <3>1, <3>6 DEF Threw
      <4>2. new.kind = "idle" /\ new.pc = "idle"
        BY <3>4, <4>1, IdleSound
      <4>3. StoreSound(new)
        BY <4>2 DEF StoreSound, OfStored, Uncounted
      <4> QED  BY <2>2, <3>1, <3>2, <4>3 DEF Fail, Go
    <3> QED  BY <3>5, <3>6
  <2> QED  BY <2>1, <2>2 DEF Stops
<1>3. calls'[c] = new
  BY <1>1, <1>2
<1> QED  BY <1>1, <1>2, <1>3 DEF StoreSound, Ingested

LEMMA IngestsSound ==
  ASSUME BoxInv, [MailboxNext]_boxVars, NEW c \in Calls, Ingesting(c)
  PROVE  StoreSound(calls[c])'
<1>1. PICK r : r = calls[c]
  OBVIOUS
<1>2. /\ calls \in [Calls -> Shape] /\ r \in Shape /\ r \in BoxCall /\ KindSound(r) /\ HoldSound(r)
      /\ StoreSound(r)
  BY <1>1, ShapeOf DEF BoxInv
<1>3. r.pc \in SyncOnly /\ r.kind = "sync"
  BY <1>1, <1>2 DEF Ingesting, NextMessage, FindEmail, InsertEmail, CountSender, ReadThread,
     CountThread, Saved, Act, At, KindSound, SyncOnly, Storing
<1>4. ASSUME r.pc # "next"
      PROVE  r.msg \in Uids /\ r.msg # None
  BY <1>1, <1>3, <1>4, SyncHolds, MailboxNoneAssumption DEF Uids
<1>5. \A m \in Uids : Ingested(m) => Ingested(m)'
  BY StoredStays
<1>6. \A m \in r.shown : m \in r.left \/ Ingested(m) \/ (r.pc \in Storing /\ m = r.msg)
  BY <1>2, <1>3 DEF StoreSound
<1>7. r.shown \subseteq Uids /\ r.left \subseteq Uids
  BY <1>2 DEF BoxCall
<1>8. ASSUME NEW new, calls' = [calls EXCEPT ![c] = new], StoreSound(new)'
      PROVE  StoreSound(calls[c])'
  <2>1. calls'[c] = new
    BY <1>2, <1>8
  <2> QED  BY <1>8, <2>1
<1>9. ASSUME calls' = [calls EXCEPT ![c] = Threw(r)],
             \A m \in r.shown : m \in r.left \/ Ingested(m)'
      PROVE  StoreSound(calls[c])'
  <2>1. PICK new : new = [IdleCall EXCEPT !.kind = "sync", !.pc = "next", !.shown = r.shown,
                                          !.left = r.left]
    OBVIOUS
  <2>2. new.kind = "sync" /\ new.pc = "next" /\ new.shown = r.shown /\ new.left = r.left
    BY <2>1 DEF IdleCall
  <2>3. StoreSound(new)'
    BY <1>9, <2>2 DEF StoreSound, OfStored, Uncounted, Uncounting, Profiling
  <2>4. new = Threw(r)
    BY <1>3, <2>1 DEF Threw
  <2> QED  BY <1>8, <1>9, <2>3, <2>4
<1>10. ASSUME NEW new, calls' = [calls EXCEPT ![c] = new], Ingested(r.msg)', r.pc # "next",
              new.shown = r.shown, new.left = r.left, new.msg = r.msg, new.kind = r.kind
       PROVE  StoreSound(calls[c])'
  <2>1. StoreSound(new)'
    BY <1>4, <1>5, <1>6, <1>7, <1>10 DEF StoreSound
  <2> QED  BY <1>8, <1>10, <2>1
<1>11. ASSUME NEW pc, Goto(c, pc), Ingested(r.msg)', r.pc # "next"
       PROVE  StoreSound(calls[c])'
  <2>1. PICK new : new = [r EXCEPT !.pc = pc]
    OBVIOUS
  <2>2. new.shown = r.shown /\ new.left = r.left /\ new.msg = r.msg /\ new.kind = r.kind
    BY <1>2, <2>1 DEF BoxCall
  <2>3. calls' = [calls EXCEPT ![c] = new]
    BY <1>1, <1>2, <1>11, <2>1, GoesTo
  <2> QED  BY <1>10, <1>11, <2>2, <2>3
<1>12. CASE NextMessage(c)
  <2>1. r.pc = "next"
    BY <1>1, <1>12 DEF NextMessage, At
  <2>2. CASE r.left = {}
    <3>1. calls' = [calls EXCEPT ![c] = IdleCall]
      BY <1>1, <1>12, <2>2 DEF NextMessage, End
    <3>2. StoreSound(IdleCall)'
      BY DEF IdleCall, StoreSound, OfStored, Uncounted
    <3> QED  BY <1>8, <3>1, <3>2
  <2>3. CASE r.left # {}
    <3>1. PICK m : calls' = [calls EXCEPT ![c] = [r EXCEPT !.pc = "exists", !.msg = m,
                                                   !.left = @ \ {m}, !.sender = SenderOf(m)]]
      BY <1>1, <1>12, <2>3 DEF NextMessage, Go
    <3>2. PICK new : new = [r EXCEPT !.pc = "exists", !.msg = m,
                                                   !.left = @ \ {m}, !.sender = SenderOf(m)]
      OBVIOUS
    <3>3. /\ new.pc = "exists" /\ new.msg = m /\ new.left = r.left \ {m} /\ new.shown = r.shown
          /\ new.kind = "sync"
      BY <1>2, <1>3, <3>2 DEF BoxCall
    <3>4. \A n \in r.shown : n \in r.left \/ Ingested(n)'
      BY <1>5, <1>6, <1>7, <2>1 DEF Storing
    <3>5. StoreSound(new)'
      BY <3>3, <3>4 DEF StoreSound, OfStored, Uncounted, Uncounting, Profiling, Storing
    <3> QED  BY <1>8, <3>1, <3>2, <3>5
  <2> QED  BY <2>2, <2>3
<1>13. CASE FindEmail(c)
  <2>1. r.pc = "exists"
    BY <1>1, <1>13 DEF FindEmail, At
  <2>2. CASE Ingested(r.msg)
    <3>1. Goto(c, "next")
      BY <1>1, <1>13, <2>2 DEF FindEmail, After
    <3> QED  BY <1>4, <1>5, <1>11, <2>1, <2>2, <3>1
  <2>3. CASE ~Ingested(r.msg)
    <3>1. Goto(c, "insert")
      BY <1>1, <1>13, <2>3 DEF FindEmail
    <3>2. PICK new : new = [r EXCEPT !.pc = "insert"]
      OBVIOUS
    <3>3. /\ new.shown = r.shown /\ new.left = r.left /\ new.msg = r.msg /\ new.kind = r.kind
          /\ new.pc = "insert"
      BY <1>2, <3>2 DEF BoxCall
    <3>4. calls' = [calls EXCEPT ![c] = new]
      BY <1>1, <1>2, <3>1, <3>2, GoesTo
    <3>5. StoreSound(new)'
      BY <1>5, <1>6, <1>7, <3>3 DEF StoreSound, OfStored, Uncounted, Uncounting, Profiling, Storing
    <3> QED  BY <1>8, <3>4, <3>5
  <2> QED  BY <2>2, <2>3
<1>14. CASE InsertEmail(c)
  <2>1. r.pc = "insert"
    BY <1>1, <1>14 DEF InsertEmail, At
  <2>2. CASE emails[r.msg] # None
    <3>1. calls' = [calls EXCEPT ![c] = Threw(r)]
      BY <1>1, <1>14, <2>2 DEF InsertEmail, Go
    <3>2. Ingested(r.msg)'
      BY <1>4, <1>5, <2>1, <2>2 DEF Ingested
    <3> QED  BY <1>5, <1>6, <1>7, <1>9, <3>1, <3>2
  <2>3. CASE emails[r.msg] = None
    <3>1. Goto(c, "profile") /\ emails' = [emails EXCEPT ![r.msg] = [flags |-> NewFlags, body |-> TRUE]]
      BY <1>1, <1>14, <2>3 DEF InsertEmail
    <3>2. [flags |-> NewFlags, body |-> TRUE] # None
      <4>1. [flags |-> NewFlags, body |-> TRUE] \in EmailRow
        BY DEF NewFlags, EmailRow, Flags
      <4> QED  BY <4>1, MailboxRowAssumption
    <3>3. Ingested(r.msg)'
      BY <1>4, <2>1, <3>1, <3>2 DEF Ingested, BoxInv, BoxTables, MailboxTypeOK
    <3> QED  BY <1>11, <2>1, <3>1, <3>3
  <2> QED  BY <2>2, <2>3
<1>15. ASSUME r.pc \in {"seen", "thread", "count", "saved", "act"}
       PROVE  r.pc # "next" /\ Ingested(r.msg)' /\ \A m \in r.shown : m \in r.left \/ Ingested(m)'
  <2>1. Ingested(r.msg) /\ r.msg \in Uids
    BY <1>2, <1>3, <1>4, <1>15 DEF StoreSound, OfStored, Uncounted, Uncounting, Profiling
  <2> QED  BY <1>5, <1>6, <1>7, <1>15, <2>1
<1>16. CASE CountSender(c)
  <2>1. PICK new : new = [r EXCEPT !.pc = "thread", !.profile = None]
    OBVIOUS
  <2>2. new.shown = r.shown /\ new.left = r.left /\ new.msg = r.msg /\ new.kind = r.kind
    BY <1>2, <2>1 DEF BoxCall
  <2> QED  BY <1>1, <1>10, <1>15, <1>16, <2>1, <2>2 DEF CountSender, At, Go
<1>17. CASE ReadThread(c)
  <2>1. PICK n, new : n = threads[ThreadOf(r.msg)] /\ new = [r EXCEPT !.pc = "count", !.thread = n]
    OBVIOUS
  <2>2. new.shown = r.shown /\ new.left = r.left /\ new.msg = r.msg /\ new.kind = r.kind
    BY <1>2, <2>1 DEF BoxCall
  <2> QED  BY <1>1, <1>10, <1>15, <1>17, <2>1, <2>2 DEF ReadThread, At, Go
<1>18. CASE CountThread(c)
  <2>1. r.pc = "count"
    BY <1>1, <1>18 DEF CountThread, At
  <2>2. CASE Go(c, Threw(r))
    BY <1>9, <1>15, <2>1, <2>2 DEF Go
  <2>3. CASE Go(c, [r EXCEPT !.pc = "saved", !.thread = None])
    <3>1. PICK new : new = [r EXCEPT !.pc = "saved", !.thread = None]
      OBVIOUS
    <3>2. new.shown = r.shown /\ new.left = r.left /\ new.msg = r.msg /\ new.kind = r.kind
      BY <1>2, <3>1 DEF BoxCall
    <3> QED  BY <1>10, <1>15, <2>1, <2>3, <3>1, <3>2 DEF Go
  <2> QED  BY <1>1, <1>18, <2>2, <2>3 DEF CountThread
<1>19. CASE Saved(c)
  <2>1. PICK f, action : Go(c, [r EXCEPT !.pc = "act", !.flags = f, !.action = action])
    BY <1>1, <1>19 DEF Saved
  <2>2. PICK new : new = [r EXCEPT !.pc = "act", !.flags = f, !.action = action]
    OBVIOUS
  <2>3. new.shown = r.shown /\ new.left = r.left /\ new.msg = r.msg /\ new.kind = r.kind
    BY <1>2, <2>2 DEF BoxCall
  <2> QED  BY <1>1, <1>10, <1>15, <1>19, <2>1, <2>2, <2>3 DEF Saved, At, Go
<1>20. CASE Act(c)
  BY <1>1, <1>9, <1>15, <1>20 DEF Act, At, Go
<1> QED  BY <1>12, <1>13, <1>14, <1>16, <1>17, <1>18, <1>19, <1>20 DEF Ingesting

LEMMA SpeaksSound ==
  ASSUME BoxInv, [MailboxNext]_boxVars, NEW c \in Calls, Profiles(c) \/ Speaking(c)
  PROVE  StoreSound(calls[c])'
<1>1. PICK r : r = calls[c]
  OBVIOUS
<1>2. /\ calls \in [Calls -> Shape] /\ r \in Shape /\ r \in BoxCall /\ KindSound(r) /\ HoldSound(r)
      /\ StoreSound(r)
  BY <1>1, ShapeOf DEF BoxInv
<1>3. \A m \in Uids : Ingested(m) => Ingested(m)'
  BY StoredStays
<1>4. ASSUME NEW new, calls' = [calls EXCEPT ![c] = new], StoreSound(new)'
      PROVE  StoreSound(calls[c])'
  <2>1. calls'[c] = new
    BY <1>2, <1>4
  <2> QED  BY <1>4, <2>1
<1>5. StoreSound(IdleCall)'
  BY DEF IdleCall, StoreSound, OfStored, Uncounted
<1>6. ASSUME NEW new, calls' = [calls EXCEPT ![c] = new],
             r.pc \in Profiling \/ r.kind # "sync", new.pc # "flag",
             new.pc \notin {"saved", "act"},
             new.shown = r.shown, new.left = r.left, new.msg = r.msg, new.kind = r.kind
      PROVE  StoreSound(calls[c])'
  <2>1. CASE r.kind = "sync"
    <3>1. Ingested(r.msg) /\ r.msg \in Uids /\ r.msg # None
      BY <1>2, <1>6, <2>1 DEF StoreSound, OfStored, Uncounted, Uncounting, BoxCall
    <3>2. \A m \in r.shown : m \in r.left \/ Ingested(m)'
      BY <1>2, <1>3, <2>1, <3>1 DEF StoreSound, BoxCall
    <3>3. StoreSound(new)'
      BY <1>3, <1>6, <3>1, <3>2 DEF StoreSound
    <3> QED  BY <1>4, <1>6, <3>3
  <2>2. CASE r.kind # "sync"
    <3>1. StoreSound(new)'
      BY <1>6, <2>2 DEF StoreSound, OfStored, Uncounted
    <3> QED  BY <1>4, <1>6, <3>1
  <2> QED  BY <2>1, <2>2
<1>7. ASSUME NEW pc, Goto(c, pc), r.pc \in Profiling \/ r.kind # "sync",
             pc \notin {"flag", "saved", "act"}
      PROVE  StoreSound(calls[c])'
  <2>1. PICK new : new = [r EXCEPT !.pc = pc]
    OBVIOUS
  <2>2. /\ new.shown = r.shown /\ new.left = r.left /\ new.msg = r.msg /\ new.kind = r.kind
        /\ new.pc = pc
    BY <1>2, <2>1 DEF BoxCall
  <2>3. calls' = [calls EXCEPT ![c] = new]
    BY <1>1, <1>2, <1>7, <2>1, GoesTo
  <2> QED  BY <1>6, <1>7, <2>2, <2>3
<1>8. CASE Profiles(c)
  <2>1. r.pc \in Profiling /\ r.kind \in {"sync", "relate", "associate", "look"}
    BY <1>1, <1>2, <1>8 DEF Profiles, ReadProfile, InsertProfile, At, KindSound, Profiling
  <2>2. ASSUME NEW row, r.kind # "look",
               Go(c, [r EXCEPT !.pc = AfterProfile[r.kind], !.profile = row])
        PROVE  StoreSound(calls[c])'
    <3>1. PICK new : new = [r EXCEPT !.pc = AfterProfile[r.kind], !.profile = row]
      OBVIOUS
    <3>2. AfterProfile[r.kind] \notin {"flag", "saved", "act"}
      BY <2>1, <2>2 DEF AfterProfile
    <3>3. /\ new.shown = r.shown /\ new.left = r.left /\ new.msg = r.msg /\ new.kind = r.kind
          /\ new.pc = AfterProfile[r.kind]
      BY <1>2, <3>1 DEF BoxCall
    <3> QED  BY <1>6, <2>1, <2>2, <3>1, <3>2, <3>3 DEF Go
  <2>3. CASE Goto(c, "newProfile")
    BY <1>7, <2>1, <2>3
  <2>4. CASE Go(c, IdleCall)
    BY <1>4, <1>5, <2>4 DEF Go
  <2>5. CASE Go(c, Threw(r))
    <3>1. CASE r.kind = "sync"
      <4>1. PICK new : new = [IdleCall EXCEPT !.kind = "sync", !.pc = "next", !.shown = r.shown,
                                              !.left = r.left]
        OBVIOUS
      <4>2. new.kind = "sync" /\ new.pc = "next" /\ new.shown = r.shown /\ new.left = r.left
        BY <4>1 DEF IdleCall
      <4>3. \A m \in r.shown : m \in r.left \/ Ingested(m)'
        BY <1>2, <1>3, <2>1, <3>1 DEF StoreSound, OfStored, Uncounted, Uncounting, BoxCall
      <4>4. StoreSound(new)'
        BY <4>2, <4>3 DEF StoreSound, OfStored, Uncounted, Uncounting, Profiling
      <4> QED  BY <1>4, <2>5, <3>1, <4>1, <4>4 DEF Go, Threw
    <3>2. CASE r.kind # "sync"
      BY <1>4, <1>5, <2>5, <3>2 DEF Go, Threw
    <3> QED  BY <3>1, <3>2
  <2>6. \/ Goto(c, "newProfile") \/ Go(c, IdleCall) \/ Go(c, Threw(r))
        \/ r.kind # "look" /\ \E row : Go(c, [r EXCEPT !.pc = AfterProfile[r.kind], !.profile = row])
    BY <1>1, <1>8 DEF Profiles, ReadProfile, InsertProfile
  <2> QED  BY <2>2, <2>3, <2>4, <2>5, <2>6
<1>9. CASE Speaking(c)
  <2>1. CASE Flag(c) \/ WriteRelation(c) \/ ForgetSenders(c)
    BY <1>4, <1>5, <2>1 DEF Flag, WriteRelation, ForgetSenders, End
  <2>2. CASE ReadProject(c) \/ InsertProject(c) \/ ForgetRelations(c)
    <3>1. r.kind # "sync"
      BY <1>1, <1>2, <2>2 DEF ReadProject, InsertProject, ForgetRelations, At, KindSound, Forgetting
    <3>2. PICK pc : Goto(c, pc) /\ pc \in {"relation", "newProject", "forgetSenders"}
      BY <2>2 DEF ReadProject, InsertProject, ForgetRelations
    <3> QED  BY <1>7, <3>1, <3>2
  <2>3. CASE ReadRelation(c)
    <3>1. r.kind # "sync"
      BY <1>1, <1>2, <2>3 DEF ReadRelation, At, KindSound, Relating
    <3>2. PICK row, new : row = relations[r.sender] /\ new = [r EXCEPT !.pc = "relate", !.relation = row]
      OBVIOUS
    <3>3. /\ new.shown = r.shown /\ new.left = r.left /\ new.msg = r.msg /\ new.kind = r.kind
          /\ new.pc = "relate"
      BY <1>2, <3>2 DEF BoxCall
    <3> QED  BY <1>1, <1>6, <2>3, <3>1, <3>2, <3>3 DEF ReadRelation, Go
  <2> QED  BY <1>9, <2>1, <2>2, <2>3 DEF Speaking
<1> QED  BY <1>8, <1>9

LEMMA StillShown ==
  ASSUME BoxInv, [MailboxNext]_boxVars
  PROVE  ShownIsStored'
<1>1. ShownIsStored /\ promised \subseteq Uids
  BY DEF BoxInv, BoxTables
<1>2. \A m \in Uids : Ingested(m) => Ingested(m)'
  BY StoredStays
<1>3. ASSUME NEW c \in Calls, NextMessage(c)
      PROVE  \A m \in promised' : m \in Uids /\ Ingested(m)
  <2>1. calls[c] \in BoxCall /\ KindSound(calls[c]) /\ StoreSound(calls[c])
    BY ShapeOf DEF BoxInv
  <2>2. calls[c].kind = "sync" /\ calls[c].pc = "next" /\ calls[c].shown \subseteq Uids
    BY <1>3, <2>1 DEF NextMessage, At, KindSound, SyncOnly, BoxCall
  <2>3. calls[c].left = {} => \A m \in calls[c].shown : Ingested(m)
    BY <2>1, <2>2 DEF StoreSound, Storing
  <2> QED  BY <1>1, <1>3, <2>2, <2>3 DEF NextMessage, ShownIsStored
<1>4. ASSUME NEW c \in Calls, BoxStep(c)
      PROVE  promised' = promised \/ NextMessage(c)
  <2>1. CASE Begins(c) \/ Stops(c)
    BY <2>1, BeginTables, StopTables
  <2>2. CASE Ingesting(c)
    BY <2>2 DEF Ingesting, FindEmail, InsertEmail, CountSender, ReadThread, CountThread, Saved, Act,
       OnlyReads, World, history
  <2>3. CASE Profiles(c)
    BY <2>3 DEF Profiles, ReadProfile, InsertProfile, OnlyReads, World, history
  <2>4. CASE Speaking(c)
    BY <2>4 DEF Speaking, Flag, ReadProject, InsertProject, ReadRelation, WriteRelation,
       ForgetRelations, ForgetSenders, OnlyReads, World, history
  <2> QED  BY <1>4, <2>1, <2>2, <2>3, <2>4 DEF BoxStep
<1>5. CASE Arrive \/ (\E n \in Uids : MoveOut(n)) \/ PurgeBodies \/ UNCHANGED boxVars
  BY <1>1, <1>2, <1>5 DEF Arrive, MoveOut, PurgeBodies, boxVars, history, ShownIsStored
<1>6. ASSUME NEW c \in Calls, BoxStep(c)
      PROVE  ShownIsStored'
  BY <1>1, <1>2, <1>3, <1>4, <1>6 DEF ShownIsStored
<1>7. MailboxTypeOK
  BY DEF BoxInv, BoxTables
<1> QED  BY <1>5, <1>6, <1>7, BoxCases

LEMMA BoxInit == MailboxInit => BoxInv
<1> SUFFICES ASSUME MailboxInit PROVE BoxInv
  OBVIOUS
<1>1. calls \in [Calls -> Shape]
  BY IdleCallShape DEF MailboxInit
<1>2. \A c \in Calls : StoreSound(calls[c])
  BY IdleSound DEF MailboxInit
<1>3. told \in Told
  <2>1. SaidNothing \in Told
    BY DEF SaidNothing, Told
  <2> QED  BY <2>1 DEF MailboxInit
<1>4. MailboxTypeOK
  BY MailboxAssumption DEF MailboxInit, MailboxTypeOK
<1> QED  BY <1>1, <1>2, <1>3, <1>4 DEF MailboxInit, BoxInv, BoxTables, ShownIsStored

LEMMA BoxKept == BoxInv /\ [MailboxNext]_boxVars => BoxInv'
<1> SUFFICES ASSUME BoxInv, [MailboxNext]_boxVars PROVE BoxInv'
  OBVIOUS
<1>1. BoxTables' /\ calls' \in [Calls -> Shape] /\ ShownIsStored'
  BY TablesKept, StillShown
<1>2. ASSUME NEW c \in Calls, BoxStep(c), NEW d \in Calls PROVE StoreSound(calls[d])'
  <2>1. CASE d # c
    BY <1>2, <2>1, OthersKept, StoreSoundStays
  <2>2. CASE d = c
    BY <1>2, <2>2, BeginsSound, StopsSound, IngestsSound, SpeaksSound DEF BoxStep
  <2> QED  BY <2>1, <2>2
<1>3. ASSUME Arrive \/ (\E n \in Uids : MoveOut(n)) \/ PurgeBodies \/ UNCHANGED boxVars,
             NEW d \in Calls
      PROVE  StoreSound(calls[d])'
  BY <1>3, StoreSoundStays DEF Arrive, MoveOut, PurgeBodies, boxVars
<1>4. MailboxTypeOK
  BY DEF BoxInv, BoxTables
<1>5. \A d \in Calls : StoreSound(calls[d])'
  BY <1>2, <1>3, <1>4, BoxCases
<1> QED  BY <1>1, <1>5 DEF BoxInv

(* The tables ingestEmail, the sync and the mailbox actions write keep     *)
(* their types, however many messages, senders, threads and calls.         *)
THEOREM MailboxTypeCorrect == MailboxSpec => []MailboxTypeOK
<1>1. BoxInv => MailboxTypeOK
  BY DEF BoxInv, BoxTables
<1> QED  BY <1>1, BoxInit, BoxKept, PTL DEF MailboxSpec

(* Of the messages the provider showed a sync none is lost when it has     *)
(* ended without failing: each is stored, by its ingestEmail or by that of *)
(* a sync beside it.                                                       *)
THEOREM ShownAreStored == MailboxSpec => []ShownIsStored
<1>1. BoxInv => ShownIsStored
  BY DEF BoxInv
<1> QED  BY <1>1, BoxInit, BoxKept, PTL DEF MailboxSpec

-----------------------------------------------------------------------------
(* What a call becomes by its step, and what it has read when it did. *)
SameMessage(c) ==
  /\ calls'[c].kind = calls[c].kind /\ calls'[c].msg = calls[c].msg
  /\ calls'[c].sender = calls[c].sender
Passes(c, from, to) == At(c, from) /\ calls'[c].pc = to /\ SameMessage(c)
CallMove(c) ==
  \/ calls'[c].pc \in {"idle", "next"}
  \/ At(c, "idle") /\ calls'[c].kind # "sync" /\ calls'[c].pc \in {"profile", "forgetRelations"}
  \/ /\ At(c, "idle") /\ calls'[c].kind = "mutate" /\ calls'[c].pc = "flag"
     /\ calls'[c].flags = emails[calls'[c].msg].flags
  \/ NextMessage(c) /\ calls'[c].pc = "exists"
  \/ FindEmail(c) /\ Passes(c, "exists", "insert") /\ ~Ingested(calls[c].msg)
  \/ InsertEmail(c) /\ Passes(c, "insert", "profile") /\ ~Ingested(calls[c].msg)
  \/ ReadProfile(c) /\ Passes(c, "profile", "newProfile") /\ senders[calls[c].sender] = None
  \/ /\ ReadProfile(c) /\ Passes(c, "profile", AfterProfile[calls[c].kind])
     /\ calls'[c].profile = senders[calls[c].sender]
  \/ /\ InsertProfile(c) /\ Passes(c, "newProfile", AfterProfile[calls[c].kind])
     /\ calls'[c].profile = senders'[calls[c].sender]
  \/ CountSender(c) /\ Passes(c, "seen", "thread")
  \/ /\ ReadThread(c) /\ Passes(c, "thread", "count")
     /\ calls'[c].thread = threads[ThreadOf(calls[c].msg)]
  \/ CountThread(c) /\ Passes(c, "count", "saved")
  \/ /\ Saved(c) /\ Passes(c, "saved", "act")
     /\ calls'[c].flags = emails[calls[c].msg].flags
  \/ /\ calls[c].kind # "sync" /\ SameMessage(c)
     /\ calls'[c].pc \in {"newProject", "relation", "relate", "forgetSenders"}

LEMMA PassesTo ==
  ASSUME calls \in [Calls -> Shape], NEW c \in Calls, NEW new, NEW from, NEW to,
         calls' = [calls EXCEPT ![c] = new], At(c, from),
         new.pc = to, new.kind = calls[c].kind, new.msg = calls[c].msg,
         new.sender = calls[c].sender
  PROVE  Passes(c, from, to)
BY DEF Passes, SameMessage

LEMMA BeginMoves ==
  ASSUME BoxInv, NEW c \in Calls, Begins(c)
  PROVE  CallMove(c)
<1>1. calls \in [Calls -> Shape]
  BY DEF BoxInv
<1>2. ASSUME NEW found \in SUBSET Uids, Sync(c, found) PROVE calls'[c].pc = "next"
  <2>1. PICK new : new = [IdleCall EXCEPT !.kind = "sync", !.pc = "next", !.shown = found,
                                          !.left = found]
    OBVIOUS
  <2>2. new.pc = "next"
    BY <2>1 DEF IdleCall
  <2>3. calls' = [calls EXCEPT ![c] = new]
    BY <1>2, <2>1 DEF Sync, Begin, Go
  <2> QED  BY <1>1, <2>2, <2>3
<1>3. ASSUME NEW m \in Uids, NEW action \in UserActions, BeginMutate(c, m, action)
      PROVE  CallMove(c)
  <2>1. PICK new : new = [IdleCall EXCEPT !.kind = "mutate", !.pc = "flag", !.msg = m,
                                          !.flags = emails[m].flags, !.action = action]
    OBVIOUS
  <2>2. new.pc = "flag" /\ new.kind = "mutate" /\ new.msg = m /\ new.flags = emails[m].flags
    BY <2>1 DEF IdleCall
  <2>3. calls' = [calls EXCEPT ![c] = new] /\ At(c, "idle")
    BY <1>3, <2>1 DEF BeginMutate, Begin, Go
  <2>4. calls'[c] = new
    BY <1>1, <2>3
  <2> QED  BY <2>2, <2>3, <2>4 DEF CallMove
<1>4. ASSUME NEW new, calls' = [calls EXCEPT ![c] = new], At(c, "idle"), new.kind # "sync",
             new.pc \in {"profile", "forgetRelations"}
      PROVE  CallMove(c)
  <2>1. calls'[c] = new
    BY <1>1, <1>4
  <2> QED  BY <1>4, <2>1 DEF CallMove
<1>5. ASSUME NEW s \in Senders, BeginLook(c, s) PROVE CallMove(c)
  <2>1. PICK new : new = [IdleCall EXCEPT !.kind = "look", !.pc = "profile", !.sender = s]
    OBVIOUS
  <2>2. new.kind = "look" /\ new.pc = "profile"
    BY <2>1 DEF IdleCall
  <2> QED  BY <1>4, <1>5, <2>1, <2>2 DEF BeginLook, Begin, Go
<1>6. ASSUME NEW s \in Senders, NEW type \in Types, BeginRelate(c, s, type) PROVE CallMove(c)
  <2>1. PICK new : new = [IdleCall EXCEPT !.kind = "relate", !.pc = "profile", !.sender = s,
                                          !.type = type]
    OBVIOUS
  <2>2. new.kind = "relate" /\ new.pc = "profile"
    BY <2>1 DEF IdleCall
  <2> QED  BY <1>4, <1>6, <2>1, <2>2 DEF BeginRelate, Begin, Go
<1>7. ASSUME NEW s \in Senders, NEW p \in Projects, BeginAssociate(c, s, p) PROVE CallMove(c)
  <2>1. PICK new : new = [IdleCall EXCEPT !.kind = "associate", !.pc = "profile", !.sender = s,
                                          !.project = p]
    OBVIOUS
  <2>2. new.kind = "associate" /\ new.pc = "profile"
    BY <2>1 DEF IdleCall
  <2> QED  BY <1>4, <1>7, <2>1, <2>2 DEF BeginAssociate, Begin, Go
<1>8. ASSUME BeginForget(c) PROVE CallMove(c)
  <2>1. PICK new : new = [IdleCall EXCEPT !.kind = "forget", !.pc = "forgetRelations"]
    OBVIOUS
  <2>2. new.kind = "forget" /\ new.pc = "forgetRelations"
    BY <2>1 DEF IdleCall
  <2> QED  BY <1>4, <1>8, <2>1, <2>2 DEF BeginForget, Begin, Go
<1>9. CASE \E found \in SUBSET Uids : Sync(c, found)
  BY <1>2, <1>9 DEF CallMove
<1> QED  BY <1>3, <1>5, <1>6, <1>7, <1>8, <1>9 DEF Begins

LEMMA ThrewMoves ==
  ASSUME BoxInv, NEW c \in Calls,
         \/ Go(c, Threw(calls[c])) \/ End(c) \/ Stops(c)
         \/ Goto(c, "next") \/ Go(c, IdleCall)
  PROVE  calls'[c].pc \in {"idle", "next"}
<1>1. calls \in [Calls -> Shape] /\ calls[c] \in BoxCall
  BY ShapeOf DEF BoxInv
<1>2. PICK r : r = Threw(calls[c])
  OBVIOUS
<1>3. r \in BoxCall /\ r.pc \in {"next", "idle"}
  <2>1. r \in Shape
    BY <1>1, <1>2, ThrewShape
  <2> QED  BY <1>2, <2>1 DEF Shape, Threw, IdleCall
<1>4. CASE Goto(c, "next")
  <2>1. [calls[c] EXCEPT !.pc = "next"].pc = "next"
    BY <1>1 DEF BoxCall
  <2> QED  BY <1>1, <1>4, <2>1 DEF Goto
<1>5. CASE End(c) \/ Go(c, IdleCall) \/ Crash(c)
  BY <1>1, <1>5, IdleSound DEF End, Go, Crash
<1>6. CASE Go(c, Threw(calls[c]))
  BY <1>1, <1>2, <1>3, <1>6 DEF Go
<1>7. CASE Fail(c)
  <2>1. PICK new : new = [r EXCEPT !.shown = @ \ {calls[c].msg}]
    OBVIOUS
  <2>2. new.pc = r.pc
    BY <1>3, <2>1 DEF BoxCall
  <2>3. calls' = [calls EXCEPT ![c] = new]
    BY <1>2, <1>7, <2>1 DEF Fail, Go
  <2> QED  BY <1>1, <1>3, <2>2, <2>3
<1> QED  BY <1>4, <1>5, <1>6, <1>7 DEF Stops

LEMMA GotoMoves ==
  ASSUME BoxInv, NEW c \in Calls, NEW from, At(c, from), NEW to, Goto(c, to)
  PROVE  Passes(c, from, to)
<1>1. calls \in [Calls -> Shape] /\ calls[c] \in BoxCall
  BY ShapeOf DEF BoxInv
<1>2. PICK new : new = [calls[c] EXCEPT !.pc = to]
  OBVIOUS
<1>3. /\ new.pc = to /\ new.kind = calls[c].kind /\ new.msg = calls[c].msg
      /\ new.sender = calls[c].sender
  BY <1>1, <1>2 DEF BoxCall
<1> QED  BY <1>1, <1>2, <1>3, GoesTo, PassesTo

LEMMA IngestMoves ==
  ASSUME BoxInv, NEW c \in Calls, Ingesting(c)
  PROVE  CallMove(c)
<1>1. calls \in [Calls -> Shape] /\ calls[c] \in BoxCall
  BY ShapeOf DEF BoxInv
<1>2. CASE NextMessage(c)
  <2>1. CASE calls[c].left = {}
    BY <1>2, <2>1, ThrewMoves DEF NextMessage, CallMove
  <2>2. CASE calls[c].left # {}
    <3>1. PICK m : Go(c, [calls[c] EXCEPT !.pc = "exists", !.msg = m, !.left = @ \ {m},
                                          !.sender = SenderOf(m)])
      BY <1>2, <2>2 DEF NextMessage
    <3>2. PICK new : new = [calls[c] EXCEPT !.pc = "exists", !.msg = m, !.left = @ \ {m},
                                            !.sender = SenderOf(m)]
      OBVIOUS
    <3>3. new.pc = "exists"
      BY <1>1, <3>2 DEF BoxCall
    <3>4. calls'[c].pc = "exists"
      BY <1>1, <3>1, <3>2, <3>3 DEF Go
    <3> QED  BY <1>2, <3>4 DEF CallMove
  <2> QED  BY <2>1, <2>2
<1>3. CASE FindEmail(c)
  <2>1. CASE Ingested(calls[c].msg)
    BY <1>3, <2>1, ThrewMoves DEF FindEmail, After, CallMove
  <2>2. CASE ~Ingested(calls[c].msg)
    <3>1. Goto(c, "insert") /\ At(c, "exists")
      BY <1>3, <2>2 DEF FindEmail
    <3> QED  BY <1>3, <2>2, <3>1, GotoMoves DEF CallMove
  <2> QED  BY <2>1, <2>2
<1>4. CASE InsertEmail(c)
  <2>1. CASE emails[calls[c].msg] # None
    BY <1>4, <2>1, ThrewMoves DEF InsertEmail, CallMove
  <2>2. CASE emails[calls[c].msg] = None
    <3>1. Goto(c, "profile") /\ At(c, "insert")
      BY <1>4, <2>2 DEF InsertEmail
    <3> QED  BY <1>4, <2>2, <3>1, GotoMoves DEF CallMove, Ingested
  <2> QED  BY <2>1, <2>2
<1>5. CASE CountSender(c)
  <2>1. PICK new : new = [calls[c] EXCEPT !.pc = "thread", !.profile = None]
    OBVIOUS
  <2>2. /\ new.pc = "thread" /\ new.kind = calls[c].kind /\ new.msg = calls[c].msg
        /\ new.sender = calls[c].sender
    BY <1>1, <2>1 DEF BoxCall
  <2>3. Passes(c, "seen", "thread")
    BY <1>1, <1>5, <2>1, <2>2, PassesTo DEF CountSender, Go
  <2> QED  BY <1>5, <2>3 DEF CallMove
<1>6. CASE ReadThread(c)
  <2>1. PICK n, new : n = threads[ThreadOf(calls[c].msg)]
                      /\ new = [calls[c] EXCEPT !.pc = "count", !.thread = n]
    OBVIOUS
  <2>2. /\ new.pc = "count" /\ new.kind = calls[c].kind /\ new.msg = calls[c].msg
        /\ new.sender = calls[c].sender /\ new.thread = n
    BY <1>1, <2>1 DEF BoxCall
  <2>3. calls' = [calls EXCEPT ![c] = new] /\ At(c, "thread")
    BY <1>6, <2>1 DEF ReadThread, Go
  <2>4. Passes(c, "thread", "count") /\ calls'[c].thread = n
    BY <1>1, <2>2, <2>3, PassesTo
  <2> QED  BY <1>6, <2>1, <2>4 DEF CallMove
<1>7. CASE CountThread(c)
  <2>1. CASE Go(c, Threw(calls[c]))
    BY <2>1, ThrewMoves DEF CallMove
  <2>2. CASE Go(c, [calls[c] EXCEPT !.pc = "saved", !.thread = None])
    <3>1. PICK new : new = [calls[c] EXCEPT !.pc = "saved", !.thread = None]
      OBVIOUS
    <3>2. /\ new.pc = "saved" /\ new.kind = calls[c].kind /\ new.msg = calls[c].msg
          /\ new.sender = calls[c].sender
      BY <1>1, <3>1 DEF BoxCall
    <3>3. Passes(c, "count", "saved")
      BY <1>1, <1>7, <2>2, <3>1, <3>2, PassesTo DEF CountThread, Go
    <3> QED  BY <1>7, <3>3 DEF CallMove
  <2> QED  BY <1>7, <2>1, <2>2 DEF CountThread
<1>8. CASE Saved(c)
  <2>1. PICK f, action : f = emails[calls[c].msg].flags
                         /\ Go(c, [calls[c] EXCEPT !.pc = "act", !.flags = f, !.action = action])
    BY <1>8 DEF Saved
  <2>2. PICK new : new = [calls[c] EXCEPT !.pc = "act", !.flags = f, !.action = action]
    OBVIOUS
  <2>3. /\ new.pc = "act" /\ new.kind = calls[c].kind /\ new.msg = calls[c].msg
        /\ new.sender = calls[c].sender /\ new.flags = f
    BY <1>1, <2>2 DEF BoxCall
  <2>4. calls' = [calls EXCEPT ![c] = new] /\ At(c, "saved")
    BY <1>8, <2>1, <2>2 DEF Saved, Go
  <2>5. Passes(c, "saved", "act") /\ calls'[c].flags = f
    BY <1>1, <2>3, <2>4, PassesTo
  <2> QED  BY <1>8, <2>1, <2>5 DEF CallMove
<1>9. CASE Act(c)
  BY <1>9, ThrewMoves DEF Act, CallMove
<1> QED  BY <1>2, <1>3, <1>4, <1>5, <1>6, <1>7, <1>8, <1>9 DEF Ingesting

LEMMA ProfileMoves ==
  ASSUME BoxInv, NEW c \in Calls, Profiles(c)
  PROVE  CallMove(c)
<1>1. calls \in [Calls -> Shape] /\ calls[c] \in BoxCall /\ HoldSound(calls[c])
  BY ShapeOf DEF BoxInv
<1>2. ASSUME NEW row, NEW pc, NEW from, At(c, from), pc = AfterProfile[calls[c].kind],
             Go(c, [calls[c] EXCEPT !.pc = pc, !.profile = row])
      PROVE  Passes(c, from, pc) /\ calls'[c].profile = row
  <2>1. PICK new : new = [calls[c] EXCEPT !.pc = pc, !.profile = row]
    OBVIOUS
  <2>2. /\ new.pc = pc /\ new.kind = calls[c].kind /\ new.msg = calls[c].msg
        /\ new.sender = calls[c].sender /\ new.profile = row
    BY <1>1, <2>1 DEF BoxCall
  <2>3. calls' = [calls EXCEPT ![c] = new]
    BY <1>2, <2>1 DEF Go
  <2> QED  BY <1>1, <1>2, <2>2, <2>3, PassesTo
<1>3. CASE ReadProfile(c)
  <2>1. At(c, "profile")
    BY <1>3 DEF ReadProfile
  <2>2. CASE senders[calls[c].sender] = None
    BY <1>3, <2>1, <2>2, GotoMoves DEF ReadProfile, CallMove
  <2>3. CASE senders[calls[c].sender] # None /\ calls[c].kind = "look"
    BY <1>3, <2>3, ThrewMoves DEF ReadProfile, CallMove
  <2>4. CASE senders[calls[c].sender] # None /\ calls[c].kind # "look"
    <3>1. PICK row, pc : row = senders[calls[c].sender] /\ pc = AfterProfile[calls[c].kind]
      OBVIOUS
    <3>2. Go(c, [calls[c] EXCEPT !.pc = pc, !.profile = row])
      BY <1>3, <2>4, <3>1 DEF ReadProfile
    <3>3. Passes(c, "profile", pc) /\ calls'[c].profile = row
      BY <1>2, <2>1, <3>1, <3>2
    <3> QED  BY <1>3, <3>1, <3>3 DEF CallMove
  <2> QED  BY <2>2, <2>3, <2>4
<1>4. CASE InsertProfile(c)
  <2>1. At(c, "newProfile")
    BY <1>4 DEF InsertProfile
  <2>2. CASE senders[calls[c].sender] # None
    BY <1>4, <2>2, ThrewMoves DEF InsertProfile, CallMove
  <2>3. CASE senders[calls[c].sender] = None /\ calls[c].kind = "look"
    BY <1>4, <2>3, ThrewMoves DEF InsertProfile, CallMove
  <2>4. CASE senders[calls[c].sender] = None /\ calls[c].kind # "look"
    <3>1. PICK row, pc : row = [id |-> rows[calls[c].sender] + 1, seen |-> 1]
                         /\ pc = AfterProfile[calls[c].kind]
      OBVIOUS
    <3>2. /\ Go(c, [calls[c] EXCEPT !.pc = pc, !.profile = row])
          /\ senders' = [senders EXCEPT ![calls[c].sender] = row]
      BY <1>4, <2>4, <3>1 DEF InsertProfile
    <3>3. Passes(c, "newProfile", pc) /\ calls'[c].profile = row
      BY <1>2, <2>1, <3>1, <3>2
    <3>4. calls[c].sender \in Senders
      BY <1>1, <2>1 DEF At, HoldSound, OfSender, Profiling, BoxCall
    <3>5. senders'[calls[c].sender] = row
      BY <3>2, <3>4 DEF BoxInv, BoxTables, MailboxTypeOK
    <3> QED  BY <1>4, <3>1, <3>3, <3>5 DEF CallMove
  <2> QED  BY <2>2, <2>3, <2>4
<1> QED  BY <1>3, <1>4 DEF Profiles

LEMMA SpeakMoves ==
  ASSUME BoxInv, NEW c \in Calls, Speaking(c)
  PROVE  CallMove(c)
<1>1. calls \in [Calls -> Shape] /\ calls[c] \in BoxCall /\ KindSound(calls[c])
  BY ShapeOf DEF BoxInv
<1>2. CASE Flag(c) \/ WriteRelation(c) \/ ForgetSenders(c)
  BY <1>2, ThrewMoves DEF Flag, WriteRelation, ForgetSenders, CallMove
<1>3. CASE ReadProject(c) \/ InsertProject(c) \/ ForgetRelations(c)
  <2>1. calls[c].kind # "sync"
    BY <1>1, <1>3 DEF ReadProject, InsertProject, ForgetRelations, At, KindSound, Forgetting
  <2>2. PICK from, to : /\ At(c, from) /\ Goto(c, to)
                        /\ to \in {"newProject", "relation", "forgetSenders"}
    BY <1>3 DEF ReadProject, InsertProject, ForgetRelations
  <2> QED  BY <2>1, <2>2, GotoMoves DEF Passes, CallMove
<1>4. CASE ReadRelation(c)
  <2>1. calls[c].kind # "sync" /\ At(c, "relation")
    BY <1>1, <1>4 DEF ReadRelation, At, KindSound, Relating
  <2>2. PICK row, new : row = relations[calls[c].sender]
                        /\ new = [calls[c] EXCEPT !.pc = "relate", !.relation = row]
    OBVIOUS
  <2>3. /\ new.pc = "relate" /\ new.kind = calls[c].kind /\ new.msg = calls[c].msg
        /\ new.sender = calls[c].sender
    BY <1>1, <2>2 DEF BoxCall
  <2>4. calls' = [calls EXCEPT ![c] = new]
    BY <1>4, <2>2 DEF ReadRelation, Go
  <2> QED  BY <1>1, <2>1, <2>3, <2>4, PassesTo DEF Passes, CallMove
<1> QED  BY <1>2, <1>3, <1>4 DEF Speaking

LEMMA CallMoves ==
  ASSUME BoxInv, NEW c \in Calls, BoxStep(c)
  PROVE  CallMove(c)
<1>1. Stops(c) => CallMove(c)
  BY ThrewMoves DEF CallMove
<1> QED  BY <1>1, BeginMoves, IngestMoves, ProfileMoves, SpeakMoves DEF BoxStep

-----------------------------------------------------------------------------
(* As long as none has begun beside another, the call whose step it is is  *)
(* the only one.                                                           *)
LEMMA LoneStep ==
  ASSUME BoxInv, LoneInv, NEW c \in Calls, BoxStep(c), raced' = 0
  PROVE  /\ raced = 0
         /\ \A d \in Calls : d # c => calls[d].pc = "idle" /\ calls'[d] = calls[d]
<1>1. raced \in Nat
  BY MailboxAssumption DEF BoxInv, BoxTables, MailboxTypeOK
<1>2. \A d \in Calls : d # c => calls'[d] = calls[d]
  BY OthersKept
<1>3. CASE Begins(c)
  <2>1. CountRace
    BY <1>3 DEF Begins, Sync, BeginMutate, BeginLook, BeginRelate, BeginAssociate, BeginForget, Begin
  <2>2. Quiet /\ raced' = raced
    BY <1>1, <2>1 DEF CountRace
  <2> QED  BY <1>2, <2>2 DEF Quiet, At
<1>4. CASE Stops(c)
  BY <1>4, StopTables
<1>5. CASE Ingesting(c) \/ Profiles(c) \/ Speaking(c)
  <2>4. raced' = raced
    <3>1. CASE Ingesting(c)
      BY <3>1 DEF Ingesting, NextMessage, FindEmail, InsertEmail, CountSender, ReadThread,
         CountThread, Saved, Act, OnlyReads, World
    <3>2. CASE Profiles(c)
      BY <3>2 DEF Profiles, ReadProfile, InsertProfile, OnlyReads, World
    <3>3. CASE Speaking(c)
      BY <3>3 DEF Speaking, Flag, ReadProject, InsertProject, ReadRelation, WriteRelation,
         ForgetRelations, ForgetSenders, OnlyReads, World
    <3> QED  BY <1>5, <3>1, <3>2, <3>3
  <2>5. calls[c].pc # "idle"
    <3>1. CASE Ingesting(c)
      BY <3>1 DEF Ingesting, NextMessage, FindEmail, InsertEmail, CountSender, ReadThread,
         CountThread, Saved, Act, At
    <3>2. CASE Profiles(c)
      BY <3>2 DEF Profiles, ReadProfile, InsertProfile, At
    <3>3. CASE Speaking(c)
      BY <3>3 DEF Speaking, Flag, ReadProject, InsertProject, ReadRelation, WriteRelation,
         ForgetRelations, ForgetSenders, At
    <3> QED  BY <1>5, <3>1, <3>2, <3>3
  <2> QED  BY <1>2, <2>4, <2>5 DEF LoneInv, OneCall
<1> QED  BY <1>3, <1>4, <1>5 DEF BoxStep

Still == Arrive \/ (\E m \in Uids : MoveOut(m)) \/ PurgeBodies \/ UNCHANGED boxVars
LEMMA StillKeeps ==
  ASSUME BoxInv, Still
  PROVE  /\ UNCHANGED <<memory, calls, raced, history>>
         /\ \A m \in Uids : Ingested(m)' <=> Ingested(m)
         /\ \A m \in Uids : Ingested(m) => emails'[m].flags = emails[m].flags
<1>1. CASE PurgeBodies
  BY <1>1, PurgedType DEF PurgeBodies, Ingested
<1>2. CASE ~PurgeBodies
  BY <1>2 DEF Still, Arrive, MoveOut, boxVars, Ingested, history
<1> QED  BY <1>1, <1>2

LEMMA ReadSoundStays ==
  ASSUME BoxInv, Still, NEW d \in Calls, ReadSound(calls[d])
  PROVE  ReadSound(calls[d])'
<1>1. PICK r : r = calls[d]
  OBVIOUS
<1>2. r \in BoxCall /\ HoldSound(r) /\ StoreSound(r) /\ ReadSound(r) /\ calls'[d] = r
  BY <1>1, ShapeOf, StillKeeps DEF BoxInv
<1>3. UNCHANGED <<threads, senders>>
  BY StillKeeps DEF memory
<1>4. r.pc = "insert" => r.msg \in Uids
  BY <1>2 DEF HoldSound, BoxCall, Storing
<1>5. r.pc \in {"act", "flag"} => r.msg \in Uids /\ Ingested(r.msg)
  BY <1>2 DEF StoreSound, OfStored, BoxCall
<1>6. ReadSound(r)'
  BY <1>2, <1>3, <1>4, <1>5, StillKeeps DEF ReadSound
<1> QED  BY <1>2, <1>6

LEMMA OwnReads ==
  ASSUME BoxInv, NEW c \in Calls, BoxStep(c)
  PROVE  ReadSound(calls[c])'
<1>1. CallMove(c) /\ calls[c] \in BoxCall /\ KindSound(calls[c])
  BY CallMoves, ShapeOf DEF BoxInv
<1>2. CASE /\ At(c, "idle") /\ calls'[c].kind = "mutate" /\ calls'[c].pc = "flag"
           /\ calls'[c].flags = emails[calls'[c].msg].flags
  <2>1. Begins(c)
    BY <1>2 DEF BoxStep, Ingesting, Profiles, Speaking, Stops, NextMessage, FindEmail, InsertEmail,
       CountSender, ReadThread, CountThread, Saved, Act, ReadProfile, InsertProfile, Flag,
       ReadProject, InsertProject, ReadRelation, WriteRelation, ForgetRelations, ForgetSenders,
       Fail, Crash, At
  <2>2. emails' = emails
    BY <2>1, BeginTables
  <2> QED  BY <1>2, <2>2 DEF ReadSound
<1>3. CASE FindEmail(c) /\ Passes(c, "exists", "insert") /\ ~Ingested(calls[c].msg)
  BY <1>3 DEF FindEmail, OnlyReads, Passes, SameMessage, ReadSound, Ingested
<1>4. CASE ReadProfile(c) /\ Passes(c, "profile", "newProfile") /\ senders[calls[c].sender] = None
  BY <1>4 DEF ReadProfile, OnlyReads, memory, Passes, SameMessage, ReadSound
<1>5. ASSUME Profiles(c), NEW from \in {"profile", "newProfile"},
             Passes(c, from, AfterProfile[calls[c].kind])
      PROVE  /\ calls'[c].pc \in {"seen", "relation", "project", "idle"}
             /\ calls'[c].sender = calls[c].sender
  <2>1. calls[c].kind \in {"sync", "relate", "associate", "look"}
    BY <1>1, <1>5 DEF Passes, At, KindSound, Profiling
  <2> QED  BY <1>5, <2>1 DEF Passes, SameMessage, AfterProfile
<1>6. CASE /\ ReadProfile(c) /\ Passes(c, "profile", AfterProfile[calls[c].kind])
           /\ calls'[c].profile = senders[calls[c].sender]
  <2>1. UNCHANGED senders
    BY <1>6 DEF ReadProfile, OnlyReads, memory
  <2> QED  BY <1>5, <1>6, <2>1 DEF Profiles, ReadSound
<1>7. CASE /\ InsertProfile(c) /\ Passes(c, "newProfile", AfterProfile[calls[c].kind])
           /\ calls'[c].profile = senders'[calls[c].sender]
  BY <1>5, <1>7 DEF Profiles, ReadSound
<1>8. CASE /\ ReadThread(c) /\ Passes(c, "thread", "count")
           /\ calls'[c].thread = threads[ThreadOf(calls[c].msg)]
  BY <1>8 DEF ReadThread, OnlyReads, memory, Passes, SameMessage, ReadSound
<1>9. CASE /\ Saved(c) /\ Passes(c, "saved", "act")
           /\ calls'[c].flags = emails[calls[c].msg].flags
  BY <1>9 DEF Saved, OnlyReads, Passes, SameMessage, ReadSound
<1>10. CASE calls'[c].pc \notin {"insert", "newProfile", "seen", "count", "act", "flag"}
  BY <1>10 DEF ReadSound
<1>11. \/ NextMessage(c) /\ calls'[c].pc = "exists"
       \/ InsertEmail(c) /\ Passes(c, "insert", "profile")
       \/ CountSender(c) /\ Passes(c, "seen", "thread")
       \/ CountThread(c) /\ Passes(c, "count", "saved")
       => calls'[c].pc \notin {"insert", "newProfile", "seen", "count", "act", "flag"}
  BY DEF Passes
<1> QED  BY <1>1, <1>2, <1>3, <1>4, <1>6, <1>7, <1>8, <1>9, <1>10, <1>11 DEF CallMove

LEMMA LoneKept ==
  ASSUME BoxInv, LoneInv, [MailboxNext]_boxVars
  PROVE  LoneInv'
<1>1. CASE Still
  BY <1>1, StillKeeps, ReadSoundStays DEF LoneInv, OneCall
<1>2. ASSUME NEW c \in Calls, BoxStep(c), raced' = 0
      PROVE  OneCall' /\ \A d \in Calls : ReadSound(calls[d])'
  <2>1. \A d \in Calls : d # c => calls'[d].pc = "idle"
    BY <1>2, LoneStep
  <2>2. OneCall'
    BY <2>1 DEF OneCall
  <2>3. ASSUME NEW d \in Calls PROVE ReadSound(calls[d])'
    <3>1. CASE d # c
      BY <2>1, <3>1 DEF ReadSound
    <3> QED  BY <1>2, <3>1, OwnReads
  <2> QED  BY <2>2, <2>3
<1>3. MailboxTypeOK
  BY DEF BoxInv, BoxTables
<1> QED  BY <1>1, <1>2, <1>3, BoxCases DEF LoneInv, Still

-----------------------------------------------------------------------------
(* What the user has said of a message changes when the user marks it. *)
LEMMA SaidMoves ==
  ASSUME BoxInv, NEW c \in Calls, BoxStep(c)
  PROVE  Flag(c) \/ told'.flags = told.flags
<1>1. told \in Told
  BY DEF BoxInv, BoxTables
<1>2. CASE Begins(c) \/ Stops(c)
  BY <1>2 DEF Begins, Sync, BeginMutate, BeginLook, BeginRelate, BeginAssociate, BeginForget,
     Stops, Fail, Crash, history
<1>3. CASE Ingesting(c)
  BY <1>3 DEF Ingesting, NextMessage, FindEmail, InsertEmail, CountSender, ReadThread,
     CountThread, Saved, Act, OnlyReads, history
<1>4. CASE Profiles(c)
  BY <1>4 DEF Profiles, ReadProfile, InsertProfile, OnlyReads, history
<1>5. CASE WriteRelation(c)
  <2>1. Heard(calls[c]).flags = told.flags
    BY <1>1, <1>5, HeardType DEF WriteRelation, At, BoxInv
  <2>2. told' \in {Heard(calls[c]), told}
    BY <1>5 DEF WriteRelation
  <2> QED  BY <2>1, <2>2
<1>6. CASE ForgetRelations(c)
  BY <1>1, <1>6, SaidNothingType DEF ForgetRelations
<1>7. CASE Speaking(c) /\ ~WriteRelation(c) /\ ~ForgetRelations(c)
  BY <1>7 DEF Speaking, ReadProject, InsertProject, ReadRelation, ForgetSenders, OnlyReads, history
<1> QED  BY <1>2, <1>3, <1>4, <1>5, <1>6, <1>7 DEF BoxStep

(* The statement a call's pc names is the one it runs. *)
LEMMA StepNames ==
  ASSUME NEW c \in Calls, NEW d \in Calls, Act(d) \/ Flag(d) \/ InsertEmail(d),
         calls[d].pc # "idle" => d = c
  PROVE  d = c
BY DEF Act, Flag, InsertEmail, At

LEMMA MarksMove ==
  ASSUME BoxInv, LoneInv, MarksInv, NEW c \in Calls, BoxStep(c), [MailboxNext]_boxVars, raced' = 0,
         NEW m \in Uids, told'.flags[m] # None
  PROVE  Ingested(m)' /\ emails'[m].flags = told'.flags[m]
<1>1. raced = 0 /\ \A d \in Calls : d # c => calls[d].pc = "idle"
  BY LoneStep
<1>2. /\ told \in Told /\ emails \in [Uids -> EmailRow \union {None}]
      /\ calls[c] \in BoxCall /\ KindSound(calls[c]) /\ HoldSound(calls[c]) /\ StoreSound(calls[c])
  BY ShapeOf DEF BoxInv, BoxTables, MailboxTypeOK
<1>3. told.flags[m] # None => Ingested(m) /\ emails[m].flags = told.flags[m]
  BY <1>1 DEF MarksInv
<1>4. CASE Flag(c)
  <2>1. PICK u, f, said :
          /\ u = calls[c].msg /\ f = Acted(calls[c].flags, calls[c].action)
          /\ said = Acted(IF told.flags[u] = None THEN calls[c].flags ELSE told.flags[u],
                          calls[c].action)
    OBVIOUS
  <2>2. calls[c].pc = "flag"
    BY <1>4 DEF Flag, At
  <2>3. u \in Uids /\ emails[u] \in EmailRow /\ calls[c].flags = emails[u].flags
    BY <1>1, <1>2, <2>1, <2>2 DEF StoreSound, OfStored, Ingested, LoneInv, ReadSound, BoxCall
  <2>4. said = f
    BY <1>1, <2>1, <2>3 DEF MarksInv
  <2>5. /\ emails' = [emails EXCEPT ![u] = [emails[u] EXCEPT !.flags = f]]
        /\ told' = [told EXCEPT !.flags = [told.flags EXCEPT ![u] = said]]
    BY <1>4, <2>1 DEF Flag
  <2>6. [emails[u] EXCEPT !.flags = f].flags = f
    BY <2>3 DEF EmailRow
  <2>7. told'.flags = [told.flags EXCEPT ![u] = said]
    BY <1>2, <2>5 DEF Told
  <2>8. CASE m = u
    <3>1. emails'[m].flags = f
      BY <1>2, <2>3, <2>5, <2>6, <2>8
    <3>2. told'.flags[m] = said
      BY <1>2, <2>3, <2>7, <2>8 DEF Told
    <3>3. Ingested(m)
      BY <1>2, <2>1, <2>2, <2>8 DEF StoreSound, OfStored
    <3> QED  BY <2>4, <3>1, <3>2, <3>3, StoredStays
  <2>9. CASE m # u
    <3>1. emails'[m] = emails[m] /\ told'.flags[m] = told.flags[m]
      BY <1>2, <2>3, <2>5, <2>7, <2>9 DEF Told
    <3> QED  BY <1>3, <3>1 DEF Ingested
  <2> QED  BY <2>8, <2>9
<1>5. CASE ~Flag(c)
  <2>1. told'.flags[m] = told.flags[m]
    BY <1>5, SaidMoves
  <2>2. Ingested(m) /\ emails[m].flags = told.flags[m] /\ told.flags[m] # None
    BY <1>3, <2>1
  <2>3. ASSUME NEW d \in Calls, Marks(d, m) PROVE FALSE
    <3>1. d = c
      BY <1>1, <2>3, StepNames DEF Marks
    <3>2. Act(c) /\ calls[c].msg = m
      BY <1>5, <2>3, <3>1 DEF Marks
    <3>3. calls[c].pc = "act" /\ calls[c].kind = "sync"
      BY <1>2, <3>2 DEF Act, At, KindSound, SyncOnly
    <3>4. told.flags[m] = None
      BY <1>1, <3>2, <3>3 DEF MarksInv, BoxPcs, SyncOnly
    <3> QED  BY <2>2, <3>4
  <2>4. \A d \in Calls : ~Stores(d, m)
    BY <2>2 DEF Stores, Ingested
  <2>5. emails'[m] # None /\ emails'[m].flags = emails[m].flags
    BY <2>2, <2>3, <2>4, EmailMoves DEF Ingested
  <2> QED  BY <2>1, <2>2, <2>5 DEF Ingested
<1> QED  BY <1>4, <1>5

LEMMA UnsaidKept ==
  ASSUME BoxInv, LoneInv, MarksInv, NEW c \in Calls, BoxStep(c), raced' = 0,
         calls'[c].kind = "sync", calls'[c].pc \in BoxPcs \ {"next", "exists"}
  PROVE  told'.flags[calls'[c].msg] = None
<1>1. raced = 0 /\ CallMove(c) /\ calls[c] \in BoxCall /\ KindSound(calls[c])
      /\ HoldSound(calls[c])
  BY LoneStep, CallMoves, ShapeOf DEF BoxInv
<1>2. calls'[c] \in Shape
  <2>1. calls' \in [Calls -> Shape]
    BY BeginShapes, IngestShapes, ProfileShapes, SpeakingShapes, StopShapes DEF BoxInv, BoxStep
  <2> QED  BY <2>1
<1>3. calls'[c].pc # "idle"
  BY <1>2 DEF Shape, KindSound
<1>4. PICK from, to : /\ Passes(c, from, to) /\ from # "flag"
                      /\ \/ from = "exists" /\ ~Ingested(calls[c].msg)
                         \/ from \in BoxPcs \ {"next", "exists"}
  <2>1. CASE FindEmail(c) /\ Passes(c, "exists", "insert") /\ ~Ingested(calls[c].msg)
    BY <2>1
  <2>2. ASSUME NEW from \in {"insert", "profile", "newProfile", "seen", "thread", "count", "saved"},
               NEW to, Passes(c, from, to)
        PROVE  from # "flag" /\ from \in BoxPcs \ {"next", "exists"}
    BY <2>2 DEF BoxPcs, SyncOnly, Storing, OfSender, Profiling
  <2> QED  BY <1>1, <1>3, <2>1, <2>2 DEF CallMove, SameMessage
<1>5. calls'[c].msg = calls[c].msg /\ calls[c].kind = "sync" /\ calls[c].pc = from
  BY <1>4 DEF Passes, SameMessage, At
<1>6. told'.flags = told.flags
  BY <1>4, <1>5, SaidMoves DEF Flag, At
<1>7. CASE from = "exists" /\ ~Ingested(calls[c].msg)
  <2>1. calls[c].msg \in Uids
    BY <1>1, <1>5, <1>7 DEF HoldSound, Storing, BoxCall
  <2> QED  BY <1>1, <1>5, <1>6, <1>7, <2>1 DEF MarksInv
<1>8. CASE from \in BoxPcs \ {"next", "exists"}
  BY <1>1, <1>5, <1>6, <1>8 DEF MarksInv
<1> QED  BY <1>4, <1>7, <1>8

LEMMA MarksKept ==
  ASSUME BoxInv, LoneInv, MarksInv, [MailboxNext]_boxVars
  PROVE  MarksInv'
<1>1. CASE Still
  BY <1>1, StillKeeps DEF MarksInv, history
<1>2. ASSUME NEW c \in Calls, BoxStep(c), raced' = 0
      PROVE  MarksInv'
  <2>1. \A m \in Uids : told'.flags[m] # None => Ingested(m)' /\ emails'[m].flags = told'.flags[m]
    BY <1>2, MarksMove
  <2>2. ASSUME NEW d \in Calls, calls'[d].kind = "sync", calls'[d].pc \in BoxPcs \ {"next", "exists"}
        PROVE  told'.flags[calls'[d].msg] = None
    <3>1. d # c => calls'[d] = calls[d] /\ calls[d].pc = "idle" /\ KindSound(calls[d])
      BY <1>2, LoneStep, ShapeOf DEF BoxInv
    <3> QED  BY <1>2, <2>2, <3>1, UnsaidKept DEF KindSound
  <2> QED  BY <2>1, <2>2 DEF MarksInv
<1>3. MailboxTypeOK
  BY DEF BoxInv, BoxTables
<1> QED  BY <1>1, <1>2, <1>3, BoxCases DEF MarksInv, Still

LEMMA LoneInit == MailboxInit => LoneInv /\ MarksInv
<1> SUFFICES ASSUME MailboxInit PROVE LoneInv /\ MarksInv
  OBVIOUS
<1>1. \A c \in Calls : calls[c] = IdleCall
  BY DEF MailboxInit
<1>2. \A m \in Uids : told.flags[m] = None
  BY DEF MailboxInit, SaidNothing
<1>3. LoneInv
  BY <1>1, IdleSound DEF LoneInv, OneCall, ReadSound
<1>4. MarksInv
  BY <1>1, <1>2, IdleSound DEF MarksInv
<1> QED  BY <1>3, <1>4

(* As long as the calls of a mailbox come one at a time and none fails,    *)
(* every message is marked as the user has last marked it: no sync and no  *)
(* rule has taken the mark away.                                           *)
THEOREM MarksStayWhenAlone == MailboxSpec => []MarksWhenAlone
<1>1. MarksInv => MarksWhenAlone
  BY DEF MarksInv, MarksWhenAlone
<1>2. MailboxInit => BoxInv /\ LoneInv /\ MarksInv
  BY BoxInit, LoneInit
<1>3. BoxInv /\ LoneInv /\ MarksInv /\ [MailboxNext]_boxVars => (BoxInv /\ LoneInv /\ MarksInv)'
  BY BoxKept, LoneKept, MarksKept
<1> QED  BY <1>1, <1>2, <1>3, PTL DEF MailboxSpec

-----------------------------------------------------------------------------
(* Counting one message more. *)
LEMMA UidsFinite ==
  ASSUME NEW S \in SUBSET Uids
  PROVE  /\ IsFiniteSet(S) /\ Cardinality(S) \in Nat
         /\ Cardinality(S) = 0 <=> S = {}
<1>1. IsFiniteSet(Uids)
  BY FS_Interval, MailboxAssumption DEF Uids
<1>2. IsFiniteSet(S)
  BY <1>1, FS_Subset
<1> QED  BY <1>2, FS_CardinalityType, FS_EmptySet

LEMMA CardinalityAdd ==
  ASSUME NEW S \in SUBSET Uids, NEW m \in Uids, m \notin S
  PROVE  Cardinality(S \union {m}) = Cardinality(S) + 1
BY UidsFinite, FS_AddElement

LEMMA CountOfAdd ==
  ASSUME NEW S \in SUBSET Uids, NEW m \in Uids, m \notin S
  PROVE  CountOf(S \union {m}) = Counted(CountOf(S))
<1>1. S \union {m} # {} /\ Cardinality(S \union {m}) = Cardinality(S) + 1
  BY CardinalityAdd
<1>2. CASE S = {}
  <2>1. Cardinality(S) = 0
    BY <1>2, UidsFinite
  <2> QED  BY <1>1, <1>2, <2>1 DEF CountOf, Counted
<1>3. CASE S # {}
  <2>1. Cardinality(S) # None
    BY UidsFinite, MailboxNoneAssumption
  <2> QED  BY <1>1, <1>3, <2>1 DEF CountOf, Counted
<1> QED  BY <1>2, <1>3

(* Which tables of counts a step changes. *)
LEMMA CountMoves ==
  ASSUME NEW c \in Calls, BoxStep(c)
  PROVE  /\ CountThread(c) \/ threads' = threads
         /\ CountSender(c) \/ ForgetSenders(c) \/ since' = since
         /\ CountSender(c) \/ ForgetSenders(c) \/ InsertProfile(c) \/ senders' = senders
<1>1. CASE Begins(c) \/ Stops(c)
  BY <1>1 DEF Begins, Sync, BeginMutate, BeginLook, BeginRelate, BeginAssociate, BeginForget,
     Stops, Fail, Crash, memory, history
<1>2. CASE Ingesting(c)
  BY <1>2 DEF Ingesting, NextMessage, FindEmail, InsertEmail, CountSender, ReadThread,
     CountThread, Saved, Act, OnlyReads, memory, history
<1>3. CASE Profiles(c)
  BY <1>3 DEF Profiles, ReadProfile, InsertProfile, OnlyReads, memory, history
<1>4. CASE Speaking(c)
  BY <1>4 DEF Speaking, Flag, ReadProject, InsertProject, ReadRelation, WriteRelation,
     ForgetRelations, ForgetSenders, OnlyReads, memory, history
<1> QED  BY <1>1, <1>2, <1>3, <1>4 DEF BoxStep

(* The one call there is counts its message in the end, or none is stored. *)
Own(c, m) == Uncounted(calls[c]) /\ calls[c].msg = m
LEMMA OwnMoves ==
  ASSUME BoxInv, LoneInv, NEW c \in Calls, BoxStep(c), raced' = 0
  PROVE  \/ \A m \in Uids : Own(c, m)' <=> Own(c, m)
         \/ InsertEmail(c) /\ Passes(c, "insert", "profile") /\ ~Ingested(calls[c].msg)
         \/ CountThread(c) /\ Passes(c, "count", "saved")
<1>1. PICK r : r = calls[c]
  OBVIOUS
<1>2. /\ raced = 0 /\ CallMove(c) /\ r \in BoxCall /\ KindSound(r) /\ HoldSound(r)
      /\ ReadSound(r)
  BY <1>1, LoneStep, CallMoves, ShapeOf DEF BoxInv, LoneInv
<1>3. calls' \in [Calls -> Shape]
  BY BeginShapes, IngestShapes, ProfileShapes, SpeakingShapes, StopShapes DEF BoxInv, BoxStep
<1>4. calls'[c] \in BoxCall /\ KindSound(calls'[c])
  BY <1>3 DEF Shape
<1>5. CASE Uncounted(r)
  <2>1. r.kind = "sync" /\ r.pc \in Uncounting
    BY <1>5 DEF Uncounted
  <2>2. ~Stops(c)
    BY StopTables
  <2>3. ReadProfile(c) \/ InsertProfile(c) \/ CountSender(c) \/ ReadThread(c) \/ CountThread(c)
    <3>1. ~Begins(c)
      BY <1>1, <2>1 DEF Begins, Sync, BeginMutate, BeginLook, BeginRelate, BeginAssociate,
         BeginForget, Begin, At, Uncounting, Profiling
    <3>2. Speaking(c) => FALSE
      BY <1>1, <2>1 DEF Speaking, Flag, ReadProject, InsertProject, ReadRelation, WriteRelation,
         ForgetRelations, ForgetSenders, At, Uncounting, Profiling
    <3>3. Ingesting(c) => CountSender(c) \/ ReadThread(c) \/ CountThread(c)
      BY <1>1, <2>1 DEF Ingesting, NextMessage, FindEmail, InsertEmail, Saved, Act, At, Uncounting,
         Profiling
    <3> QED  BY <2>2, <3>1, <3>2, <3>3 DEF BoxStep, Profiles
  <2>4. calls'[c].pc \notin {"idle", "next"}
    <3>1. ASSUME NEW new, calls' = [calls EXCEPT ![c] = new], new.pc \notin {"idle", "next"}
          PROVE  calls'[c].pc \notin {"idle", "next"}
      BY <3>1 DEF BoxInv
    <3>2. ASSUME NEW to, to \notin {"idle", "next"}, Goto(c, to)
          PROVE  calls'[c].pc \notin {"idle", "next"}
      <4>1. PICK new : new = [r EXCEPT !.pc = to]
        OBVIOUS
      <4>2. new.pc = to
        BY <1>2, <4>1 DEF BoxCall
      <4>3. calls' = [calls EXCEPT ![c] = new]
        BY <1>1, <3>2, <4>1 DEF Goto
      <4> QED  BY <3>1, <3>2, <4>2, <4>3
    <3>3. ASSUME NEW row, Go(c, [r EXCEPT !.pc = AfterProfile["sync"], !.profile = row])
          PROVE  calls'[c].pc \notin {"idle", "next"}
      <4>1. PICK new : new = [r EXCEPT !.pc = AfterProfile["sync"], !.profile = row]
        OBVIOUS
      <4>2. new.pc = AfterProfile["sync"] /\ AfterProfile["sync"] = "seen"
        BY <1>2, <4>1 DEF BoxCall, AfterProfile
      <4> QED  BY <3>1, <3>3, <4>1, <4>2 DEF Go
    <3>4. CASE ReadProfile(c)
      BY <1>1, <2>1, <3>2, <3>3, <3>4 DEF ReadProfile
    <3>5. CASE InsertProfile(c)
      <4>1. senders[r.sender] = None
        BY <1>1, <1>2, <3>5 DEF InsertProfile, At, ReadSound
      <4>2. PICK row : row = [id |-> rows[r.sender] + 1, seen |-> 1]
        OBVIOUS
      <4> QED  BY <1>1, <2>1, <3>3, <3>5, <4>1, <4>2 DEF InsertProfile
    <3>6. CASE CountSender(c)
      <4>1. PICK new : new = [r EXCEPT !.pc = "thread", !.profile = None]
        OBVIOUS
      <4>2. new.pc = "thread"
        BY <1>2, <4>1 DEF BoxCall
      <4> QED  BY <1>1, <3>1, <3>6, <4>1, <4>2 DEF CountSender, Go
    <3>7. CASE ReadThread(c)
      <4>1. PICK n, new : n = threads[ThreadOf(r.msg)] /\ new = [r EXCEPT !.pc = "count", !.thread = n]
        OBVIOUS
      <4>2. new.pc = "count"
        BY <1>2, <4>1 DEF BoxCall
      <4> QED  BY <1>1, <3>1, <3>7, <4>1, <4>2 DEF ReadThread, Go
    <3>8. CASE CountThread(c)
      <4>1. r.thread = threads[ThreadOf(r.msg)]
        BY <1>1, <1>2, <3>8 DEF CountThread, At, ReadSound
      <4>2. PICK new : new = [r EXCEPT !.pc = "saved", !.thread = None]
        OBVIOUS
      <4>3. new.pc = "saved"
        BY <1>2, <4>2 DEF BoxCall
      <4>4. Go(c, new)
        BY <1>1, <3>8, <4>1, <4>2 DEF CountThread
      <4> QED  BY <3>1, <4>3, <4>4 DEF Go
    <3> QED  BY <2>3, <3>4, <3>5, <3>6, <3>7, <3>8
  <2>5. ASSUME NEW from, NEW to \in Uncounting, Passes(c, from, to)
        PROVE  \A m \in Uids : Own(c, m)' <=> Own(c, m)
    BY <1>1, <1>5, <2>1, <2>5 DEF Passes, SameMessage, Own, Uncounted
  <2>6. AfterProfile["sync"] = "seen"
    BY DEF AfterProfile
  <2>7. \/ CountThread(c) /\ Passes(c, "count", "saved")
        \/ \E from, to : to \in Uncounting /\ Passes(c, from, to)
    BY <1>1, <1>2, <2>1, <2>4, <2>6 DEF CallMove, Passes, At, NextMessage, Uncounting, Profiling
  <2> QED  BY <2>5, <2>7
<1>6. CASE ~Uncounted(r)
  <2>1. \/ ~Uncounted(calls'[c])
        \/ InsertEmail(c) /\ Passes(c, "insert", "profile") /\ ~Ingested(calls[c].msg)
        \/ CountThread(c) /\ Passes(c, "count", "saved")
    <3>1. ASSUME Uncounted(calls'[c]), NEW from \in {"seen", "thread", "profile", "newProfile"}, NEW to,
                 Passes(c, from, to)
          PROVE  FALSE
      BY <1>1, <1>6, <3>1 DEF Passes, SameMessage, Uncounted, Uncounting, Profiling, At
    <3>2. ASSUME Uncounted(calls'[c])
          PROVE  calls'[c].pc \in Uncounting /\ calls'[c].kind = "sync"
      BY <3>2 DEF Uncounted
    <3> QED  BY <1>2, <3>1, <3>2 DEF CallMove, Passes, SameMessage, Uncounting, Profiling
  <2> QED  BY <1>1, <1>6, <2>1 DEF Own
<1> QED  BY <1>5, <1>6

(* What counts a thread: beside the one call's message, the stored ones. *)
LEMMA CountedAlone ==
  ASSUME NEW c \in Calls, \A d \in Calls : d # c => ~Uncounted(calls[d]), NEW t
  PROVE  CountedOf(t) = {m \in Uids : Ingested(m) /\ ThreadOf(m) = t /\ ~Own(c, m)}
BY DEF CountedOf, Own

LEMMA CountedStays ==
  ASSUME BoxInv, LoneInv, NEW c \in Calls, BoxStep(c), [MailboxNext]_boxVars, raced' = 0, NEW t,
         ~CountThread(c)
  PROVE  CountedOf(t)' = CountedOf(t)
<1>1. \A d \in Calls : d # c => calls[d].pc = "idle" /\ calls'[d] = calls[d]
  BY LoneStep
<1>2. \A d \in Calls : d # c => ~Uncounted(calls[d]) /\ ~Uncounted(calls'[d])
  BY <1>1 DEF Uncounted, Uncounting, Profiling
<1>3. CountedOf(t) = {m \in Uids : Ingested(m) /\ ThreadOf(m) = t /\ ~Own(c, m)}
  BY <1>2, CountedAlone
<1>4. CountedOf(t)' = {m \in Uids : Ingested(m)' /\ ThreadOf(m) = t /\ ~Own(c, m)'}
  BY <1>2 DEF CountedOf, Own
<1>5. ASSUME NEW m \in Uids PROVE Ingested(m)' /\ ~Own(c, m)' <=> Ingested(m) /\ ~Own(c, m)
  <2>1. CASE InsertEmail(c) /\ Passes(c, "insert", "profile") /\ ~Ingested(calls[c].msg)
    <3>1. calls[c].pc = "insert" /\ calls'[c].pc = "profile" /\ calls'[c].kind = calls[c].kind
          /\ calls'[c].msg = calls[c].msg
      BY <2>1 DEF Passes, SameMessage, At
    <3>2. calls[c].kind = "sync"
      BY <3>1, ShapeOf DEF BoxInv, KindSound, SyncOnly, Storing
    <3>3. ~Own(c, m)
      BY <3>1 DEF Own, Uncounted, Uncounting, Profiling
    <3>4. Own(c, m)' <=> calls[c].msg = m
      BY <3>1, <3>2 DEF Own, Uncounted, Uncounting, Profiling
    <3>5. calls[c].msg # m => (Ingested(m)' <=> Ingested(m))
      <4>1. emails' = [emails EXCEPT ![calls[c].msg] = [flags |-> NewFlags, body |-> TRUE]]
        BY <2>1 DEF InsertEmail, Ingested
      <4> QED  BY <4>1 DEF Ingested, BoxInv, BoxTables, MailboxTypeOK
    <3> QED  BY <2>1, <3>3, <3>4, <3>5
  <2>2. CASE ~(InsertEmail(c) /\ Passes(c, "insert", "profile") /\ ~Ingested(calls[c].msg))
    <3>1. Own(c, m)' <=> Own(c, m)
      BY <2>2, OwnMoves
    <3>2. Ingested(m)' <=> Ingested(m)
      <4>1. CASE emails'[m] = emails[m]
        BY <4>1 DEF Ingested
      <4>2. ASSUME NEW d \in Calls, Stores(d, m) PROVE FALSE
        <5>1. d = c
          BY <1>1, <4>2, StepNames DEF Stores
        <5>2. InsertEmail(c) /\ emails[calls[c].msg] = None
          BY <4>2, <5>1 DEF Stores
        <5>3. Goto(c, "profile") /\ At(c, "insert")
          BY <5>2 DEF InsertEmail
        <5>4. Passes(c, "insert", "profile")
          BY <5>3, GotoMoves
        <5> QED  BY <2>2, <5>2, <5>4 DEF Ingested
      <4> QED  BY <4>1, <4>2, EmailMoves DEF Ingested, Marks
    <3> QED  BY <3>1, <3>2
  <2> QED  BY <2>1, <2>2
<1> QED  BY <1>3, <1>4, <1>5

LEMMA ThreadsKept ==
  ASSUME BoxInv, LoneInv, CountsInv, NEW c \in Calls, BoxStep(c), [MailboxNext]_boxVars, raced' = 0,
         NEW t \in Threads
  PROVE  threads'[t] = CountOf(CountedOf(t)')
<1>1. raced = 0 /\ threads[t] = CountOf(CountedOf(t))
  BY LoneStep DEF CountsInv
<1>2. CASE ~CountThread(c)
  BY <1>1, <1>2, CountMoves, CountedStays
<1>3. CASE CountThread(c)
  <2>1. PICK r : r = calls[c]
    OBVIOUS
  <2>2. r \in BoxCall /\ KindSound(r) /\ HoldSound(r) /\ StoreSound(r) /\ ReadSound(r) /\ r.pc = "count"
    BY <1>1, <1>3, <2>1, ShapeOf DEF BoxInv, LoneInv, CountThread, At
  <2>3. r.kind = "sync" /\ r.msg \in Uids /\ Ingested(r.msg) /\ r.thread = threads[ThreadOf(r.msg)]
    BY <2>2 DEF KindSound, SyncOnly, StoreSound, OfStored, Uncounted, Uncounting, ReadSound, BoxCall
  <2>4. Uncounted(r)
    BY <2>2, <2>3 DEF Uncounted, Uncounting
  <2>5. threads' = [threads EXCEPT ![ThreadOf(r.msg)] = Counted(r.thread)]
        /\ Go(c, [r EXCEPT !.pc = "saved", !.thread = None])
    BY <1>3, <2>1, <2>3 DEF CountThread
  <2>6. calls'[c].pc = "saved"
    <3>1. PICK new : new = [r EXCEPT !.pc = "saved", !.thread = None]
      OBVIOUS
    <3>2. new.pc = "saved"
      BY <2>2, <3>1 DEF BoxCall
    <3> QED  BY <2>5, <3>1, <3>2 DEF Go, BoxInv
  <2>7. emails' = emails
    BY <1>3 DEF CountThread, World
  <2>8. \A d \in Calls : d # c => ~Uncounted(calls[d]) /\ ~Uncounted(calls'[d])
    BY LoneStep DEF Uncounted, Uncounting, Profiling
  <2>9. \A m \in Uids : Own(c, m) <=> m = r.msg
    BY <2>1, <2>4 DEF Own
  <2>10. \A m \in Uids : ~Own(c, m)'
    BY <2>6 DEF Own, Uncounted, Uncounting, Profiling
  <2>11. CountedOf(t) = {m \in Uids : Ingested(m) /\ ThreadOf(m) = t /\ m # r.msg}
    BY <2>8, <2>9, CountedAlone
  <2>12. CountedOf(t)' = {m \in Uids : Ingested(m) /\ ThreadOf(m) = t}
    BY <2>7, <2>8, <2>10 DEF CountedOf, Own, Ingested
  <2>13. CASE ThreadOf(r.msg) = t
    <3>1. PICK S : S = CountedOf(t)
      OBVIOUS
    <3>2. S \in SUBSET Uids /\ r.msg \notin S /\ CountedOf(t)' = S \union {r.msg}
      BY <2>3, <2>11, <2>12, <2>13, <3>1
    <3>3. CountOf(S \union {r.msg}) = Counted(CountOf(S))
      BY <2>3, <3>2, CountOfAdd
    <3>4. threads'[t] = Counted(threads[t])
      BY <2>3, <2>5, <2>13 DEF BoxInv, BoxTables, MailboxTypeOK
    <3> QED  BY <1>1, <3>1, <3>2, <3>3, <3>4
  <2>14. CASE ThreadOf(r.msg) # t
    <3>1. CountedOf(t)' = CountedOf(t)
      BY <2>11, <2>12, <2>14
    <3>2. threads'[t] = threads[t]
      BY <2>5, <2>14 DEF BoxInv, BoxTables, MailboxTypeOK
    <3> QED  BY <1>1, <3>1, <3>2
  <2> QED  BY <2>13, <2>14
<1> QED  BY <1>2, <1>3

LEMMA SendersKept ==
  ASSUME BoxInv, LoneInv, CountsInv, NEW c \in Calls, BoxStep(c), [MailboxNext]_boxVars, raced' = 0
  PROVE  /\ \A s \in Senders : IF senders'[s] = None THEN SinceOf(s)' = {}
                               ELSE senders'[s].seen = 1 + Cardinality(SinceOf(s)')
         /\ \A m \in since' : Ingested(m)'
<1>1. PICK r : r = calls[c]
  OBVIOUS
<1>2. /\ raced = 0 /\ r \in BoxCall /\ KindSound(r) /\ HoldSound(r) /\ StoreSound(r) /\ ReadSound(r)
      /\ senders \in [Senders -> ProfileRow \union {None}] /\ since \subseteq Uids
  BY <1>1, LoneStep, ShapeOf DEF BoxInv, LoneInv, BoxTables, MailboxTypeOK
<1>3. /\ \A s \in Senders : IF senders[s] = None THEN SinceOf(s) = {}
                            ELSE senders[s].seen = 1 + Cardinality(SinceOf(s))
      /\ \A m \in since : Ingested(m)
  BY <1>2 DEF CountsInv
<1>4. \A m \in Uids : Ingested(m) => Ingested(m)'
  BY StoredStays
<1>5. CASE senders' = senders /\ since' = since
  BY <1>2, <1>3, <1>4, <1>5 DEF SinceOf
<1>6. CASE ForgetSenders(c)
  BY <1>6 DEF ForgetSenders, SinceOf
<1>7. CASE InsertProfile(c)
  <2>1. senders[r.sender] = None /\ r.sender \in Senders
    BY <1>1, <1>2, <1>7 DEF InsertProfile, At, ReadSound, HoldSound, OfSender, Profiling, BoxCall
  <2>2. PICK s, row : s = r.sender /\ row = [id |-> rows[s] + 1, seen |-> 1]
    OBVIOUS
  <2>3. senders' = [senders EXCEPT ![s] = row] /\ since' = since
    BY <1>1, <1>7, <2>1, <2>2 DEF InsertProfile
  <2>4. row.seen = 1 /\ SinceOf(s) = {} /\ Cardinality({}) = 0
    BY <1>3, <2>1, <2>2, FS_EmptySet
  <2>5. \A u \in Senders : SinceOf(u)' = SinceOf(u)
    BY <2>3 DEF SinceOf
  <2>6. ASSUME NEW u \in Senders
        PROVE  IF senders'[u] = None THEN SinceOf(u)' = {}
               ELSE senders'[u].seen = 1 + Cardinality(SinceOf(u)')
    <3>1. CASE u = s
      <4>1. senders'[u] = row
        BY <1>2, <2>3, <3>1
      <4> QED  BY <2>4, <2>5, <3>1, <4>1
    <3>2. CASE u # s
      BY <1>2, <1>3, <2>3, <2>5, <3>2
    <3> QED  BY <3>1, <3>2
  <2> QED  BY <1>2, <1>3, <1>4, <2>3, <2>6
<1>8. CASE CountSender(c)
  <2>1. r.pc = "seen" /\ r.kind = "sync"
    BY <1>1, <1>2, <1>8 DEF CountSender, At, KindSound, SyncOnly
  <2>2. /\ r.sender \in Senders /\ r.profile = senders[r.sender] /\ r.profile \in ProfileRow
        /\ r.msg \in Uids /\ Ingested(r.msg) /\ r.sender = SenderOf(r.msg)
    BY <1>2, <2>1 DEF ReadSound, HoldSound, OfSender, Profiling, StoreSound, OfStored, Uncounted,
       Uncounting, BoxCall
  <2>3. r.msg \notin since
    BY <1>1, <1>2, <2>1 DEF CountsInv
  <2>4. PICK s, n : s = r.sender /\ n = r.profile.seen + 1
    OBVIOUS
  <2>5. HasProfile(r)
    BY <2>2, MailboxRowAssumption DEF HasProfile
  <2>6. /\ senders' = [senders EXCEPT ![s] = [senders[s] EXCEPT !.seen = n]]
        /\ since' = since \union {r.msg}
    BY <1>1, <1>8, <2>4, <2>5 DEF CountSender, Seen
  <2>7. [senders[s] EXCEPT !.seen = n] \in ProfileRow /\ [senders[s] EXCEPT !.seen = n].seen = n
    BY <2>2, <2>4 DEF ProfileRow
  <2>8. senders'[s].seen = n /\ senders'[s] # None
    <3>1. senders'[s] = [senders[s] EXCEPT !.seen = n]
      BY <1>2, <2>2, <2>4, <2>6
    <3> QED  BY <2>7, <3>1, MailboxRowAssumption
  <2>9. PICK S : S = SinceOf(s)
    OBVIOUS
  <2>10. S \in SUBSET Uids /\ r.msg \notin S /\ SinceOf(s)' = S \union {r.msg}
    BY <1>2, <2>2, <2>3, <2>4, <2>6, <2>9 DEF SinceOf
  <2>11. senders[s].seen = 1 + Cardinality(S)
    BY <1>3, <2>2, <2>4, <2>9, MailboxRowAssumption
  <2>12. Cardinality(S \union {r.msg}) = Cardinality(S) + 1 /\ Cardinality(S) \in Nat
    BY <2>2, <2>10, CardinalityAdd, UidsFinite
  <2>13. n = 1 + Cardinality(SinceOf(s)')
    BY <2>2, <2>4, <2>10, <2>11, <2>12
  <2>14. ASSUME NEW u \in Senders, u # s
         PROVE  SinceOf(u)' = SinceOf(u) /\ senders'[u] = senders[u]
    BY <1>2, <2>2, <2>4, <2>6, <2>14 DEF SinceOf
  <2>15. \A u \in Senders : IF senders'[u] = None THEN SinceOf(u)' = {}
                            ELSE senders'[u].seen = 1 + Cardinality(SinceOf(u)')
    BY <1>3, <2>8, <2>13, <2>14
  <2>16. \A m \in since' : Ingested(m)'
    BY <1>2, <1>3, <1>4, <2>2, <2>6
  <2> QED  BY <2>15, <2>16
<1>9. since' # since => CountSender(c) \/ ForgetSenders(c)
  BY CountMoves
<1> QED  BY <1>5, <1>6, <1>7, <1>8, <1>9, CountMoves

(* A sync that has yet to count its sender has not counted it. *)
LEMMA UnseenKept ==
  ASSUME BoxInv, LoneInv, CountsInv, NEW c \in Calls, BoxStep(c), raced' = 0,
         calls'[c].kind = "sync", calls'[c].pc \in Profiling \union {"seen"}
  PROVE  calls'[c].msg \notin since'
<1>1. /\ raced = 0 /\ CallMove(c) /\ calls[c] \in BoxCall /\ KindSound(calls[c])
      /\ HoldSound(calls[c])
  BY LoneStep, CallMoves, ShapeOf DEF BoxInv
<1>2. calls'[c].pc \in {"profile", "newProfile", "seen"}
  BY DEF Profiling
<1>3. CASE InsertEmail(c) /\ Passes(c, "insert", "profile") /\ ~Ingested(calls[c].msg)
  <2>1. calls'[c].msg = calls[c].msg /\ since' = since
    BY <1>3 DEF Passes, SameMessage, InsertEmail
  <2> QED  BY <1>1, <1>3, <2>1 DEF CountsInv
<1>4. CASE ReadProfile(c) \/ InsertProfile(c)
  <2>1. calls[c].pc \in Profiling /\ since' = since
    BY <1>4 DEF ReadProfile, InsertProfile, At, Profiling, OnlyReads, history
  <2>2. SameMessage(c)
    BY <1>1, <1>2, <1>4, <2>1 DEF CallMove, Passes, At, Profiling, ReadProfile, InsertProfile
  <2> QED  BY <1>1, <2>1, <2>2 DEF SameMessage, CountsInv
<1> QED  BY <1>1, <1>2, <1>3, <1>4 DEF CallMove, Passes, SameMessage

LEMMA CountsKept ==
  ASSUME BoxInv, LoneInv, CountsInv, [MailboxNext]_boxVars
  PROVE  CountsInv'
<1>1. CASE Still
  <2>1. /\ UNCHANGED <<threads, senders, calls, raced, since>>
        /\ \A m \in Uids : Ingested(m)' <=> Ingested(m)
    BY <1>1, StillKeeps DEF memory, history
  <2>2. \A t \in Threads : CountedOf(t)' = CountedOf(t)
    BY <2>1 DEF CountedOf
  <2>3. \A s \in Senders : SinceOf(s)' = SinceOf(s)
    BY <2>1 DEF SinceOf
  <2>4. since \subseteq Uids
    BY DEF BoxInv, BoxTables
  <2> QED  BY <2>1, <2>2, <2>3, <2>4 DEF CountsInv
<1>2. ASSUME NEW c \in Calls, BoxStep(c), raced' = 0
      PROVE  CountsInv'
  <2>1. \A t \in Threads : threads'[t] = CountOf(CountedOf(t)')
    BY <1>2, ThreadsKept
  <2>2. /\ \A s \in Senders : IF senders'[s] = None THEN SinceOf(s)' = {}
                              ELSE senders'[s].seen = 1 + Cardinality(SinceOf(s)')
        /\ \A m \in since' : Ingested(m)'
    BY <1>2, SendersKept
  <2>3. ASSUME NEW d \in Calls, calls'[d].kind = "sync", calls'[d].pc \in Profiling \union {"seen"}
        PROVE  calls'[d].msg \notin since'
    <3>1. d # c => calls'[d].pc = "idle"
      BY <1>2, LoneStep
    <3> QED  BY <1>2, <2>3, <3>1, UnseenKept DEF Profiling
  <2>4. \A t : CountOf(CountedOf(t))' = CountOf(CountedOf(t)')
    BY DEF CountOf
  <2> QED  BY <2>1, <2>2, <2>3, <2>4 DEF CountsInv
<1>3. MailboxTypeOK
  BY DEF BoxInv, BoxTables
<1> QED  BY <1>1, <1>2, <1>3, BoxCases DEF CountsInv, Still

LEMMA CountsInit == MailboxInit => CountsInv
<1> SUFFICES ASSUME MailboxInit PROVE CountsInv
  OBVIOUS
<1>1. \A c \in Calls : calls[c] = IdleCall
  BY DEF MailboxInit
<1>2. \A t \in Threads : CountedOf(t) = {} /\ threads[t] = None
  BY DEF MailboxInit, CountedOf, Ingested
<1>3. \A s \in Senders : SinceOf(s) = {} /\ senders[s] = None
  BY DEF MailboxInit, SinceOf
<1> QED  BY <1>1, <1>2, <1>3, IdleSound DEF CountsInv, CountOf, MailboxInit

(* As long as the calls of a mailbox come one at a time and none fails, a  *)
(* thread counts exactly its stored messages, and a sender those counted   *)
(* since the memory was last deleted and one more.                         *)
THEOREM CountsHoldWhenAlone == MailboxSpec => []CountsWhenAlone
<1>1. BoxInv /\ CountsInv => CountsWhenAlone
  <2> SUFFICES ASSUME BoxInv, CountsInv, raced = 0, Quiet PROVE CountsWhenAlone
    BY DEF CountsWhenAlone
  <2>1. \A c \in Calls : ~Uncounted(calls[c])
    BY DEF Quiet, At, Uncounted, Uncounting, Profiling
  <2>2. ASSUME NEW t \in Threads
        PROVE  LET n == Cardinality({m \in Uids : Ingested(m) /\ ThreadOf(m) = t}) IN
                 threads[t] = IF n = 0 THEN None ELSE n
    <3>1. CountedOf(t) = {m \in Uids : Ingested(m) /\ ThreadOf(m) = t}
      BY <2>1 DEF CountedOf
    <3>2. PICK S : S = CountedOf(t)
      OBVIOUS
    <3>3. S \in SUBSET Uids
      BY <3>1, <3>2
    <3>4. Cardinality(S) = 0 <=> S = {}
      BY <3>3, UidsFinite
    <3>5. threads[t] = CountOf(S)
      BY <3>2 DEF CountsInv
    <3> QED  BY <3>1, <3>2, <3>4, <3>5 DEF CountOf
  <2>3. ASSUME NEW s \in Senders, senders[s] # None
        PROVE  senders[s].seen = 1 + Cardinality({m \in since : SenderOf(m) = s})
    BY <2>3 DEF CountsInv, SinceOf
  <2> QED  BY <2>2, <2>3 DEF CountsWhenAlone
<1>2. MailboxInit => BoxInv /\ LoneInv /\ CountsInv
  BY BoxInit, LoneInit, CountsInit
<1>3. BoxInv /\ LoneInv /\ CountsInv /\ [MailboxNext]_boxVars
        => (BoxInv /\ LoneInv /\ CountsInv)'
  BY BoxKept, LoneKept, CountsKept
<1> QED  BY <1>1, <1>2, <1>3, PTL DEF MailboxSpec
-----------------------------------------------------------------------------
(* MailPolicies.  A stored rule is a row of values that were asked for, or *)
(* of a preset, whose rules are all for a class of mail.                   *)
Wanted == Inputs \union {Understood(p) : p \in Prompts}
Targets == {w.target : w \in Wanted} \union LevelNames
Outcomes == {w.action : w \in Wanted} \union {PresetAction(p, l) : p \in Presets, l \in LevelNames}
RuleRow ==
  [scope : Scopes, target : Targets, action : Outcomes, min : Nat \ {0}, priority : Nat \ {0},
   preset : BOOLEAN, name : Presets \union {None}, enabled : BOOLEAN, created : 0..MaxWrites]
PresetSound(r) == r.preset => r.scope = "classification"
GoodRow == {r \in RuleRow : PresetSound(r)}

PolicyKinds == {"idle", "set", "look", "tell", "onboard", "reset", "register", "ingest"}
PolicyStatements ==
  {"idle", "find", "update", "insert", "prefs", "seed", "store", "wipe", "fill", "rules", "act"}
PolicyRow ==
  [kind : PolicyKinds, pc : PolicyStatements, id : Ids \union {None}, input : Wanted \union {None},
   min : Nat, now : 0..MaxWrites, preset : Presets \union {None}, left : 0..Len(Levels),
   msg : Messages \union {None}, read : SUBSET GoodRow,
   choice : Choices \union {None}, seen : Choices \union {None}]

(* What a call holds: a setting one the input it sets, an ingestion its    *)
(* message.                                                                *)
SettingSound(call) ==
  /\ call.pc \in {"find", "update", "insert"} => call.kind = "set" /\ call.input \in Wanted
  /\ call.pc \in {"find", "update"} => call.id \in Ids
  /\ call.pc = "update" => call.min # 0
IngestSound(call) ==
  /\ call.pc \in {"rules", "act"} => call.kind = "ingest"
  /\ call.kind = "ingest" => call.msg \in Messages
PolicyShape == {call \in PolicyRow : SettingSound(call) /\ IngestSound(call)}

PrefsSound == prefs.preset \in Presets /\ prefs.settings \in Choices \union {None}

RuleInv ==
  /\ DOMAIN rules \subseteq Ids /\ rules = [i \in DOMAIN rules |-> rules[i]]
  /\ \A i \in DOMAIN rules : rules[i] \in GoodRow
  /\ own \subseteq {i \in DOMAIN rules : ~rules[i].preset}
CallsInv ==
  /\ calls \in [Calls -> PolicyShape]
  /\ \A c \in Calls : calls[c].kind = "ingest" => calls[c].msg \in ingested
PrefsInv ==
  /\ prefs # None => PrefsSound
  /\ \A c \in Calls : calls[c].pc = "store" => PrefsSound
PolicyInv ==
  /\ RuleInv /\ CallsInv /\ PrefsInv
  /\ writes \in 0..MaxWrites
  /\ acted \in [Messages -> {acted[m] : m \in Messages}]
  /\ {m \in Messages : acted[m] # None} \subseteq ingested

-----------------------------------------------------------------------------
(* The scopes of evaluatePolicies, in the order its loops look for them:   *)
(* every scope but a project's is looked for, and those of a later loop    *)
(* are less specific.                                                      *)
LEMMA StepScopes ==
  /\ Len(Steps) = 7
  /\ Steps[1] = {"message", "thread"} /\ Steps[2] = {"sender", "domain"}
  /\ Steps[3] = {"relationship"} /\ Steps[4] = {"organization"} /\ Steps[5] = {"account"}
  /\ Steps[6] = {"classification"} /\ Steps[7] = {"global"}
BY DEF Steps

LEMMA EveryScopeHasAStep ==
  ASSUME NEW s \in Scopes \ {"project"}
  PROVE  \E k \in 1..Len(Steps) : s \in Steps[k]
<1>1. CASE s \in {"message", "thread"}
  <2>1. s \in Steps[1] /\ 1 \in 1..Len(Steps)
    BY <1>1, StepScopes
  <2>2. QED  BY <2>1
<1>2. CASE s \in {"sender", "domain"}
  <2>1. s \in Steps[2] /\ 2 \in 1..Len(Steps)
    BY <1>2, StepScopes
  <2>2. QED  BY <2>1
<1>3. CASE s = "relationship"
  <2>1. s \in Steps[3] /\ 3 \in 1..Len(Steps)
    BY <1>3, StepScopes
  <2>2. QED  BY <2>1
<1>4. CASE s = "organization"
  <2>1. s \in Steps[4] /\ 4 \in 1..Len(Steps)
    BY <1>4, StepScopes
  <2>2. QED  BY <2>1
<1>5. CASE s = "account"
  <2>1. s \in Steps[5] /\ 5 \in 1..Len(Steps)
    BY <1>5, StepScopes
  <2>2. QED  BY <2>1
<1>6. CASE s = "classification"
  <2>1. s \in Steps[6] /\ 6 \in 1..Len(Steps)
    BY <1>6, StepScopes
  <2>2. QED  BY <2>1
<1>7. CASE s = "global"
  <2>1. s \in Steps[7] /\ 7 \in 1..Len(Steps)
    BY <1>7, StepScopes
  <2>2. QED  BY <2>1
<1>8. QED  BY <1>1, <1>2, <1>3, <1>4, <1>5, <1>6, <1>7 DEF Scopes

LEMMA PrecedenceOfScopes ==
  ASSUME NEW r \in GoodRow
  PROVE  /\ Precedence(r) \in Nat
         /\ r.scope = "message" => Precedence(r) = 700
         /\ r.scope = "thread" => Precedence(r) = 600
         /\ r.scope = "sender" => Precedence(r) = 500
         /\ r.scope = "domain" => Precedence(r) = 450
         /\ r.scope = "relationship" => Precedence(r) = 400
         /\ r.scope = "organization" => Precedence(r) = 300
         /\ r.scope = "account" => Precedence(r) = 200
         /\ r.scope = "classification" /\ ~r.preset => Precedence(r) = 150
         /\ r.scope = "classification" /\ r.preset => Precedence(r) = 100
         /\ r.scope = "global" => Precedence(r) = 10
<1>1. r.scope \in Scopes /\ r.preset \in BOOLEAN
  BY DEF GoodRow, RuleRow
<1>2. (r.scope = "message" => Precedence(r) = 700) /\ (r.scope = "thread" => Precedence(r) = 600)
  BY DEF Precedence
<1>3. (r.scope = "sender" => Precedence(r) = 500) /\ (r.scope = "domain" => Precedence(r) = 450)
  BY DEF Precedence
<1>4. r.scope = "relationship" => Precedence(r) = 400
  BY DEF Precedence
<1>5. (r.scope = "organization" => Precedence(r) = 300) /\ (r.scope = "account" => Precedence(r) = 200)
  BY DEF Precedence
<1>6. /\ r.scope = "classification" /\ ~r.preset => Precedence(r) = 150
      /\ r.scope = "classification" /\ r.preset => Precedence(r) = 100
  BY <1>1 DEF Precedence
<1>7. r.scope \in {"global", "project"} => Precedence(r) = 10
  BY DEF Precedence
<1>8. Precedence(r) \in Nat
  BY <1>1, <1>2, <1>3, <1>4, <1>5, <1>6, <1>7 DEF Scopes
<1>9. QED  BY <1>2, <1>3, <1>4, <1>5, <1>6, <1>7, <1>8

StepTop == <<700, 500, 400, 300, 200, 150, 10>>
StepFloor == <<600, 450, 400, 300, 200, 100, 10>>

LEMMA StepPrecedence ==
  ASSUME NEW r \in GoodRow, NEW k \in 1..Len(Steps), r.scope \in Steps[k]
  PROVE  StepFloor[k] <= Precedence(r) /\ Precedence(r) <= StepTop[k]
<1>1. r.preset \in BOOLEAN
  BY DEF GoodRow, RuleRow
<1>2. k \in 1..7
  BY StepScopes
<1>3. CASE k = 1
  BY <1>3, StepScopes, PrecedenceOfScopes DEF StepTop, StepFloor
<1>4. CASE k = 2
  BY <1>4, StepScopes, PrecedenceOfScopes DEF StepTop, StepFloor
<1>5. CASE k = 3
  BY <1>5, StepScopes, PrecedenceOfScopes DEF StepTop, StepFloor
<1>6. CASE k = 4
  BY <1>6, StepScopes, PrecedenceOfScopes DEF StepTop, StepFloor
<1>7. CASE k = 5
  BY <1>7, StepScopes, PrecedenceOfScopes DEF StepTop, StepFloor
<1>8. CASE k = 6
  BY <1>1, <1>8, StepScopes, PrecedenceOfScopes DEF StepTop, StepFloor
<1>9. CASE k = 7
  BY <1>9, StepScopes, PrecedenceOfScopes DEF StepTop, StepFloor
<1>10. QED  BY <1>2, <1>3, <1>4, <1>5, <1>6, <1>7, <1>8, <1>9

LEMMA LaterIsLess ==
  ASSUME NEW r \in GoodRow, NEW s \in GoodRow,
         NEW j \in 1..Len(Steps), NEW k \in 1..Len(Steps), j < k,
         r.scope \in Steps[j], s.scope \in Steps[k]
  PROVE  Precedence(s) <= Precedence(r)
<1>1. j \in 1..7 /\ k \in 1..7
  BY StepScopes
<1>2. StepTop[k] <= StepFloor[j]
  BY <1>1 DEF StepTop, StepFloor
<1>3. StepTop[k] \in Nat /\ StepFloor[j] \in Nat
  BY <1>1 DEF StepTop, StepFloor
<1>4. QED  BY <1>2, <1>3, StepPrecedence, PrecedenceOfScopes

(* Within one loop the service's own priorities put the more specific      *)
(* scope first, and no preset has a rule for any other scope than a class. *)
LEMMA DefaultPriorities ==
  ASSUME NEW r \in GoodRow, r.priority = Priority([r EXCEPT !.priority = 0])
  PROVE  /\ r.scope = "message" => r.priority = 100
         /\ r.scope = "sender" => r.priority = 80
         /\ r.scope \in {"thread", "domain"} => r.priority = 60
<1>1. PICK bare : bare = [r EXCEPT !.priority = 0]
  OBVIOUS
<1>2. bare.priority = 0 /\ bare.scope = r.scope
  BY <1>1 DEF GoodRow, RuleRow
<1>3. r.priority = Priority(bare)
  BY <1>1
<1>4. QED  BY <1>2, <1>3 DEF Priority

LEMMA FirstOfAStep ==
  ASSUME NEW r \in GoodRow, NEW s \in GoodRow, NEW k \in 1..Len(Steps),
         r.scope \in Steps[k], s.scope \in Steps[k], ~Ahead(s, r),
         s.preset => r.preset \/ k # 6, r.preset => s.preset \/ k # 6,
         \A t \in {r, s} : t.preset \/ t.priority = Priority([t EXCEPT !.priority = 0])
  PROVE  Precedence(s) <= Precedence(r)
<1>1. k \in 1..7
  BY StepScopes
<1>2. r.priority \in Nat /\ s.priority \in Nat /\ r.preset \in BOOLEAN /\ s.preset \in BOOLEAN
  BY DEF GoodRow, RuleRow
<1>3. ~(s.priority > r.priority)
  BY DEF Ahead
<1>4. (r.preset => r.scope = "classification") /\ (s.preset => s.scope = "classification")
  BY DEF GoodRow, PresetSound
<1>5. CASE k = 1
  <2>1. ~r.preset /\ ~s.preset
    BY <1>4, <1>5, StepScopes
  <2>2. /\ r.priority = Priority([r EXCEPT !.priority = 0])
        /\ s.priority = Priority([s EXCEPT !.priority = 0])
    BY <2>1
  <2>3. ~(s.scope = "message" /\ r.scope = "thread")
    BY <1>2, <1>3, <2>2, DefaultPriorities
  <2>4. QED  BY <1>5, <2>3, StepScopes, PrecedenceOfScopes
<1>6. CASE k = 2
  <2>1. ~r.preset /\ ~s.preset
    BY <1>4, <1>6, StepScopes
  <2>2. /\ r.priority = Priority([r EXCEPT !.priority = 0])
        /\ s.priority = Priority([s EXCEPT !.priority = 0])
    BY <2>1
  <2>3. ~(s.scope = "sender" /\ r.scope = "domain")
    BY <1>2, <1>3, <2>2, DefaultPriorities
  <2>4. QED  BY <1>6, <2>3, StepScopes, PrecedenceOfScopes
<1>7. CASE k \in {3, 4, 5, 7}
  BY <1>7, StepScopes, PrecedenceOfScopes
<1>8. CASE k = 6
  BY <1>2, <1>8, StepScopes, PrecedenceOfScopes
<1>9. QED  BY <1>1, <1>5, <1>6, <1>7, <1>8

-----------------------------------------------------------------------------
(* evaluatePolicies looks for the scopes in their order and takes the      *)
(* first loop that finds a rule.                                           *)
LEMMA FirstStep ==
  ASSUME NEW S \in SUBSET (1..Len(Steps)), S # {}
  PROVE  LET first == CHOOSE k \in S : \A j \in S : k <= j
         IN  first \in S /\ \A j \in S : first <= j
<1>1. S \subseteq Nat
  BY StepScopes
<1>2. \E k \in S : \A j \in S : ~(<<j, k>> \in OpToRel(<, Nat))
  BY <1>1, NatLessThanWellFounded, WFMin
<1>3. PICK k \in S : \A j \in S : ~(<<j, k>> \in OpToRel(<, Nat))
  BY <1>2
<1>4. \A j \in S : ~(j < k)
  BY <1>1, <1>3 DEF OpToRel
<1>5. \A j \in S : k <= j
  BY <1>1, <1>4
<1>6. QED  BY <1>5

RulesFor(read, m) == {s \in read : s.scope # "project" /\ Fits(s, m)}
DecidedWell(matching, rule) ==
  IF matching = {} THEN rule = None
  ELSE (\A r \in matching : r.preset \/ r.priority = Priority([r EXCEPT !.priority = 0]))
         => rule \in matching /\ \A r \in matching : Precedence(r) <= Precedence(rule)

LEMMA MatchedIsSpecific ==
  ASSUME NEW read \in SUBSET GoodRow, NEW m, NEW rule \in Matched(read, m)
  PROVE  DecidedWell(RulesFor(read, m), rule)
<1> DEFINE steps == {k \in 1..Len(Steps) : Found(read, m, k) # {}}
           first == CHOOSE k \in steps : \A j \in steps : k <= j
           found == Found(read, m, first)
           ordinary == \A r \in RulesFor(read, m) :
                         r.preset \/ r.priority = Priority([r EXCEPT !.priority = 0])
<1>1. \A r \in RulesFor(read, m) : r \in GoodRow /\ r \in read /\ r.scope \in Scopes \ {"project"} /\ Fits(r, m)
  BY DEF RulesFor, GoodRow, RuleRow
<1>2. \A r \in RulesFor(read, m) : \E k \in steps : r \in Found(read, m, k)
  <2>1. TAKE r \in RulesFor(read, m)
  <2>2. PICK k \in 1..Len(Steps) : r.scope \in Steps[k]
    BY <1>1, EveryScopeHasAStep
  <2>3. r \in Found(read, m, k)
    BY <1>1, <2>2 DEF Found
  <2>4. QED  BY <2>2, <2>3
<1>3. \A k \in steps : Found(read, m, k) \subseteq RulesFor(read, m)
  <2>1. ASSUME NEW k \in steps, NEW r \in Found(read, m, k)
        PROVE  r \in RulesFor(read, m)
    <3>1. r \in read /\ r.scope \in Steps[k] /\ Fits(r, m)
      BY <2>1 DEF Found
    <3>2. k \in 1..7
      BY StepScopes
    <3>3. "project" \notin Steps[k]
      BY <3>2, StepScopes
    <3>4. QED  BY <3>1, <3>3 DEF RulesFor
  <2>2. QED  BY <2>1
<1>4. CASE steps = {}
  <2>1. RulesFor(read, m) = {}
    BY <1>2, <1>4
  <2>2. rule = None
    BY <1>4 DEF Matched
  <2>3. QED  BY <2>1, <2>2 DEF DecidedWell
<1>5. CASE steps # {}
  <2>1. first \in steps /\ \A j \in steps : first <= j
    <3>1. steps \in SUBSET (1..Len(Steps))
      OBVIOUS
    <3>2. QED  BY <1>5, <3>1, FirstStep
  <2> HIDE DEF steps, first
  <2>2. rule \in IF Steps[first] = {"classification"} /\ Users(found) # {}
                 THEN Firsts(Users(found)) ELSE Firsts(found)
    BY <1>5 DEF Matched, steps, first
  <2>3. first \in 1..Len(Steps)
    BY <2>1 DEF steps
  <2>4. found \subseteq RulesFor(read, m)
    BY <1>3, <2>1
  <2>5. rule \in found
    BY <2>2 DEF Firsts, Users
  <2>6. RulesFor(read, m) # {}
    BY <2>4, <2>5
  <2>7. ASSUME ordinary, NEW r \in RulesFor(read, m)
        PROVE  Precedence(r) <= Precedence(rule)
    <3>1. PICK k \in steps : r \in Found(read, m, k)
      BY <1>2
    <3>2. k \in 1..Len(Steps) /\ first <= k
      BY <2>1 DEF steps
    <3>3. r \in GoodRow /\ rule \in GoodRow
      BY <1>1, <2>4, <2>5
    <3>4. r.scope \in Steps[k] /\ rule.scope \in Steps[first]
      BY <2>5, <3>1 DEF Found
    <3>5. CASE first # k
      <4>1. first < k
        BY <2>3, <3>2, <3>5, StepScopes
      <4>2. QED  BY <2>3, <3>2, <3>3, <3>4, <4>1, LaterIsLess
    <3>6. CASE first = k
      <4>1. r \in found
        BY <3>1, <3>6
      <4>2. \A t \in {r, rule} : t.preset \/ t.priority = Priority([t EXCEPT !.priority = 0])
        BY <2>4, <2>5, <2>7
      <4>3. CASE first = 6
        <5>1. Steps[first] = {"classification"}
          BY <4>3, StepScopes
        <5>2. r.preset \in BOOLEAN /\ rule.preset \in BOOLEAN
          BY <3>3 DEF GoodRow, RuleRow
        <5>3. ~r.preset => ~rule.preset
          BY <2>2, <4>1, <5>1 DEF Users, Firsts
        <5>4. QED
          BY <3>3, <3>4, <3>6, <4>3, <5>2, <5>3, StepScopes, PrecedenceOfScopes
      <4>4. CASE first # 6
        <5>1. Steps[first] # {"classification"}
          <6>1. first \in 1..7
            BY <2>3, StepScopes
          <6>2. "classification" \notin Steps[first]
            BY <4>4, <6>1, StepScopes
          <6>3. QED  BY <6>2
        <5>2. rule \in Firsts(found)
          BY <2>2, <5>1
        <5>3. ~Ahead(r, rule)
          BY <4>1, <5>2 DEF Firsts
        <5>4. QED
          BY <2>3, <3>3, <3>4, <3>6, <4>2, <4>4, <5>3, FirstOfAStep
      <4>5. QED  BY <4>3, <4>4
    <3>7. QED  BY <3>5, <3>6
  <2>8. QED  BY <2>4, <2>5, <2>6, <2>7 DEF DecidedWell
<1>6. QED  BY <1>4, <1>5

-----------------------------------------------------------------------------
(* What is asked for, in words too, makes a rule of the user's own; a      *)
(* preset's rules are for a class of mail.                                 *)
LEMMA UnderstoodIsAsked ==
  ASSUME NEW p
  PROVE  \E s \in Scopes : \E t, a : Understood(p) = Asked(s, t, a)
<1>1. {"classification", "relationship", "sender", "domain", "global"} \subseteq Scopes
  BY DEF Scopes
<1>2. QED  BY <1>1 DEF Understood

LEMMA WantedSound ==
  ASSUME NEW w \in Wanted
  PROVE  w.scope \in Scopes /\ w.enabled \in BOOLEAN /\ w.priority \in Nat /\ w.min \in Nat
<1>1. CASE w \in Inputs
  BY <1>1, InputsAssumption
<1>2. ASSUME NEW p \in Prompts, w = Understood(p)
      PROVE  w.scope \in Scopes /\ w.enabled \in BOOLEAN /\ w.priority \in Nat /\ w.min \in Nat
  <2>1. PICK s, t, a : s \in Scopes /\ w = Asked(s, t, a)
    BY <1>2, UnderstoodIsAsked
  <2>2. QED  BY <2>1 DEF Asked
<1>3. QED  BY <1>1, <1>2 DEF Wanted

LEMMA LevelsFinite == Len(Levels) \in Nat
BY LevelsAssumption

LEMMA PolicyBounds == MaxWrites \in Nat /\ MaxIngested \in Nat /\ Default \in Presets
BY WritesAssumption, PresetsAssumption

LEMMA PriorityPositive ==
  ASSUME NEW w \in Wanted
  PROVE  Priority(w) \in Nat \ {0}
BY WantedSound DEF Priority

LEMMA NewRuleGood ==
  ASSUME NEW w \in Wanted, NEW now \in 0..MaxWrites
  PROVE  NewRule(w, now) \in GoodRow /\ ~NewRule(w, now).preset
<1>1. Priority(w) \in Nat \ {0}
  BY PriorityPositive
<1>2. MinOr(w, 80) \in Nat \ {0}
  BY WantedSound DEF MinOr
<1>3. w.target \in Targets /\ w.action \in Outcomes
  BY DEF Targets, Outcomes
<1>4. NewRule(w, now) \in RuleRow
  BY <1>1, <1>2, <1>3, WantedSound DEF NewRule, RuleRow
<1>5. ~NewRule(w, now).preset
  BY DEF NewRule
<1>6. QED  BY <1>4, <1>5 DEF GoodRow, PresetSound

LEMMA ChangedGood ==
  ASSUME NEW row \in GoodRow, NEW w \in Wanted, NEW min \in Nat \ {0}
  PROVE  Changed(row, w, min) \in GoodRow /\ ~Changed(row, w, min).preset
<1>1. Priority(w) \in Nat \ {0}
  BY PriorityPositive
<1>2. MinOr(w, min) \in Nat \ {0}
  BY WantedSound DEF MinOr
<1>3. w.target \in Targets /\ w.action \in Outcomes
  BY DEF Targets, Outcomes
<1>4. row \in RuleRow
  BY DEF GoodRow
<1>5. Changed(row, w, min) \in RuleRow /\ ~Changed(row, w, min).preset
  BY <1>1, <1>2, <1>3, <1>4, WantedSound DEF Changed, RuleRow
<1>6. QED  BY <1>5 DEF GoodRow, PresetSound

LEMMA PresetRuleGood ==
  ASSUME NEW preset \in Presets \union {None}, NEW k \in 1..Len(Levels), NEW now \in 0..MaxWrites
  PROVE  PresetRule(Filled(preset), Levels[k], now) \in GoodRow
<1> DEFINE name == Filled(preset)
           level == Levels[k]
<1>1. name \in Presets
  BY PolicyBounds DEF Filled
<1>2. level \in LevelNames
  BY DEF LevelNames
<1>3. level \in Targets /\ PresetAction(name, level) \in Outcomes
  BY <1>1, <1>2 DEF Targets, Outcomes
<1> HIDE DEF name, level
<1>4. PresetRule(name, level, now) \in RuleRow
  BY <1>1, <1>3 DEF PresetRule, RuleRow, Scopes
<1>5. PresetRule(name, level, now).scope = "classification"
  BY DEF PresetRule
<1>6. PresetRule(name, level, now) \in GoodRow
  BY <1>4, <1>5 DEF GoodRow, PresetSound
<1>7. QED  BY <1>6 DEF name, level

(* How the table of rules moves: a row is written or rows are deleted, and *)
(* no row of the user's own is deleted unless it is forgotten.             *)
LEMMA RulePut ==
  ASSUME RuleInv, NEW id \in Ids, NEW row \in GoodRow, rules' = Put(id, row),
         \/ own' = own \union {id} /\ ~row.preset
         \/ own' = own /\ id \notin DOMAIN rules
  PROVE  RuleInv'
<1>1. DOMAIN rules' = DOMAIN rules \union {id}
  BY DEF Put
<1>2. \A i \in DOMAIN rules' : rules'[i] = IF i = id THEN row ELSE rules[i]
  BY <1>1 DEF Put
<1>3. DOMAIN rules' \subseteq Ids /\ \A i \in DOMAIN rules' : rules'[i] \in GoodRow
  BY <1>1, <1>2 DEF RuleInv
<1>4. rules' = [i \in DOMAIN rules' |-> rules'[i]]
  BY DEF Put
<1>5. own' \subseteq {i \in DOMAIN rules' : ~rules'[i].preset}
  BY <1>1, <1>2 DEF RuleInv
<1>6. QED  BY <1>3, <1>4, <1>5 DEF RuleInv

LEMMA RuleWithout ==
  ASSUME RuleInv, NEW ids, rules' = Without(ids),
         own' = own \ ids
  PROVE  RuleInv'
<1>1. DOMAIN rules' = DOMAIN rules \ ids
  BY DEF Without
<1>2. \A i \in DOMAIN rules' : rules'[i] = rules[i]
  BY <1>1 DEF Without
<1>3. DOMAIN rules' \subseteq Ids /\ \A i \in DOMAIN rules' : rules'[i] \in GoodRow
  BY <1>1, <1>2 DEF RuleInv
<1>4. rules' = [i \in DOMAIN rules' |-> rules'[i]]
  BY DEF Without
<1>5. own' \subseteq {i \in DOMAIN rules' : ~rules'[i].preset}
  BY <1>1, <1>2 DEF RuleInv
<1>6. QED  BY <1>3, <1>4, <1>5 DEF RuleInv

LEMMA RulesKept ==
  ASSUME RuleInv, UNCHANGED <<rules, own>>
  PROVE  RuleInv'
BY DEF RuleInv

(* How the calls and the preferences move. *)
LEMMA PolicyCallMoves ==
  ASSUME CallsInv, PrefsInv, NEW c \in Calls, NEW new \in PolicyShape,
         calls' = [calls EXCEPT ![c] = new], ingested \subseteq ingested',
         new.kind = "ingest" => new.msg \in ingested',
         prefs' = prefs \/ PrefsSound', new.pc = "store" => PrefsSound'
  PROVE  CallsInv' /\ PrefsInv'
<1>1. calls' \in [Calls -> PolicyShape]
  BY DEF CallsInv
<1>2. \A d \in Calls : calls'[d] = IF d = c THEN new ELSE calls[d]
  BY DEF CallsInv
<1>3. \A d \in Calls : calls'[d].kind = "ingest" => calls'[d].msg \in ingested'
  BY <1>2 DEF CallsInv
<1>4. CallsInv'
  BY <1>1, <1>3 DEF CallsInv
<1>5. CASE prefs' = prefs
  <2>1. PrefsSound => PrefsSound'
    BY <1>5 DEF PrefsSound
  <2>2. prefs' # None => PrefsSound'
    BY <1>5, <2>1 DEF PrefsInv
  <2>3. \A d \in Calls : calls'[d].pc = "store" => PrefsSound'
    BY <1>2, <2>1 DEF PrefsInv
  <2>4. QED  BY <1>4, <2>2, <2>3 DEF PrefsInv
<1>6. CASE PrefsSound'
  BY <1>4, <1>6 DEF PrefsInv
<1>7. QED  BY <1>5, <1>6

LEMMA PolicyInvFrom ==
  ASSUME PolicyInv, RuleInv', CallsInv', PrefsInv', writes' \in 0..MaxWrites,
         acted' = acted, ingested \subseteq ingested'
  PROVE  PolicyInv'
BY DEF PolicyInv

LEMMA IdleShape == Idle \in PolicyShape /\ Idle.kind = "idle" /\ Idle.pc = "idle"
<1>1. Idle \in PolicyRow
  BY PolicyBounds, LevelsFinite DEF Idle, PolicyRow, PolicyKinds, PolicyStatements
<1>2. Idle.kind = "idle" /\ Idle.pc = "idle"
  BY DEF Idle
<1>3. QED  BY <1>1, <1>2 DEF PolicyShape, SettingSound, IngestSound

LEMMA PolicyFinishes ==
  ASSUME CallsInv, PrefsInv, NEW c \in Calls, Finish(c), ingested \subseteq ingested',
         prefs' = prefs \/ PrefsSound'
  PROVE  CallsInv' /\ PrefsInv'
<1>1. PICK new \in PolicyShape : new = Idle
  BY IdleShape
<1>2. new.kind # "ingest" /\ new.pc # "store" /\ calls' = [calls EXCEPT ![c] = new]
  BY <1>1, IdleShape DEF Finish
<1>3. QED  BY <1>2, PolicyCallMoves

-----------------------------------------------------------------------------
LEMMA PolicyInitHolds == PolicyInit => PolicyInv
<1> SUFFICES ASSUME PolicyInit  PROVE PolicyInv
  OBVIOUS
<1>1. DOMAIN rules = {} /\ rules = [i \in DOMAIN rules |-> rules[i]]
  BY DEF PolicyInit
<1>2. RuleInv
  BY <1>1 DEF PolicyInit, RuleInv
<1>3. calls \in [Calls -> PolicyShape] /\ \A c \in Calls : calls[c] = Idle
  BY IdleShape DEF PolicyInit
<1>4. CallsInv
  BY <1>3, IdleShape DEF CallsInv
<1>5. prefs # None => PrefsSound
  BY PolicyBounds DEF PolicyInit, PrefsSound, NewPreferences
<1>6. PrefsInv
  BY <1>3, <1>5, IdleShape DEF PrefsInv
<1>7. writes \in 0..MaxWrites
  BY PolicyBounds DEF PolicyInit
<1>8. /\ acted \in [Messages -> {acted[m] : m \in Messages}]
      /\ {m \in Messages : acted[m] # None} \subseteq ingested
  BY DEF PolicyInit
<1>9. QED  BY <1>2, <1>4, <1>6, <1>7, <1>8 DEF PolicyInv

LEMMA CallOf ==
  ASSUME CallsInv, NEW c \in Calls
  PROVE  /\ calls[c] \in PolicyShape /\ calls[c] \in PolicyRow
         /\ SettingSound(calls[c]) /\ IngestSound(calls[c])
BY DEF CallsInv, PolicyShape

LEMMA SetBeginKeeps ==
  ASSUME PolicyInv, NEW c \in Calls, NEW id \in Ids \union {None}, NEW input \in Wanted,
         SetBegin(c, id, input)
  PROVE  PolicyInv'
<1>1. PICK new : new = [Idle EXCEPT !.kind = "set", !.pc = IF id = None THEN "insert" ELSE "find",
                                    !.id = id, !.input = input, !.now = writes]
  OBVIOUS
<1>2. writes \in Nat /\ writes < MaxWrites /\ writes \in 0..MaxWrites /\ writes + 1 \in 0..MaxWrites
  BY PolicyBounds DEF SetBegin, PolicyInv
<1>3. /\ new.kind = "set" /\ new.pc = (IF id = None THEN "insert" ELSE "find")
      /\ new.id = id /\ new.input = input
  BY <1>1 DEF Idle
<1>4. new \in PolicyRow
  BY <1>1, <1>2, IdleShape DEF PolicyShape, PolicyRow, PolicyKinds, PolicyStatements
<1>5. new \in PolicyShape
  BY <1>3, <1>4 DEF PolicyShape, SettingSound, IngestSound
<1>6. calls' = [calls EXCEPT ![c] = new]
  BY <1>1 DEF SetBegin, Start
<1>7. UNCHANGED <<rules, ingested, acted, own, prefs>> /\ writes' \in 0..MaxWrites
  BY <1>2 DEF SetBegin
<1>8. RuleInv /\ CallsInv /\ PrefsInv
  BY DEF PolicyInv
<1>9. RuleInv'
  BY <1>7, <1>8, RulesKept
<1>10. CallsInv' /\ PrefsInv'
  BY <1>3, <1>5, <1>6, <1>7, <1>8, PolicyCallMoves
<1>11. QED  BY <1>7, <1>9, <1>10, PolicyInvFrom

LEMMA SetFindKeeps ==
  ASSUME PolicyInv, NEW c \in Calls, SetFind(c)
  PROVE  PolicyInv'
<1>1. RuleInv /\ CallsInv /\ PrefsInv
  BY DEF PolicyInv
<1>2. PICK call : call = calls[c]
  OBVIOUS
<1>3. call \in PolicyRow /\ SettingSound(call) /\ IngestSound(call)
  BY <1>1, <1>2, CallOf
<1>4. call.kind = "set" /\ call.input \in Wanted /\ call.id \in Ids
  BY <1>2, <1>3 DEF SetFind, At, SettingSound
<1>5. \E new \in PolicyShape :
        calls' = [calls EXCEPT ![c] = new] /\ new.kind = "set" /\ new.pc # "store"
  <2>1. CASE call.id \in DOMAIN rules
    <3>1. PICK min : min = rules[call.id].min
      OBVIOUS
    <3>2. min \in Nat \ {0}
      BY <1>1, <2>1, <3>1 DEF RuleInv, GoodRow, RuleRow
    <3>3. PICK new : new = [call EXCEPT !.pc = "update", !.min = min]
      OBVIOUS
    <3>4. new \in PolicyRow
      BY <1>3, <3>2, <3>3 DEF PolicyRow, PolicyStatements
    <3>5. /\ new.kind = call.kind /\ new.input = call.input /\ new.id = call.id
          /\ new.pc = "update" /\ new.min = min
      BY <1>3, <3>3 DEF PolicyRow
    <3>6. new \in PolicyShape
      BY <1>4, <3>2, <3>4, <3>5 DEF PolicyShape, SettingSound, IngestSound
    <3>7. calls' = [calls EXCEPT ![c] = new]
      BY <1>2, <2>1, <3>1, <3>3 DEF SetFind, Go
    <3>8. QED  BY <1>4, <3>5, <3>6, <3>7
  <2>2. CASE call.id \notin DOMAIN rules
    <3>1. PICK new : new = [call EXCEPT !.pc = "insert"]
      OBVIOUS
    <3>2. new \in PolicyRow
      BY <1>3, <3>1 DEF PolicyRow, PolicyStatements
    <3>3. new.kind = call.kind /\ new.input = call.input /\ new.pc = "insert"
      BY <1>3, <3>1 DEF PolicyRow
    <3>4. new \in PolicyShape
      BY <1>4, <3>2, <3>3 DEF PolicyShape, SettingSound, IngestSound
    <3>5. calls' = [calls EXCEPT ![c] = new]
      BY <1>2, <2>2, <3>1 DEF SetFind, Go
    <3>6. QED  BY <1>4, <3>3, <3>4, <3>5
  <2>3. QED  BY <2>1, <2>2
<1>6. UNCHANGED <<rules, writes, ingested, acted, own, prefs>>
  BY DEF SetFind
<1>7. RuleInv'
  BY <1>1, <1>6, RulesKept
<1>8. CallsInv' /\ PrefsInv'
  BY <1>1, <1>5, <1>6, PolicyCallMoves
<1>9. writes' \in 0..MaxWrites
  BY <1>6 DEF PolicyInv
<1>10. QED  BY <1>6, <1>7, <1>8, <1>9, PolicyInvFrom

LEMMA SetUpdateKeeps ==
  ASSUME PolicyInv, NEW c \in Calls, SetUpdate(c)
  PROVE  PolicyInv'
<1>1. RuleInv /\ CallsInv /\ PrefsInv
  BY DEF PolicyInv
<1>2. PICK call : call = calls[c]
  OBVIOUS
<1>3. call \in PolicyRow /\ SettingSound(call)
  BY <1>1, <1>2, CallOf
<1>4. call.input \in Wanted /\ call.id \in Ids /\ call.min \in Nat \ {0}
  BY <1>2, <1>3 DEF SetUpdate, At, SettingSound, PolicyRow
<1>5. PICK row : row = Changed(rules[call.id], call.input, call.min)
  OBVIOUS
<1>6. row \in GoodRow /\ ~row.preset
  <2>1. rules[call.id] \in GoodRow
    BY <1>1, <1>2 DEF SetUpdate, RuleInv
  <2>2. QED  BY <1>4, <1>5, <2>1, ChangedGood
<1>7. rules' = Put(call.id, row) /\ own' = own \union {call.id} /\ Finish(c)
  BY <1>2, <1>5 DEF SetUpdate
<1>8. UNCHANGED <<writes, ingested, acted, prefs>>
  BY DEF SetUpdate
<1>9. RuleInv'
  BY <1>1, <1>4, <1>6, <1>7, RulePut
<1>10. CallsInv' /\ PrefsInv'
  BY <1>1, <1>7, <1>8, PolicyFinishes
<1>11. writes' \in 0..MaxWrites
  BY <1>8 DEF PolicyInv
<1>12. QED  BY <1>8, <1>9, <1>10, <1>11, PolicyInvFrom

LEMMA SetInsertKeeps ==
  ASSUME PolicyInv, NEW c \in Calls, SetInsert(c)
  PROVE  PolicyInv'
<1>1. RuleInv /\ CallsInv /\ PrefsInv
  BY DEF PolicyInv
<1>2. PICK call : call = calls[c]
  OBVIOUS
<1>3. call \in PolicyRow /\ SettingSound(call)
  BY <1>1, <1>2, CallOf
<1>4. call.input \in Wanted /\ call.now \in 0..MaxWrites
  BY <1>2, <1>3 DEF SetInsert, At, SettingSound, PolicyRow
<1>5. PICK id \in Ids \ DOMAIN rules :
        rules' = Put(id, NewRule(call.input, call.now)) /\ own' = own \union {id}
  BY <1>2 DEF SetInsert
<1>6. PICK row : row = NewRule(call.input, call.now)
  OBVIOUS
<1>7. row \in GoodRow /\ ~row.preset
  BY <1>4, <1>6, NewRuleGood
<1>8. UNCHANGED <<writes, ingested, acted, prefs>> /\ Finish(c)
  BY DEF SetInsert
<1>9. RuleInv'
  BY <1>1, <1>5, <1>6, <1>7, RulePut
<1>10. CallsInv' /\ PrefsInv'
  BY <1>1, <1>8, PolicyFinishes
<1>11. writes' \in 0..MaxWrites
  BY <1>8 DEF PolicyInv
<1>12. QED  BY <1>8, <1>9, <1>10, <1>11, PolicyInvFrom

(* A call that ends and changes nothing: the row it looked for has gone,   *)
(* its id has been taken, or its statement failed.                         *)
LEMMA EndingKeeps ==
  ASSUME PolicyInv, NEW c \in Calls, SetMissed(c) \/ SetRefused(c) \/ GiveUp(c)
  PROVE  PolicyInv'
<1>1. RuleInv /\ CallsInv /\ PrefsInv
  BY DEF PolicyInv
<1>2. UNCHANGED <<rules, writes, ingested, acted, own, prefs>> /\ Finish(c)
  BY DEF SetMissed, SetRefused, GiveUp
<1>3. RuleInv'
  BY <1>1, <1>2, RulesKept
<1>4. CallsInv' /\ PrefsInv'
  BY <1>1, <1>2, PolicyFinishes
<1>5. writes' \in 0..MaxWrites
  BY <1>2 DEF PolicyInv
<1>6. QED  BY <1>2, <1>3, <1>4, <1>5, PolicyInvFrom

LEMMA RemoveKeeps ==
  ASSUME PolicyInv, NEW id \in Ids, Remove(id)
  PROVE  PolicyInv'
<1>1. RuleInv /\ CallsInv /\ PrefsInv
  BY DEF PolicyInv
<1>2. /\ rules' = Without({id}) /\ own' = own \ {id}
      /\ UNCHANGED <<writes, calls, ingested, acted, prefs>>
  BY DEF Remove
<1>3. RuleInv'
  BY <1>1, <1>2, RuleWithout
<1>4. CallsInv'
  BY <1>1, <1>2 DEF CallsInv
<1>5. PrefsInv'
  BY <1>1, <1>2 DEF PrefsInv, PrefsSound
<1>6. writes' \in 0..MaxWrites
  BY <1>2 DEF PolicyInv
<1>7. QED  BY <1>2, <1>3, <1>4, <1>5, <1>6, PolicyInvFrom

-----------------------------------------------------------------------------
(* The preferences: who has read the row stores what it was given.         *)
LEMMA PreferencesRow ==
  /\ NewPreferences.preset \in Presets /\ NewPreferences.settings \in Choices \union {None}
BY PolicyBounds DEF NewPreferences

LEMMA ReadTurnsTo ==
  ASSUME CallsInv, PrefsInv, NEW c \in Calls, calls[c].pc \in {"prefs", "seed"}, NEW row,
         row.preset \in Presets, row.settings \in Choices \union {None},
         AfterPreferences(c, row), ingested' = ingested, prefs' = row
  PROVE  CallsInv' /\ PrefsInv'
<1>1. PrefsSound'
  BY DEF PrefsSound
<1>2. CASE calls[c].kind = "look"
  <2>1. Finish(c)
    BY <1>2 DEF AfterPreferences
  <2>2. QED  BY <1>1, <2>1, PolicyFinishes
<1>3. CASE calls[c].kind # "look"
  <2>1. PICK call : call = calls[c]
    OBVIOUS
  <2>2. PICK seen : seen = row.settings
    OBVIOUS
  <2>3. PICK new : new = [call EXCEPT !.pc = "store", !.seen = seen]
    OBVIOUS
  <2>4. call \in PolicyRow /\ SettingSound(call) /\ IngestSound(call)
    BY <2>1, CallOf
  <2>5. new \in PolicyRow
    BY <2>2, <2>3, <2>4 DEF PolicyRow, PolicyStatements
  <2>6. new.pc = "store" /\ new.kind = call.kind /\ new.msg = call.msg
    BY <2>3, <2>4 DEF PolicyRow
  <2>7. new \in PolicyShape
    BY <2>4, <2>5, <2>6 DEF PolicyShape, SettingSound, IngestSound
  <2>8. new.kind = "ingest" => new.msg \in ingested'
    BY <2>1, <2>6 DEF CallsInv
  <2>9. calls' = [calls EXCEPT ![c] = new]
    BY <1>3, <2>1, <2>2, <2>3 DEF AfterPreferences, Go
  <2>10. QED  BY <1>1, <2>7, <2>8, <2>9, PolicyCallMoves
<1>4. QED  BY <1>2, <1>3

LEMMA ReadPreferencesKeeps ==
  ASSUME PolicyInv, NEW c \in Calls, ReadPreferences(c)
  PROVE  PolicyInv'
<1>1. RuleInv /\ CallsInv /\ PrefsInv
  BY DEF PolicyInv
<1>2. UNCHANGED <<rules, writes, ingested, acted, own, prefs>>
  BY DEF ReadPreferences
<1>3. CASE prefs # None
  <2>1. AfterPreferences(c, prefs) /\ calls[c].pc = "prefs"
    BY <1>3 DEF ReadPreferences, At
  <2>2. prefs.preset \in Presets /\ prefs.settings \in Choices \union {None}
    BY <1>1, <1>3 DEF PrefsInv, PrefsSound
  <2>3. QED
    <3>1. PICK row : row = prefs
      OBVIOUS
    <3>2. AfterPreferences(c, row) /\ prefs' = row
      BY <1>2, <2>1, <3>1
    <3>3. CallsInv' /\ PrefsInv'
      BY <1>1, <1>2, <2>1, <2>2, <3>1, <3>2, ReadTurnsTo
    <3>4. RuleInv' /\ writes' \in 0..MaxWrites
      BY <1>1, <1>2, RulesKept DEF PolicyInv
    <3>5. QED  BY <1>2, <3>3, <3>4, PolicyInvFrom
<1>4. CASE prefs = None
  <2>1. PICK call : call = calls[c]
    OBVIOUS
  <2>2. PICK new : new = [call EXCEPT !.pc = "seed"]
    OBVIOUS
  <2>3. call \in PolicyRow /\ SettingSound(call) /\ IngestSound(call)
    BY <1>1, <2>1, CallOf
  <2>4. new \in PolicyRow
    BY <2>2, <2>3 DEF PolicyRow, PolicyStatements
  <2>5. new.pc = "seed" /\ new.kind = call.kind /\ new.msg = call.msg
    BY <2>2, <2>3 DEF PolicyRow
  <2>6. new \in PolicyShape
    BY <2>3, <2>4, <2>5 DEF PolicyShape, SettingSound, IngestSound
  <2>7. new.kind = "ingest" => new.msg \in ingested'
    BY <1>1, <1>2, <2>1, <2>5 DEF CallsInv
  <2>8. calls' = [calls EXCEPT ![c] = new]
    BY <1>4, <2>1, <2>2 DEF ReadPreferences, Go
  <2>9. CallsInv' /\ PrefsInv'
    BY <1>1, <1>2, <2>5, <2>6, <2>7, <2>8, PolicyCallMoves
  <2>10. RuleInv' /\ writes' \in 0..MaxWrites
    BY <1>1, <1>2, RulesKept DEF PolicyInv
  <2>11. QED  BY <1>2, <2>9, <2>10, PolicyInvFrom
<1>5. QED  BY <1>3, <1>4

LEMMA SeedPreferencesKeeps ==
  ASSUME PolicyInv, NEW c \in Calls, SeedPreferences(c)
  PROVE  PolicyInv'
<1>1. RuleInv /\ CallsInv /\ PrefsInv
  BY DEF PolicyInv
<1>2. UNCHANGED <<rules, writes, ingested, acted, own>>
  BY DEF SeedPreferences
<1>3. ASSUME prefs = None  PROVE CallsInv' /\ PrefsInv'
  <2>1. AfterPreferences(c, NewPreferences) /\ prefs' = NewPreferences /\ calls[c].pc = "seed"
    BY <1>3 DEF SeedPreferences, At
  <2>2. PICK row : row = NewPreferences
    OBVIOUS
  <2>3. AfterPreferences(c, row) /\ prefs' = row
    BY <2>1, <2>2
  <2>4. QED  BY <1>1, <1>2, <2>1, <2>2, <2>3, PreferencesRow, ReadTurnsTo
<1>4. ASSUME prefs # None  PROVE CallsInv' /\ PrefsInv'
  <2>1. UNCHANGED prefs /\ Finish(c)
    BY <1>4 DEF SeedPreferences
  <2>2. QED  BY <1>1, <1>2, <2>1, PolicyFinishes
<1>5. CallsInv' /\ PrefsInv'
  BY <1>3, <1>4
<1>6. RuleInv' /\ writes' \in 0..MaxWrites
  BY <1>1, <1>2, RulesKept DEF PolicyInv
<1>7. QED  BY <1>2, <1>5, <1>6, PolicyInvFrom

(* The calls that begin with the preferences or with a preset. *)
LEMMA LookBeginKeeps ==
  ASSUME PolicyInv, NEW c \in Calls, LookBegin(c) \/ RegisterBegin(c)
  PROVE  PolicyInv'
<1>1. RuleInv /\ CallsInv /\ PrefsInv
  BY DEF PolicyInv
<1>2. UNCHANGED <<rules, writes, ingested, acted, own, prefs>>
  BY DEF LookBegin, RegisterBegin
<1>3. PICK kind, pc : /\ kind \in {"look", "register"} /\ pc \in {"prefs", "wipe"}
                      /\ Start(c, [Idle EXCEPT !.kind = kind, !.pc = pc])
  BY DEF LookBegin, RegisterBegin
<1>4. PICK new : new = [Idle EXCEPT !.kind = kind, !.pc = pc]
  OBVIOUS
<1>5. new.kind = kind /\ new.pc = pc
  BY <1>4 DEF Idle
<1>6. new \in PolicyRow
  BY <1>3, <1>4, IdleShape DEF PolicyShape, PolicyRow, PolicyKinds, PolicyStatements
<1>7. new \in PolicyShape
  BY <1>3, <1>5, <1>6 DEF PolicyShape, SettingSound, IngestSound
<1>8. calls' = [calls EXCEPT ![c] = new]
  BY <1>3, <1>4 DEF Start
<1>9. CallsInv' /\ PrefsInv'
  BY <1>1, <1>2, <1>3, <1>5, <1>7, <1>8, PolicyCallMoves
<1>10. RuleInv' /\ writes' \in 0..MaxWrites
  BY <1>1, <1>2, RulesKept DEF PolicyInv
<1>11. QED  BY <1>2, <1>9, <1>10, PolicyInvFrom

LEMMA TellBeginKeeps ==
  ASSUME PolicyInv, NEW c \in Calls, NEW preset \in Presets \union {None},
         NEW choice \in Choices \union {None},
         TellBegin(c, preset, choice) \/ OnboardBegin(c, preset, choice)
  PROVE  PolicyInv'
<1>1. RuleInv /\ CallsInv /\ PrefsInv
  BY DEF PolicyInv
<1>2. UNCHANGED <<rules, ingested, acted, own, prefs>>
  BY DEF TellBegin, OnboardBegin
<1>3. PICK kind : /\ kind \in {"tell", "onboard"}
                  /\ Start(c, [Idle EXCEPT !.kind = kind, !.pc = "prefs", !.preset = preset,
                                           !.choice = choice])
  BY DEF TellBegin, OnboardBegin
<1>4. PICK new : new = [Idle EXCEPT !.kind = kind, !.pc = "prefs", !.preset = preset,
                                    !.choice = choice]
  OBVIOUS
<1>5. new.kind = kind /\ new.pc = "prefs"
  BY <1>4 DEF Idle
<1>6. new \in PolicyRow
  BY <1>3, <1>4, IdleShape DEF PolicyShape, PolicyRow, PolicyKinds, PolicyStatements
<1>7. new \in PolicyShape
  BY <1>3, <1>5, <1>6 DEF PolicyShape, SettingSound, IngestSound
<1>8. calls' = [calls EXCEPT ![c] = new]
  BY <1>3, <1>4 DEF Start
<1>9. CallsInv' /\ PrefsInv'
  BY <1>1, <1>2, <1>3, <1>5, <1>7, <1>8, PolicyCallMoves
<1>10. writes' \in 0..MaxWrites
  BY PolicyBounds DEF TellBegin, OnboardBegin, PolicyInv
<1>11. RuleInv'
  BY <1>1, <1>2, RulesKept
<1>12. QED  BY <1>2, <1>9, <1>10, <1>11, PolicyInvFrom

LEMMA ResetBeginKeeps ==
  ASSUME PolicyInv, NEW c \in Calls, NEW preset \in Presets, ResetBegin(c, preset)
  PROVE  PolicyInv'
<1>1. RuleInv /\ CallsInv /\ PrefsInv
  BY DEF PolicyInv
<1>2. UNCHANGED <<rules, writes, ingested, acted, own, prefs>>
  BY DEF ResetBegin
<1>3. PICK new : new = [Idle EXCEPT !.kind = "reset", !.pc = "wipe", !.preset = preset]
  OBVIOUS
<1>4. new.kind = "reset" /\ new.pc = "wipe"
  BY <1>3 DEF Idle
<1>5. new \in PolicyRow
  BY <1>3, IdleShape DEF PolicyShape, PolicyRow, PolicyKinds, PolicyStatements
<1>6. new \in PolicyShape
  BY <1>4, <1>5 DEF PolicyShape, SettingSound, IngestSound
<1>7. calls' = [calls EXCEPT ![c] = new]
  BY <1>3 DEF ResetBegin, Start
<1>8. CallsInv' /\ PrefsInv'
  BY <1>1, <1>2, <1>4, <1>6, <1>7, PolicyCallMoves
<1>9. RuleInv' /\ writes' \in 0..MaxWrites
  BY <1>1, <1>2, RulesKept DEF PolicyInv
<1>10. QED  BY <1>2, <1>8, <1>9, PolicyInvFrom

LEMMA StorePreferencesKeeps ==
  ASSUME PolicyInv, NEW c \in Calls, StorePreferences(c)
  PROVE  PolicyInv'
<1>1. RuleInv /\ CallsInv /\ PrefsInv
  BY DEF PolicyInv
<1>2. UNCHANGED <<rules, writes, ingested, acted, own>>
  BY DEF StorePreferences
<1>3. PICK call : call = calls[c]
  OBVIOUS
<1>4. call \in PolicyRow /\ SettingSound(call) /\ IngestSound(call)
  BY <1>1, <1>3, CallOf
<1>5. PrefsSound
  BY <1>1 DEF StorePreferences, At, PrefsInv
<1>6. /\ call.preset \in Presets \union {None} /\ call.choice \in Choices \union {None}
      /\ call.seen \in Choices \union {None}
  BY <1>4 DEF PolicyRow
<1>7. PrefsSound'
  <2>1. /\ prefs'.preset = IF call.preset # None THEN call.preset ELSE prefs.preset
        /\ prefs'.settings = IF call.choice # None THEN call.choice
                             ELSE IF call.kind = "onboard" THEN call.seen ELSE prefs.settings
    BY <1>3 DEF StorePreferences
  <2>2. QED  BY <1>5, <1>6, <2>1 DEF PrefsSound
<1>8. ASSUME call.kind = "onboard"  PROVE CallsInv' /\ PrefsInv'
  <2>1. PICK new : new = [call EXCEPT !.pc = "wipe"]
    OBVIOUS
  <2>2. new \in PolicyRow
    BY <1>4, <2>1 DEF PolicyRow, PolicyStatements
  <2>3. new.pc = "wipe" /\ new.kind = "onboard"
    BY <1>4, <1>8, <2>1 DEF PolicyRow
  <2>4. new \in PolicyShape
    BY <2>2, <2>3 DEF PolicyShape, SettingSound, IngestSound
  <2>5. calls' = [calls EXCEPT ![c] = new]
    BY <1>3, <1>8, <2>1 DEF StorePreferences, Go
  <2>6. QED  BY <1>1, <1>2, <1>7, <2>3, <2>4, <2>5, PolicyCallMoves
<1>9. ASSUME call.kind # "onboard"  PROVE CallsInv' /\ PrefsInv'
  <2>1. Finish(c)
    BY <1>3, <1>9 DEF StorePreferences
  <2>2. QED  BY <1>1, <1>2, <1>7, <2>1, PolicyFinishes
<1>10. CallsInv' /\ PrefsInv'
  BY <1>8, <1>9
<1>11. RuleInv' /\ writes' \in 0..MaxWrites
  BY <1>1, <1>2, RulesKept DEF PolicyInv
<1>12. QED  BY <1>2, <1>10, <1>11, PolicyInvFrom

-----------------------------------------------------------------------------
(* A preset's application: the system's rules are wiped, one rule for each *)
(* class is inserted, and the call that applied it goes on.                *)
LEMMA PresetWipeKeeps ==
  ASSUME PolicyInv, NEW c \in Calls, PresetWipe(c)
  PROVE  PolicyInv'
<1>1. RuleInv /\ CallsInv /\ PrefsInv
  BY DEF PolicyInv
<1>2. UNCHANGED <<ingested, acted, own, prefs>> /\ writes' = writes + 1 /\ writes < MaxWrites
  BY DEF PresetWipe
<1>3. writes \in 0..MaxWrites /\ writes' \in 0..MaxWrites
  BY <1>2, PolicyBounds DEF PolicyInv
<1>4. PICK call : call = calls[c]
  OBVIOUS
<1>5. call \in PolicyRow /\ SettingSound(call) /\ IngestSound(call)
  BY <1>1, <1>4, CallOf
<1>6. PICK new : new = [call EXCEPT !.pc = "fill", !.left = Len(Levels), !.now = writes]
  OBVIOUS
<1>7. new \in PolicyRow
  <2>1. Len(Levels) \in 0..Len(Levels)
    BY LevelsFinite
  <2>2. PICK left : left = Len(Levels)
    OBVIOUS
  <2>3. left \in 0..Len(Levels) /\ new = [call EXCEPT !.pc = "fill", !.left = left, !.now = writes]
    BY <1>6, <2>1, <2>2
  <2>4. QED  BY <1>3, <1>5, <2>3 DEF PolicyRow, PolicyStatements
<1>8. new.pc = "fill" /\ new.kind = call.kind /\ new.msg = call.msg
  BY <1>5, <1>6 DEF PolicyRow
<1>9. new \in PolicyShape
  BY <1>5, <1>7, <1>8 DEF PolicyShape, SettingSound, IngestSound
<1>10. new.kind = "ingest" => new.msg \in ingested'
  BY <1>1, <1>2, <1>4, <1>8 DEF CallsInv
<1>11. calls' = [calls EXCEPT ![c] = new]
  BY <1>4, <1>6 DEF PresetWipe, Go
<1>12. CallsInv' /\ PrefsInv'
  BY <1>1, <1>2, <1>8, <1>9, <1>10, <1>11, PolicyCallMoves
<1>13. RuleInv'
  <2>1. PICK presets : presets = {i \in DOMAIN rules : rules[i].preset}
    OBVIOUS
  <2>2. rules' = Without(presets)
    BY <2>1 DEF PresetWipe
  <2>3. own' = own \ presets
    BY <1>1, <1>2, <2>1 DEF RuleInv
  <2>4. QED  BY <1>1, <2>2, <2>3, RuleWithout
<1>14. QED  BY <1>2, <1>3, <1>12, <1>13, PolicyInvFrom

LEMMA PresetFillKeeps ==
  ASSUME PolicyInv, NEW c \in Calls, PresetFill(c)
  PROVE  PolicyInv'
<1>1. RuleInv /\ CallsInv /\ PrefsInv
  BY DEF PolicyInv
<1>2. UNCHANGED <<writes, ingested, acted, own, prefs>> /\ calls[c].left > 0 /\ calls[c].pc = "fill"
  BY DEF PresetFill, At
<1>3. PICK call : call = calls[c]
  OBVIOUS
<1>4. call \in PolicyRow /\ SettingSound(call) /\ IngestSound(call)
  BY <1>1, <1>3, CallOf
<1>5. /\ call.left \in 0..Len(Levels) /\ call.now \in 0..MaxWrites
      /\ call.preset \in Presets \union {None}
  BY <1>4 DEF PolicyRow
<1>6. PICK k : k = Len(Levels) - call.left + 1
  OBVIOUS
<1>7. k \in 1..Len(Levels) /\ call.left - 1 \in 0..Len(Levels)
  BY <1>2, <1>3, <1>5, <1>6, LevelsFinite
<1>8. PICK row : row = PresetRule(Filled(call.preset), Levels[k], call.now)
  OBVIOUS
<1>9. row \in GoodRow
  BY <1>5, <1>7, <1>8, PresetRuleGood
<1>10. \E id \in Ids \ DOMAIN rules : rules' = Put(id, row)
  BY <1>3, <1>6, <1>8 DEF PresetFill
<1>11. RuleInv'
  BY <1>1, <1>2, <1>9, <1>10, RulePut
<1>12. PICK new : new = [call EXCEPT !.left = call.left - 1]
  OBVIOUS
<1>13. new \in PolicyRow
  BY <1>4, <1>7, <1>12 DEF PolicyRow
<1>14. new.pc = "fill" /\ new.kind = call.kind /\ new.msg = call.msg
  BY <1>2, <1>3, <1>4, <1>12 DEF PolicyRow
<1>15. new \in PolicyShape
  BY <1>4, <1>13, <1>14 DEF PolicyShape, SettingSound, IngestSound
<1>16. new.kind = "ingest" => new.msg \in ingested'
  BY <1>1, <1>2, <1>3, <1>14 DEF CallsInv
<1>17. calls' = [calls EXCEPT ![c] = new]
  BY <1>3, <1>12 DEF PresetFill, Go
<1>18. CallsInv' /\ PrefsInv'
  BY <1>1, <1>2, <1>14, <1>15, <1>16, <1>17, PolicyCallMoves
<1>19. writes' \in 0..MaxWrites
  BY <1>2 DEF PolicyInv
<1>20. QED  BY <1>2, <1>11, <1>18, <1>19, PolicyInvFrom

LEMMA PresetEndKeeps ==
  ASSUME PolicyInv, NEW c \in Calls, PresetEnd(c)
  PROVE  PolicyInv'
<1>1. RuleInv /\ CallsInv /\ PrefsInv
  BY DEF PolicyInv
<1>2. UNCHANGED <<rules, writes, ingested, acted, own, prefs>>
  BY DEF PresetEnd
<1>3. ASSUME calls[c].kind = "reset"  PROVE CallsInv' /\ PrefsInv'
  <2>1. PICK call : call = calls[c]
    OBVIOUS
  <2>2. call \in PolicyRow /\ SettingSound(call) /\ IngestSound(call)
    BY <1>1, <2>1, CallOf
  <2>3. PICK new : new = [call EXCEPT !.pc = "prefs"]
    OBVIOUS
  <2>4. new \in PolicyRow
    BY <2>2, <2>3 DEF PolicyRow, PolicyStatements
  <2>5. new.pc = "prefs" /\ new.kind = "reset"
    BY <1>3, <2>1, <2>2, <2>3 DEF PolicyRow
  <2>6. new \in PolicyShape
    BY <2>4, <2>5 DEF PolicyShape, SettingSound, IngestSound
  <2>7. calls' = [calls EXCEPT ![c] = new]
    BY <1>3, <2>1, <2>3 DEF PresetEnd, Go
  <2>8. QED  BY <1>1, <1>2, <2>5, <2>6, <2>7, PolicyCallMoves
<1>4. ASSUME calls[c].kind # "reset"  PROVE CallsInv' /\ PrefsInv'
  <2>1. Finish(c)
    BY <1>4 DEF PresetEnd
  <2>2. QED  BY <1>1, <1>2, <2>1, PolicyFinishes
<1>5. CallsInv' /\ PrefsInv'
  BY <1>3, <1>4
<1>6. RuleInv' /\ writes' \in 0..MaxWrites
  BY <1>1, <1>2, RulesKept DEF PolicyInv
<1>7. QED  BY <1>2, <1>5, <1>6, PolicyInvFrom

-----------------------------------------------------------------------------
(* An ingestion reads the rules and decides by what it has read. *)
LEMMA IngestBeginKeeps ==
  ASSUME PolicyInv, NEW c \in Calls, NEW m \in Messages, IngestBegin(c, m)
  PROVE  PolicyInv'
<1>1. RuleInv /\ CallsInv /\ PrefsInv
  BY DEF PolicyInv
<1>2. UNCHANGED <<rules, writes, acted, own, prefs>> /\ ingested' = ingested \union {m}
  BY DEF IngestBegin
<1>3. PICK new : new = [Idle EXCEPT !.kind = "ingest", !.pc = "rules", !.msg = m]
  OBVIOUS
<1>4. new.kind = "ingest" /\ new.pc = "rules" /\ new.msg = m
  BY <1>3 DEF Idle
<1>5. new \in PolicyRow
  BY <1>3, IdleShape DEF PolicyShape, PolicyRow, PolicyKinds, PolicyStatements
<1>6. new \in PolicyShape
  BY <1>4, <1>5 DEF PolicyShape, SettingSound, IngestSound
<1>7. calls' = [calls EXCEPT ![c] = new]
  BY <1>3 DEF IngestBegin, Start
<1>8. CallsInv' /\ PrefsInv'
  BY <1>1, <1>2, <1>4, <1>6, <1>7, PolicyCallMoves
<1>9. RuleInv' /\ writes' \in 0..MaxWrites
  BY <1>1, <1>2, RulesKept DEF PolicyInv
<1>10. QED  BY <1>2, <1>8, <1>9, PolicyInvFrom

LEMMA RowsGood ==
  ASSUME RuleInv, NEW ids \in SUBSET DOMAIN rules
  PROVE  Rows(ids) \in SUBSET GoodRow
BY DEF RuleInv, Rows

LEMMA IngestReadKeeps ==
  ASSUME PolicyInv, NEW c \in Calls, IngestRead(c) \/ IngestReread(c)
  PROVE  PolicyInv'
<1>1. RuleInv /\ CallsInv /\ PrefsInv
  BY DEF PolicyInv
<1>2. UNCHANGED <<rules, writes, ingested, acted, own, prefs>>
  BY DEF IngestRead, IngestReread
<1>3. PICK call : call = calls[c]
  OBVIOUS
<1>4. call \in PolicyRow /\ SettingSound(call) /\ IngestSound(call)
  BY <1>1, <1>3, CallOf
<1>5. call.kind = "ingest" /\ call.msg \in Messages /\ call.msg \in ingested
  BY <1>1, <1>3, <1>4 DEF IngestRead, IngestReread, At, IngestSound, CallsInv
<1>6. ASSUME NEW ids \in SUBSET DOMAIN rules, Go(c, [calls[c] EXCEPT !.pc = "act", !.read = Rows(ids)])
      PROVE  CallsInv' /\ PrefsInv'
  <2>1. PICK read : read = Rows(ids)
    OBVIOUS
  <2>2. read \in SUBSET GoodRow
    BY <1>1, <2>1, RowsGood
  <2>3. PICK new : new = [call EXCEPT !.pc = "act", !.read = read]
    OBVIOUS
  <2>4. new \in PolicyRow
    BY <1>4, <2>2, <2>3 DEF PolicyRow, PolicyStatements
  <2>5. new.pc = "act" /\ new.kind = "ingest" /\ new.msg = call.msg
    BY <1>4, <1>5, <2>3 DEF PolicyRow
  <2>6. new \in PolicyShape
    BY <1>5, <2>4, <2>5 DEF PolicyShape, SettingSound, IngestSound
  <2>7. calls' = [calls EXCEPT ![c] = new]
    BY <1>3, <1>6, <2>1, <2>3 DEF Go
  <2>8. QED  BY <1>1, <1>2, <1>5, <2>5, <2>6, <2>7, PolicyCallMoves
<1>7. ASSUME Go(c, [calls[c] EXCEPT !.pc = "wipe"])
      PROVE  CallsInv' /\ PrefsInv'
  <2>1. PICK new : new = [call EXCEPT !.pc = "wipe"]
    OBVIOUS
  <2>2. new \in PolicyRow
    BY <1>4, <2>1 DEF PolicyRow, PolicyStatements
  <2>3. new.pc = "wipe" /\ new.kind = "ingest" /\ new.msg = call.msg
    BY <1>4, <1>5, <2>1 DEF PolicyRow
  <2>4. new \in PolicyShape
    BY <1>5, <2>2, <2>3 DEF PolicyShape, SettingSound, IngestSound
  <2>5. calls' = [calls EXCEPT ![c] = new]
    BY <1>3, <1>7, <2>1 DEF Go
  <2>6. QED  BY <1>1, <1>2, <1>5, <2>3, <2>4, <2>5, PolicyCallMoves
<1>8. CallsInv' /\ PrefsInv'
  <2>1. CASE IngestReread(c)
    BY <1>6, <2>1 DEF IngestReread
  <2>2. CASE IngestRead(c) /\ Enabled = {}
    BY <1>7, <2>2 DEF IngestRead
  <2>3. CASE IngestRead(c) /\ Enabled # {}
    <3>1. Enabled \in SUBSET DOMAIN rules
      BY DEF Enabled
    <3>2. Go(c, [calls[c] EXCEPT !.pc = "act", !.read = Rows(Enabled)])
      BY <2>3 DEF IngestRead
    <3>3. PICK ids : ids = Enabled
      OBVIOUS
    <3>4. ids \in SUBSET DOMAIN rules /\ Go(c, [calls[c] EXCEPT !.pc = "act", !.read = Rows(ids)])
      BY <3>1, <3>2, <3>3
    <3>5. QED  BY <1>6, <3>4
  <2>4. QED  BY <2>1, <2>2, <2>3
<1>9. RuleInv' /\ writes' \in 0..MaxWrites
  BY <1>1, <1>2, RulesKept DEF PolicyInv
<1>10. QED  BY <1>2, <1>8, <1>9, PolicyInvFrom

LEMMA IngestActKeeps ==
  ASSUME PolicyInv, NEW c \in Calls, IngestAct(c)
  PROVE  PolicyInv'
<1>1. RuleInv /\ CallsInv /\ PrefsInv
  BY DEF PolicyInv
<1>2. UNCHANGED <<rules, writes, ingested, own, prefs>> /\ Finish(c)
  BY DEF IngestAct
<1>3. PICK call : call = calls[c]
  OBVIOUS
<1>4. call \in PolicyRow /\ IngestSound(call)
  BY <1>1, <1>3, CallOf
<1>5. call.msg \in Messages /\ call.msg \in ingested
  BY <1>1, <1>3, <1>4 DEF IngestAct, At, IngestSound, CallsInv
<1>6. PICK d : acted' = [acted EXCEPT ![call.msg] = d]
  BY <1>3 DEF IngestAct
<1>7. acted' \in [Messages -> {acted'[m] : m \in Messages}]
  BY <1>6 DEF PolicyInv
<1>8. \A m \in Messages : m # call.msg => acted'[m] = acted[m]
  BY <1>6 DEF PolicyInv
<1>9. {m \in Messages : acted'[m] # None} \subseteq ingested'
  BY <1>2, <1>5, <1>8 DEF PolicyInv
<1>10. CallsInv' /\ PrefsInv'
  BY <1>1, <1>2, PolicyFinishes
<1>11. RuleInv' /\ writes' \in 0..MaxWrites
  BY <1>1, <1>2, RulesKept DEF PolicyInv
<1>12. QED  BY <1>7, <1>9, <1>10, <1>11 DEF PolicyInv

-----------------------------------------------------------------------------
LEMMA PolicyInvKept == PolicyInv /\ [Next]_policyVars => PolicyInv'
<1> SUFFICES ASSUME PolicyInv, [Next]_policyVars  PROVE PolicyInv'
  OBVIOUS
<1>1. CASE UNCHANGED policyVars
  <2>1. UNCHANGED <<rules, writes, calls, ingested, acted, own, prefs>>
    BY <1>1 DEF policyVars
  <2>2. RuleInv' /\ CallsInv' /\ PrefsInv'
    BY <2>1 DEF PolicyInv, RuleInv, CallsInv, PrefsInv, PrefsSound
  <2>3. writes' \in 0..MaxWrites
    BY <2>1 DEF PolicyInv
  <2>4. QED  BY <2>1, <2>2, <2>3, PolicyInvFrom
<1>2. CASE PolicyRoutes
  <2>1. CASE \E id \in Ids : Remove(id)
    BY <2>1, RemoveKeeps
  <2>2. CASE \E c \in Calls, id \in Ids \union {None}, input \in Inputs : SetBegin(c, id, input)
    <3>1. PICK c \in Calls, id \in Ids \union {None}, input \in Inputs : SetBegin(c, id, input)
      BY <2>2
    <3>2. input \in Wanted
      BY DEF Wanted
    <3>3. QED  BY <3>1, <3>2, SetBeginKeeps
  <2>3. QED  BY <1>2, <2>1, <2>2 DEF PolicyRoutes
<1>3. ASSUME NEW c \in Calls, NEW p \in Prompts, SetBegin(c, None, Understood(p))
      PROVE  PolicyInv'
  <2>1. PICK input : input = Understood(p)
    OBVIOUS
  <2>2. input \in Wanted /\ SetBegin(c, None, input)
    BY <1>3, <2>1 DEF Wanted
  <2>3. QED  BY <2>2, SetBeginKeeps
<1>4. ASSUME NEW c \in Calls,
             \/ SetFind(c) \/ SetUpdate(c) \/ SetMissed(c) \/ SetInsert(c)
             \/ SetRefused(c) \/ GiveUp(c)
      PROVE  PolicyInv'
  BY <1>4, SetFindKeeps, SetUpdateKeeps, SetInsertKeeps, EndingKeeps
<1>5. ASSUME NEW c \in Calls,
             \/ ReadPreferences(c) \/ SeedPreferences(c) \/ StorePreferences(c)
             \/ LookBegin(c) \/ RegisterBegin(c)
      PROVE  PolicyInv'
  BY <1>5, ReadPreferencesKeeps, SeedPreferencesKeeps, StorePreferencesKeeps, LookBeginKeeps
<1>6. ASSUME NEW c \in Calls, NEW preset \in Presets \union {None}, NEW choice \in Choices \union {None},
             TellBegin(c, preset, choice) \/ OnboardBegin(c, preset, choice)
      PROVE  PolicyInv'
  BY <1>6, TellBeginKeeps
<1>7. ASSUME NEW c \in Calls, NEW preset \in Presets, ResetBegin(c, preset)
      PROVE  PolicyInv'
  BY <1>7, ResetBeginKeeps
<1>8. ASSUME NEW c \in Calls, PresetWipe(c) \/ PresetFill(c) \/ PresetEnd(c)
      PROVE  PolicyInv'
  BY <1>8, PresetWipeKeeps, PresetFillKeeps, PresetEndKeeps
<1>9. ASSUME NEW c \in Calls,
             (\E m \in Messages : IngestBegin(c, m)) \/ IngestRead(c) \/ IngestReread(c) \/ IngestAct(c)
      PROVE  PolicyInv'
  BY <1>9, IngestBeginKeeps, IngestReadKeeps, IngestActKeeps
<1>10. QED
  BY <1>1, <1>2, <1>3, <1>4, <1>5, <1>6, <1>7, <1>8, <1>9 DEF Next

LEMMA PolicyInvHolds == PolicySpec => []PolicyInv
BY PolicyInitHolds, PolicyInvKept, PTL DEF PolicySpec

(* The rules and the calls of src/services/policy.ts have the shapes the   *)
(* service writes them with, and an action is of a message that was        *)
(* ingested: setPolicy, applyPreset and ingestEmail keep PolicyTypeOK.     *)
THEOREM PolicyTypeCorrect == PolicySpec => []PolicyTypeOK
<1>1. PolicyInv => PolicyTypeOK
  <2> SUFFICES ASSUME PolicyInv  PROVE PolicyTypeOK
    OBVIOUS
  <2>1. DOMAIN rules \subseteq Ids /\ own \subseteq Ids
    BY DEF PolicyInv, RuleInv
  <2>2. \A r \in GoodRow : RuleOK(r)
    BY DEF GoodRow, RuleRow, RuleOK
  <2>3. \A i \in DOMAIN rules : RuleOK(rules[i])
    BY <2>2 DEF PolicyInv, RuleInv
  <2>4. \A c \in Calls : calls[c].kind \in PolicyKinds /\ calls[c].pc \in PolicyStatements
                         /\ \A r \in calls[c].read : RuleOK(r)
    BY <2>2 DEF PolicyInv, CallsInv, PolicyShape, PolicyRow
  <2>5. prefs # None => prefs.preset \in Presets /\ prefs.settings \in Choices \union {None}
    BY DEF PolicyInv, PrefsInv, PrefsSound
  <2>6. writes \in 0..MaxWrites /\ {m \in Messages : acted[m] # None} \subseteq ingested
    BY DEF PolicyInv
  <2>7. QED
    BY <2>1, <2>3, <2>4, <2>5, <2>6 DEF PolicyTypeOK, PolicyKinds, PolicyStatements
<1>2. QED  BY <1>1, PolicyInvHolds, PTL

(* What the user has set stays until the user removes it: setPolicy makes  *)
(* the row the user's own, applyPreset wipes the system's rows only, and   *)
(* so no overlap of settings, presets and ingestions takes such a rule.    *)
THEOREM OwnRulesKept == PolicySpec => []OwnRulesStay
<1>1. PolicyInv => OwnRulesStay
  BY DEF PolicyInv, RuleInv, OwnRulesStay
<1>2. QED  BY <1>1, PolicyInvHolds, PTL

(* A decision once made is not made again; a new one is evaluatePolicies'  *)
(* own choice among the rules the call has read.                           *)
LEMMA ActedByMatched ==
  ASSUME PolicyInv, Next, NEW m \in Messages, acted'[m] # acted[m]
  PROVE  \E c \in Calls :
           \E r \in Matched(calls[c].read, m) :
             acted'[m].rule = r /\ acted'[m].matching = RulesFor(calls[c].read, m)
<1>1. acted' # acted
  OBVIOUS
<1>2. PICK c \in Calls : IngestAct(c)
  BY <1>1 DEF Next, PolicyRoutes, SetBegin, Remove, SetFind, SetUpdate, SetMissed, SetInsert,
              SetRefused, GiveUp, ReadPreferences, SeedPreferences, StorePreferences, LookBegin,
              TellBegin, OnboardBegin, ResetBegin, RegisterBegin, PresetWipe, PresetFill, PresetEnd,
              IngestBegin, IngestRead, IngestReread
<1>3. PICK call : call = calls[c]
  OBVIOUS
<1>4. PICK r \in Matched(call.read, call.msg) :
        acted' = [acted EXCEPT ![call.msg] =
                    [rule |-> r, action |-> Applied(r, call.msg),
                     matching |-> RulesFor(call.read, call.msg)]]
  BY <1>2, <1>3 DEF IngestAct, RulesFor
<1>5. PICK d : d = [rule |-> r, action |-> Applied(r, call.msg),
                    matching |-> RulesFor(call.read, call.msg)]
  OBVIOUS
<1>6. acted' = [acted EXCEPT ![call.msg] = d]
  BY <1>4, <1>5
<1>7. call.msg = m /\ acted'[m] = d
  BY <1>6 DEF PolicyInv
<1>8. d.rule = r /\ d.matching = RulesFor(call.read, m)
  BY <1>5, <1>7
<1>9. QED  BY <1>3, <1>4, <1>7, <1>8

LEMMA SpecificIsDecided ==
  MostSpecificWins <=> \A m \in Messages : acted[m] # None => DecidedWell(acted[m].matching, acted[m].rule)
BY DEF MostSpecificWins, DecidedWell

(* evaluatePolicies documents how specific each scope is.  Its loops and   *)
(* its sort by priority come to that order: with the service's own         *)
(* priorities the rule acted upon is the most specific of the rules read   *)
(* that match the message, whatever the rules and the messages are.        *)
THEOREM SpecificRuleWins == PolicySpec => []MostSpecificWins
<1>1. PolicyInit => MostSpecificWins
  BY DEF PolicyInit, MostSpecificWins
<1>2. PolicyInv /\ MostSpecificWins /\ [Next]_policyVars => MostSpecificWins'
  <2> SUFFICES ASSUME PolicyInv, MostSpecificWins, [Next]_policyVars  PROVE MostSpecificWins'
    OBVIOUS
  <2>1. \A m \in Messages : acted[m] # None => DecidedWell(acted[m].matching, acted[m].rule)
    BY SpecificIsDecided
  <2>2. ASSUME NEW m \in Messages, acted'[m] # None
        PROVE  DecidedWell(acted'[m].matching, acted'[m].rule)
    <3>1. CASE acted'[m] = acted[m]
      BY <2>1, <2>2, <3>1
    <3>2. CASE acted'[m] # acted[m]
      <4>1. Next
        BY <3>2 DEF policyVars
      <4>2. PICK c \in Calls :
              \E r \in Matched(calls[c].read, m) :
                acted'[m].rule = r /\ acted'[m].matching = RulesFor(calls[c].read, m)
        BY <3>2, <4>1, ActedByMatched
      <4>3. PICK read : read = calls[c].read
        OBVIOUS
      <4>4. read \in SUBSET GoodRow
        BY <4>3 DEF PolicyInv, CallsInv, PolicyShape, PolicyRow
      <4>5. PICK r \in Matched(read, m) : acted'[m].rule = r /\ acted'[m].matching = RulesFor(read, m)
        BY <4>2, <4>3
      <4>6. DecidedWell(RulesFor(read, m), r)
        BY <4>4, MatchedIsSpecific
      <4>7. QED  BY <4>5, <4>6
    <3>3. QED  BY <3>1, <3>2
  <2>3. (\A m \in Messages : acted[m] # None => DecidedWell(acted[m].matching, acted[m].rule))'
    BY <2>2
  <2>4. QED  BY <2>3 DEF MostSpecificWins, DecidedWell
<1>3. QED  BY <1>1, <1>2, PolicyInvHolds, PTL DEF PolicySpec

=============================================================================
