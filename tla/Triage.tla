------------------------------- MODULE Triage -------------------------------
(***************************************************************************)
(* The events the inbox is judged by: src/services/triage-events.ts        *)
(* (messages join events by their keys), src/services/triage.ts (an agent  *)
(* reads an event, judges it and saves the judgment; merge and unmerge;    *)
(* a change of the user's context) and src/services/inbox-state.ts.        *)
(*                                                                         *)
(* A call runs one statement at a time, and takes the time as a statement  *)
(* runs.  messageCount, firstObservedAt and lastObservedAt are recomputed  *)
(* by getEventContext and not kept; of the append-only decisions of an     *)
(* event only the latest is read and kept.  The version of the user's      *)
(* context is a hash of it: what is kept is whether a judgment's is still  *)
(* the current one.  Texts and the change log are left out.                *)
(***************************************************************************)
EXTENDS TriageFeatures, Races

CONSTANTS
  Mails, Events,         \* messages, ids of events
  Message,               \* what each message is
  Judgments,             \* what an agent may come to say
  MayFail,               \* statements may throw, the worker may go away
  MaxClock               \* bound: the last time

(* Neither the keys of a message nor its state depend on the time. *)
Identity(m) == deriveEventIdentity(Message[m], extractFeatures(Message[m], 0))
KeysOf == [m \in Mails |-> Identity(m).keys]
StateOf == [m \in Mails |-> Identity(m).observedState]
ReceivedAt == [m \in Mails |-> Message[m].receivedAt]
Keys == UNION {{KeysOf[m][i] : i \in DOMAIN KeysOf[m]} : m \in Mails}

ASSUME TriageAssumption ==
  /\ Message \in [Mails -> TriageFeatureMessage]
  /\ \A m, n \in Mails : ReceivedAt[m] = ReceivedAt[n] => m = n
  /\ Judgments \subseteq Judgment
  /\ None \notin Mails \union Events \union Judgments
  /\ MayFail \in BOOLEAN /\ MaxRaces \in Nat /\ MaxClock \in Nat

VARIABLES
  stored,      \* table emails: the messages ingested
  facts,       \* table message_facts
  member,      \* table triage_event_members: the event of each message
  superseded,  \* superseded_by_email_id of each member
  keys,        \* table triage_event_keys: the event of each key
  events,      \* table triage_events
  decisions,   \* table triage_decisions: the latest of each event
  clock,
  mixed        \* history: what has overlapped or failed so far

tables == <<stored, facts, member, superseded, keys, events, decisions>>
triageVars == <<tables, calls, clock, mixed, raced>>

EventRow == [into : Events \union {None}, state : {"active", "resolved"}]
(* "sees" is a history: the messages in front of the agent as it judged. *)
DecisionRow == [judgment : Judgments, stale : BOOLEAN, current : BOOLEAN, at : 0..MaxClock,
                sees : SUBSET Mails]
ASSUME TriageRowAssumption == None \notin EventRow \union DecisionRow \union TriageFacts

CallState == [pc : {"idle", "facts", "known", "match", "redirect", "create", "join", "keys",
                    "touch", "flag", "supersede", "judging", "save", "child", "link",
                    "linkFlag", "mark"},
              mail : Mails \union {None}, event : Events \union {None}, left : Seq(Keys),
              fresh : BOOLEAN, other : Events \union {None}, into : Events \union {None},
              sees : SUBSET Mails, judgment : Judgments \union {None}, current : BOOLEAN]
IdleTurn == [pc |-> "idle", mail |-> None, event |-> None, left |-> <<>>, fresh |-> FALSE,
             other |-> None, into |-> None, sees |-> {}, judgment |-> None,
             current |-> TRUE]

TriageInit ==
  /\ stored = {} /\ clock = 0
  /\ facts = [m \in Mails |-> None]
  /\ member = [m \in Mails |-> None]
  /\ superseded = [m \in Mails |-> None]
  /\ keys = [k \in Keys |-> None]
  /\ events = [e \in Events |-> None]
  /\ decisions = [e \in Events |-> None]
  /\ calls = [c \in Calls |-> IdleTurn]
  /\ mixed = {}
  /\ raced = 0

Leave(c) == calls' = [calls EXCEPT ![c] = IdleTurn]
Judging == {"judging", "save"}
Merging == {"child", "link", "linkFlag"}
Recording == {"facts", "known", "match", "redirect", "create", "join", "keys", "touch", "flag",
              "supersede"}
Some(pcs) == \E c \in Calls : calls[c].pc \in pcs

(* What a call beginning at pc mixes with: messages out of order, a        *)
(* judgment with what it may not have seen, a merge with a merge.          *)
Mixes(pc) ==
  {x \in {"order", "judgment", "merge"} :
     \/ x = "order" /\ pc \in Recording /\ Some(Recording)
     \/ x = "judgment" /\ IF pc \in Judging THEN Some(Recording \union Merging) ELSE Some(Judging)
     \/ x = "merge" /\ pc \in Merging /\ Some(Merging)}

Enter(c, call) ==
  /\ At(c, "idle")
  /\ calls' = [calls EXCEPT ![c] = call]
  /\ CountRace
  /\ mixed' = mixed \union Mixes(call.pc)
  /\ UNCHANGED <<tables, clock>>
OnlyCalls == UNCHANGED <<tables, clock, mixed, raced>>

Canonical(e) == events[e] # None /\ events[e].into = None
MembersOf(e) == {m \in Mails : member[m] = e}
(* getEventContext of a canonical event: its members and its aliases'. *)
Context(e) == {m \in Mails : member[m] # None /\ (member[m] = e \/ events[member[m]].into = e)}
Latest(ms) == CHOOSE m \in ms : \A n \in ms : ReceivedAt[n] <= ReceivedAt[m]

(* The facts of an event as they are now. *)
EventFacts(e) ==
  LET now(m) == refreshTemporalFacts(facts[m], clock)
  IN ForClamps(mergeFacts(now(Latest(Context(e))), {now(m) : m \in Context(e)}))

(* Of a judgment that is to be made anew, nothing else is asked again. *)
Flagged(es) == [e \in Events |->
  IF e \in es /\ decisions[e] # None
    THEN [decisions[e] EXCEPT !.stale = TRUE, !.current = FALSE, !.at = 0, !.sees = {}]
    ELSE decisions[e]]

(* The user's context is another: no judgment was made under it. *)
OutdatedDecisions == [e \in Events |->
  IF decisions[e] = None THEN None ELSE [decisions[e] EXCEPT !.current = FALSE]]
OutdatedCalls == [c \in Calls |-> IF At(c, "save") THEN [calls[c] EXCEPT !.current = FALSE] ELSE calls[c]]

-----------------------------------------------------------------------------
(* recordMessage, called by ingestEmail once the row of the message is     *)
(* inserted and the sender's profile, a part of the user's context, counts *)
(* it; and by scripts/replay.ts for any stored message.                    *)
Recorded(m) == [IdleTurn EXCEPT !.pc = "facts", !.mail = m, !.left = KeysOf[m]]

Ingest(c, m) ==
  /\ m \notin stored /\ ReceivedAt[m] <= clock
  /\ stored' = stored \union {m}
  /\ At(c, "idle")
  /\ calls' = [OutdatedCalls EXCEPT ![c] = Recorded(m)]
  /\ decisions' = OutdatedDecisions
  /\ CountRace
  /\ mixed' = mixed \union Mixes("facts")
       \union IF \E n \in stored : ReceivedAt[n] > ReceivedAt[m] THEN {"order"} ELSE {}
  /\ UNCHANGED <<facts, clock, member, superseded, keys, events>>

(* Bound: a replay begins alone. *)
Replay(c, m) ==
  /\ m \in stored
  /\ Quiet
  /\ Enter(c, Recorded(m))

(* An upsert: a replay extracts the facts anew. *)
WriteFacts(c) ==
  /\ At(c, "facts")
  /\ facts' = [facts EXCEPT ![calls[c].mail] = extractFeatures(Message[calls[c].mail], clock)]
  /\ Goto(c, "known")
  /\ UNCHANGED <<stored, clock, mixed, member, superseded, keys, events, decisions, raced>>

Known(c) ==
  /\ At(c, "known")
  /\ IF member[calls[c].mail] # None THEN Leave(c) ELSE Goto(c, "match")
  /\ OnlyCalls

Matches(m) == {keys[KeysOf[m][i]] : i \in DOMAIN KeysOf[m]} \ {None}
Match(c) ==
  /\ At(c, "match")
  /\ IF Matches(calls[c].mail) = {} THEN Goto(c, "create")
     ELSE \E e \in Matches(calls[c].mail) :
            calls' = [calls EXCEPT ![c].pc = "redirect", ![c].event = e]
  /\ OnlyCalls

Target(e) == IF events[e].into # None THEN events[e].into ELSE e
Redirect(c) ==
  /\ At(c, "redirect")
  /\ calls' = [calls EXCEPT ![c].pc = "join", ![c].event = Target(@)]
  /\ OnlyCalls

(* Bound: an event is made while Events has an id left. *)
Create(c) ==
  /\ At(c, "create")
  /\ \E e \in Events :
       /\ events[e] = None
       /\ events' = [events EXCEPT ![e] = [into |-> None, state |-> StateOf[calls[c].mail]]]
       /\ calls' = [calls EXCEPT ![c].pc = "join", ![c].event = e, ![c].fresh = TRUE]
  /\ UNCHANGED <<stored, facts, clock, mixed, member, superseded, keys, decisions, raced>>

Join(c) ==
  /\ At(c, "join")
  /\ member' = IF member[calls[c].mail] = None
                 THEN [member EXCEPT ![calls[c].mail] = calls[c].event] ELSE member
  /\ Goto(c, "keys")
  /\ UNCHANGED <<stored, facts, clock, mixed, superseded, keys, events, decisions, raced>>

(* onConflictDoNothing: a key stays with the event that has it. *)
KeysWith(k, e) == IF keys[k] = None THEN [keys EXCEPT ![k] = e] ELSE keys

AfterKeys(call) ==
  IF ~call.fresh THEN [call EXCEPT !.pc = "touch"]
  ELSE IF StateOf[call.mail] = "resolved" THEN [call EXCEPT !.pc = "supersede"] ELSE IdleTurn
InsertKey(c) ==
  /\ At(c, "keys")
  /\ keys' = KeysWith(Head(calls[c].left), calls[c].event)
  /\ LET call == [calls[c] EXCEPT !.left = Tail(@)]
     IN calls' = [calls EXCEPT ![c] = IF call.left = <<>> THEN AfterKeys(call) ELSE call]
  /\ UNCHANGED <<stored, facts, clock, mixed, member, superseded, events, decisions, raced>>

Touch(c) ==
  /\ At(c, "touch")
  /\ events' = [events EXCEPT ![calls[c].event].state = StateOf[calls[c].mail]]
  /\ Goto(c, "flag")
  /\ UNCHANGED <<stored, facts, clock, mixed, member, superseded, keys, decisions, raced>>

FlagJoined(c) ==
  /\ At(c, "flag")
  /\ decisions' = Flagged({calls[c].event})
  /\ IF StateOf[calls[c].mail] = "resolved" THEN Goto(c, "supersede") ELSE Leave(c)
  /\ UNCHANGED <<stored, facts, clock, mixed, member, superseded, keys, events, raced>>

Supersede(c) ==
  /\ At(c, "supersede")
  /\ superseded' = [m \in Mails |->
       IF member[m] = calls[c].event /\ m # calls[c].mail THEN calls[c].mail ELSE superseded[m]]
  /\ Leave(c)
  /\ UNCHANGED <<stored, facts, clock, mixed, member, keys, events, decisions, raced>>
-----------------------------------------------------------------------------
(* An agent's turn: getTriageBatch or getEventContext puts an event in     *)
(* front of it, and it takes its time; then save_triage_decisions or       *)
(* correct_triage_decision, which is prepareDecision - the judgment is     *)
(* accepted, the event is still canonical, the evidence is of a message    *)
(* it still has - and the insert.                                          *)
Judge(c, e) ==
  /\ Canonical(e)
  /\ Context(e) # {}
  /\ Enter(c, [IdleTurn EXCEPT !.pc = "judging", !.event = e, !.sees = Context(e)])

Prepare(c, j) ==
  /\ At(c, "judging")
  /\ \E cited \in calls[c].sees :
       IF Accepted(j) /\ Canonical(calls[c].event) /\ cited \in Context(calls[c].event)
         THEN calls' = [calls EXCEPT ![c].pc = "save", ![c].judgment = j, ![c].current = TRUE]
         ELSE Leave(c)
  /\ OnlyCalls

Save(c) ==
  /\ At(c, "save")
  /\ decisions' = [decisions EXCEPT ![calls[c].event] =
       [judgment |-> calls[c].judgment, stale |-> FALSE, current |-> calls[c].current,
        at |-> clock, sees |-> calls[c].sees]]
  /\ Leave(c)
  /\ UNCHANGED <<stored, facts, clock, mixed, member, superseded, keys, events, raced>>

(* setUserService, setUserCommitment: the row, then markUocChanged.        *)
(* Bound: it begins alone, or against a judgment about to be saved.        *)
ChangeContext(c) ==
  /\ At(c, "idle")
  /\ Quiet \/ Some({"save"})
  /\ calls' = [OutdatedCalls EXCEPT ![c] = [IdleTurn EXCEPT !.pc = "mark"]]
  /\ decisions' = OutdatedDecisions
  /\ CountRace
  /\ UNCHANGED <<stored, facts, clock, mixed, member, superseded, keys, events>>

markUocChanged(c) ==
  /\ At(c, "mark")
  /\ decisions' = Flagged(Events)
  /\ Leave(c)
  /\ UNCHANGED <<stored, facts, clock, mixed, member, superseded, keys, events, raced>>

-----------------------------------------------------------------------------
(* mergeEvents and unmergeEvent.  The two rows are read by one statement,  *)
(* the children of the source by the next.                                 *)
BeginMerge(c, source, target) ==
  /\ source # target
  /\ Canonical(source) /\ Canonical(target)
  /\ Enter(c, [IdleTurn EXCEPT !.pc = "child", !.event = source, !.other = target,
                               !.into = target])

ChildlessOrNot(e) == TRUE                  \* the look at the children left out
Childless(e) == \A x \in Events : events[x] # None => events[x].into # e
CheckChild(c) ==
  /\ At(c, "child")
  /\ IF Childless(calls[c].event) THEN Goto(c, "link") ELSE Leave(c)
  /\ OnlyCalls

BeginUnmerge(c, source) ==
  /\ events[source] # None
  /\ events[source].into # None
  /\ Enter(c, [IdleTurn EXCEPT !.pc = "link", !.event = source, !.other = events[source].into])

Link(c) ==
  /\ At(c, "link")
  /\ events' = [events EXCEPT ![calls[c].event].into = calls[c].into]
  /\ Goto(c, "linkFlag")
  /\ UNCHANGED <<stored, facts, clock, mixed, member, superseded, keys, decisions, raced>>

SourceOnly(c) == {calls[c].event}          \* the target's judgment left as it was
Linked(c) == {calls[c].event, calls[c].other}
FlagLinked(c) ==
  /\ At(c, "linkFlag")
  /\ decisions' = Flagged(Linked(c))
  /\ Leave(c)
  /\ UNCHANGED <<stored, facts, clock, mixed, member, superseded, keys, events, raced>>

-----------------------------------------------------------------------------
(* getInboxState: a judgment is flagged as it is read, for each of these   *)
(* reasons.  What is shown is the presentation of the moment.              *)
Reasons(e) ==
  LET d == decisions[e] IN
  {reason \in {"uoc", "message", "status", "time"} :
     \/ reason = "uoc" /\ ~d.current
     \/ reason = "message" /\ ReceivedAt[Latest(Context(e))] > d.at
     \/ reason = "status" /\ events[e].state = "resolved" /\ d.judgment.status # "resolved"
     \/ reason = "time" /\ \E m \in Context(e) : facts[m] # refreshTemporalFacts(facts[m], clock)}

InboxState(e) ==
  /\ Canonical(e) /\ Context(e) # {}
  /\ decisions[e] # None /\ ~decisions[e].stale
  /\ Reasons(e) # {}
  /\ decisions' = Flagged({e})
  /\ UNCHANGED <<stored, facts, clock, mixed, member, superseded, keys, events, calls, raced>>

Shown(e) == Presentation(decisions[e].judgment, EventFacts(e), events[e].state)

(* The queues of src/services/attention.ts; their order and their limits   *)
(* are left out, and whom a judgment waits on.  An event that awaits        *)
(* judgment is worth 30, just what the queue asks for.                     *)
BAND_COMPATIBILITY == [band \in Bands |-> IF band = Noise THEN 0 ELSE 100 - 20 * band]
compatibilityItem(e) ==
  IF decisions[e] = None THEN [workflowState |-> "fyi", attentionScore |-> 30]
  ELSE [workflowState |-> CASE Shown(e).lane = "action" -> "action_required"
                            [] Shown(e).lane = "suppressed" -> "automated"
                            [] OTHER -> "fyi",
        attentionScore |-> BAND_COMPATIBILITY[Shown(e).band]]
getAttentionQueue(minScore) ==
  {e \in Events : /\ Canonical(e) /\ Context(e) # {}
                  /\ compatibilityItem(e).attentionScore >= minScore}
getWaitingForUser ==
  {e \in getAttentionQueue(0) : compatibilityItem(e).workflowState = "action_required"}

(* Bound: MaxClock. *)
Tick ==
  /\ clock < MaxClock
  /\ clock' = clock + 1
  /\ UNCHANGED <<tables, calls, mixed, raced>>

(* A statement throws or the worker is gone. *)
Abandon(c) ==
  /\ MayFail /\ ~At(c, "idle") /\ ~At(c, "judging")
  /\ raced < MaxRaces
  /\ raced' = raced + 1
  /\ mixed' = mixed \union {"order", "judgment"}
  /\ Leave(c)
  /\ UNCHANGED <<tables, clock>>

-----------------------------------------------------------------------------
TriageNext ==
  \/ \E c \in Calls :
       \/ \E m \in Mails : Ingest(c, m) \/ Replay(c, m)
       \/ WriteFacts(c) \/ Known(c) \/ Match(c) \/ Redirect(c) \/ Create(c) \/ Join(c) \/ InsertKey(c)
       \/ Touch(c) \/ FlagJoined(c) \/ Supersede(c)
       \/ \E e \in Events : Judge(c, e) \/ BeginUnmerge(c, e)
       \/ \E j \in Judgments : Prepare(c, j)
       \/ Save(c) \/ ChangeContext(c) \/ markUocChanged(c)
       \/ \E e, f \in Events : BeginMerge(c, e, f)
       \/ CheckChild(c) \/ Link(c) \/ FlagLinked(c) \/ Abandon(c)
  \/ \E e \in Events : InboxState(e)
  \/ Tick

TriageSpec == TriageInit /\ [][TriageNext]_triageVars

-----------------------------------------------------------------------------
(* Every row is of its table's type. *)
TriageTypeOK ==
  /\ stored \subseteq Mails /\ clock \in 0..MaxClock
  /\ facts \in [Mails -> TriageFacts \union {None}]
  /\ member \in [Mails -> Events \union {None}]
  /\ superseded \in [Mails -> Mails \union {None}]
  /\ keys \in [Keys -> Events \union {None}]
  /\ events \in [Events -> EventRow \union {None}]
  /\ decisions \in [Events -> DecisionRow \union {None}]
  /\ calls \in [Calls -> CallState]
  /\ mixed \subseteq {"order", "judgment", "merge"} /\ raced \in 0..MaxRaces

(* Between calls, a judgment shown as up to date was made of the messages  *)
(* the event has now: through every message that joined it, one or two at  *)
(* a time, and every merge and unmerge since.  (Not if one of them was     *)
(* under way while the agent was judging; and not once merges have         *)
(* overlapped, for of events merged in a chain a message that joins the    *)
(* first is shown with the last, whose judgment it does not flag.)         *)
FreshBetweenCalls ==
  {"judgment", "merge"} \cap mixed = {} /\ Quiet => \A e \in Events :
    Canonical(e) /\ decisions[e] # None /\ ~decisions[e].stale => decisions[e].sees = Context(e)

(* A message that has joined an event is shown with one canonical event:   *)
(* merges one at a time hide none and show none twice, whatever else runs. *)
ShownOnce ==
  "merge" \notin mixed => \A m \in Mails : member[m] # None =>
    \E e \in Events : /\ Canonical(e) /\ m \in Context(e)
                      /\ \A f \in Events : Canonical(f) /\ m \in Context(f) => f = e

(* The action queue asks for nothing that is over: neither by the event's  *)
(* own latest message, as long as messages are recorded one by one in the  *)
(* order they were received, nor by its judgment, whatever floor a clamp   *)
(* lifts the band to; and none of its targets is called safe for a code    *)
(* that has run out since its message was read.                            *)
Expires(m) == {m.receivedAt + t : t \in IF m.ttl = {} THEN {1} ELSE m.ttl}
ActionIsLive ==
  \A e \in Events :
    Canonical(e) /\ decisions[e] # None /\ Context(e) # {} =>
      /\ Shown(e).safe => \A m \in Context(e) : "code" \in Message[m].signs =>
                             \A at \in Expires(Message[m]) : clock < at
      /\ /\ "order" \notin mixed /\ ~Some(Recording)
         /\ MembersOf(e) # {} /\ e \in getWaitingForUser
         => StateOf[Latest(MembersOf(e))] = "active" /\ ~Terminal(decisions[e].judgment)

(* docs/architecture/INBOX_INTELLIGENCE.md:69: relevant new messages mark  *)
(* a decision needsReevaluation.  Mail that was received before the        *)
(* judgment is saved may be ingested while the agent is judging.           *)
JudgedOnAll ==
  Quiet => \A e \in Events :
    Canonical(e) /\ decisions[e] # None /\ ~decisions[e].stale => Context(e) \subseteq decisions[e].sees

(* The same page: a judgment made of the messages there are, that nothing  *)
(* has changed since, is not asked for again.                              *)
SettledStaysSettled ==
  [][\A e \in Events : InboxState(e) /\ Quiet =>
       \/ ~decisions[e].current \/ decisions[e].at < clock
       \/ decisions[e].sees # Context(e) \/ "status" \in Reasons(e)]_triageVars
=============================================================================
