------------------------------- MODULE Mailbox -------------------------------
(***************************************************************************)
(* What one user's mailbox remembers: the messages a sync brings in with   *)
(* their flags, the counts of their threads and senders, and what the user *)
(* has said of those senders.  ingestEmail, mutateMailboxState and         *)
(* updateThreadState of src/services/email.ts, the service of              *)
(* relationships.ts, the searches of the providers that syncAccount asks,  *)
(* executePolicy of policy.ts and the purges of privacy.ts.                *)
(*                                                                         *)
(* No transaction spans the statements of a call, and what one statement   *)
(* has read another writes back: a call is a record whose pc names the     *)
(* statement it runs next.  The mail server is external.  Triage and the   *)
(* choice of a rule are modules of their own; here a rule's action is any  *)
(* of Actions.                                                             *)
(***************************************************************************)
EXTENDS Races, FiniteSets

CONSTANTS
  LastUid,    \* bound: messages the server ever holds, numbered as they come
  Window,     \* how many of the newest a search returns
  Senders,
  SenderOf(_),
  Threads,
  ThreadOf(_),
  Actions,    \* what rules do with a new message, of AllActions
  Types,      \* the kinds of relationship
  Projects,   \* names of projects
  MaxRows,    \* bound: rows made of one sender
  Kinds,      \* which of AllKinds are made
  MaxTold     \* bound: how often the user speaks of senders and flags

AllKinds == {"sync", "mutate", "relate", "associate", "look", "forget"}
UserActions == {"mark_read", "mark_unread", "archive"}
AllActions == {"archive", "mark_read", "keep_unread", "surface", "delete"}
Uids == 1..LastUid

ASSUME KindsOfCallsAssumption == Kinds \subseteq AllKinds /\ Actions \subseteq AllActions
ASSUME MailboxAssumption == {LastUid, Window, MaxRows} \subseteq Nat \ {0}
                            /\ {MaxTold, MaxRaces} \subseteq Nat
ASSUME SenderAssumption == \A m \in Uids : SenderOf(m) \in Senders /\ ThreadOf(m) \in Threads
(* No name, and no row of a table, is None. *)
ASSUME MailboxNoneAssumption ==
  None \notin Nat \union Senders \union Types \union Projects

VARIABLES
  inbox,      \* the server's INBOX: the numbers of its messages
  arrived,    \* the last number given
  emails,     \* table emails
  threads,    \* table thread_states: the message count, unique on the thread
  senders,    \* table sender_profiles, unique on the address
  relations,  \* table relationships, unique on the profile
  projects,   \* table projects: how many rows a name has
  rows,       \* rows made of each sender so far: the next row's id
  spoken,     \* how often the user has spoken
  promised,   \* history: messages that a sync has shown and ended without failing
  since,      \* history: messages counted since the sender memory was last deleted
  told        \* history: what the user has said, of senders and of messages

memory == <<threads, senders, relations, projects, rows>>
history == <<promised, since, told>>
boxVars == <<inbox, arrived, emails, memory, calls, raced, spoken, history>>

-----------------------------------------------------------------------------
Flags == [unread : BOOLEAN, archived : BOOLEAN, starred : BOOLEAN]
NewFlags == [unread |-> TRUE, archived |-> FALSE, starred |-> FALSE]
EmailRow == [flags : Flags, body : BOOLEAN]
ProfileRow == [id : 1..MaxRows, seen : Nat]
RelationRow == [id : 1..MaxRows, type : Types \union {"unknown"}, projects : SUBSET Projects]
ASSUME MailboxRowAssumption == None \notin Flags \union EmailRow \union ProfileRow \union RelationRow

IdleCall == [kind |-> "idle", pc |-> "idle", shown |-> {}, left |-> {}, msg |-> None,
             sender |-> None, type |-> None, project |-> None, action |-> None,
             profile |-> None, thread |-> None, flags |-> None, relation |-> None]

SaidNothing == [types |-> [s \in Senders |-> None], projects |-> [s \in Senders |-> {}],
                flags |-> [m \in Uids |-> None]]

MailboxInit ==
  /\ inbox = {} /\ arrived = 0
  /\ emails = [m \in Uids |-> None]
  /\ threads = [t \in Threads |-> None]
  /\ senders = [s \in Senders |-> None]
  /\ relations = [s \in Senders |-> None]
  /\ projects = [p \in Projects |-> 0]
  /\ rows = [s \in Senders |-> 0]
  /\ calls = [c \in Calls |-> IdleCall]
  /\ raced = 0 /\ spoken = 0
  /\ promised = {} /\ since = {} /\ told = SaidNothing

End(c) == calls' = [calls EXCEPT ![c] = IdleCall]
Begin(c, call) == At(c, "idle") /\ call.kind \in Kinds /\ Go(c, call) /\ CountRace
Speak == spoken < MaxTold /\ spoken' = spoken + 1
World == UNCHANGED <<inbox, arrived, raced, spoken, promised>>
OnlyReads == UNCHANGED <<inbox, arrived, emails, memory, raced, spoken, history>>

(* A statement that throws ends the call, or in a sync the one message. *)
Threw(call) == IF call.kind = "sync"
               THEN [IdleCall EXCEPT !.kind = "sync", !.pc = "next",
                                     !.shown = call.shown, !.left = call.left]
               ELSE IdleCall

-----------------------------------------------------------------------------
(* The server: mail comes, and other clients move it out of the INBOX. *)
Arrive ==
  /\ arrived < LastUid
  /\ arrived' = arrived + 1
  /\ inbox' = inbox \union {arrived + 1}
  /\ UNCHANGED <<emails, memory, calls, raced, spoken, history>>

MoveOut(m) ==
  /\ m \in inbox
  /\ inbox' = inbox \ {m}
  /\ UNCHANGED <<arrived, emails, memory, calls, raced, spoken, history>>

(* search: the newest messages of the INBOX, whatever was stored before. *)
Newest == {m \in inbox : Cardinality({n \in inbox : n > m}) < Window}
Sync(c, found) ==
  /\ Begin(c, [IdleCall EXCEPT !.kind = "sync", !.pc = "next", !.shown = found, !.left = found])
  /\ UNCHANGED <<inbox, arrived, emails, memory, spoken, history>>

BeginSync(c) == Sync(c, Newest)

(* Gmail's search asks for those the table does not have, each by itself,  *)
(* and returns without the ones it could not get.                          *)
BeginGmailSync(c) == \E got \in SUBSET Newest : Sync(c, {m \in got : emails[m] = None})

(* The messages are ingested from the newest to the oldest. *)
NextMessage(c) ==
  LET call == calls[c] IN
  /\ At(c, "next")
  /\ IF call.left = {}
     THEN promised' = promised \union call.shown /\ End(c)
     ELSE /\ LET m == CHOOSE n \in call.left : \A o \in call.left : n >= o IN
               Go(c, [call EXCEPT !.pc = "exists", !.msg = m, !.left = @ \ {m},
                                  !.sender = SenderOf(m)])
          /\ UNCHANGED promised
  /\ UNCHANGED <<inbox, arrived, emails, memory, raced, spoken, since, told>>

(* ingestEmail: a message that is stored is left as it is ... *)
IngestedThread(m) == threads[ThreadOf(m)] # None     \* its thread is known
Ingested(m) == emails[m] # None
AfterActs(call) == "saved"                           \* the rules act upon it again
After(call) == "next"
FindEmail(c) ==
  LET call == calls[c] IN
  /\ At(c, "exists")
  /\ Goto(c, IF Ingested(call.msg) THEN After(call) ELSE "insert")
  /\ OnlyReads

(* ... and one that another sync has stored meanwhile throws. *)
InsertEmail(c) ==
  LET call == calls[c] IN
  /\ At(c, "insert")
  /\ IF emails[call.msg] # None
     THEN Go(c, Threw(call)) /\ UNCHANGED emails
     ELSE /\ emails' = [emails EXCEPT ![call.msg] = [flags |-> NewFlags, body |-> TRUE]]
          /\ Goto(c, "profile")
  /\ World /\ UNCHANGED <<memory, since, told>>

(* getOrCreateSenderProfile: every call that needs a sender makes one. *)
AfterProfile == [sync |-> "seen", relate |-> "relation", associate |-> "project",
                 look |-> "idle"]
ReadProfile(c) ==
  LET call == calls[c] IN
  /\ At(c, "profile")
  /\ IF senders[call.sender] = None THEN Goto(c, "newProfile")
     ELSE Go(c, IF call.kind = "look" THEN IdleCall
                ELSE [call EXCEPT !.pc = AfterProfile[call.kind],
                                  !.profile = senders[call.sender]])
  /\ OnlyReads

InsertProfile(c) ==
  LET call == calls[c]
      s    == call.sender
      row  == [id |-> rows[s] + 1, seen |-> 1]
  IN
  /\ At(c, "newProfile")
  /\ rows[s] < MaxRows
  /\ IF senders[s] # None
     THEN Go(c, Threw(call)) /\ UNCHANGED <<senders, rows>>
     ELSE /\ senders' = [senders EXCEPT ![s] = row]
          /\ rows' = [rows EXCEPT ![s] = @ + 1]
          /\ Go(c, IF call.kind = "look" THEN IdleCall
                   ELSE [call EXCEPT !.pc = AfterProfile[call.kind], !.profile = row])
  /\ World /\ UNCHANGED <<emails, threads, relations, projects, since, told>>

(* The row a call has read is still there. *)
HasProfile(call) == senders[call.sender] # None /\ senders[call.sender].id = call.profile.id

(* recordMessageReceived writes the count it has read and one more. *)
Seen(profile) == profile.seen + 1
CountSender(c) ==
  LET call == calls[c]
      s    == call.sender
      same == HasProfile(call)
  IN
  /\ At(c, "seen")
  /\ senders' = IF same THEN [senders EXCEPT ![s].seen = Seen(call.profile)] ELSE senders
  /\ since' = IF same THEN since \union {call.msg} ELSE since
  /\ Go(c, [call EXCEPT !.pc = "thread", !.profile = None])
  /\ World /\ UNCHANGED <<emails, threads, relations, projects, rows, told>>

(* updateThreadState *)
ReadThread(c) ==
  /\ At(c, "thread")
  /\ Go(c, [calls[c] EXCEPT !.pc = "count", !.thread = threads[ThreadOf(calls[c].msg)]])
  /\ OnlyReads

CountedAfresh(old) == 1
Counted(old) == IF old = None THEN 1 ELSE old + 1
CountThread(c) ==
  LET call == calls[c]
      t    == ThreadOf(call.msg)
  IN
  /\ At(c, "count")
  /\ IF call.thread = None /\ threads[t] # None
     THEN Go(c, Threw(call)) /\ UNCHANGED threads
     ELSE /\ threads' = [threads EXCEPT ![t] = Counted(call.thread)]
          /\ Go(c, [call EXCEPT !.pc = "saved", !.thread = None])
  /\ World /\ UNCHANGED <<emails, senders, relations, projects, rows, since, told>>

(* executePolicy acts upon the message as getEmail has read it. *)
Saved(c) ==
  /\ At(c, "saved")
  /\ \E action \in Actions :
       Go(c, [calls[c] EXCEPT !.pc = "act", !.flags = emails[calls[c].msg].flags,
                              !.action = action])
  /\ OnlyReads

Acted(flags, action) ==
  CASE action = "archive"     -> [flags EXCEPT !.archived = TRUE]
    [] action = "mark_read"   -> [flags EXCEPT !.unread = FALSE]
    [] action \in {"keep_unread", "mark_unread"} -> [flags EXCEPT !.unread = TRUE]
    [] action = "surface"     -> [flags EXCEPT !.starred = TRUE]
    [] OTHER -> flags

Act(c) ==
  LET call == calls[c] IN
  /\ At(c, "act")
  /\ emails' = [emails EXCEPT ![call.msg].flags = Acted(call.flags, call.action)]
  /\ Go(c, Threw(call))
  /\ World /\ UNCHANGED <<memory, since, told>>

-----------------------------------------------------------------------------
(* mutateMailboxState: the user marks or archives a stored message. *)
BeginMutate(c, m, action) ==
  /\ Ingested(m)
  /\ Begin(c, [IdleCall EXCEPT !.kind = "mutate", !.pc = "flag", !.msg = m,
                               !.flags = emails[m].flags, !.action = action])
  /\ Speak
  /\ UNCHANGED <<inbox, arrived, emails, memory, history>>

Flag(c) ==
  LET call == calls[c]
      said == Acted(IF told.flags[call.msg] = None THEN call.flags ELSE told.flags[call.msg],
                    call.action)
  IN
  /\ At(c, "flag")
  /\ emails' = [emails EXCEPT ![call.msg].flags = Acted(call.flags, call.action)]
  /\ told' = [told EXCEPT !.flags[call.msg] = said]
  /\ End(c)
  /\ World /\ UNCHANGED <<memory, since>>

(* What the user says of a sender, or asks about one. *)
BeginRelate(c, s, type) ==
  /\ Begin(c, [IdleCall EXCEPT !.kind = "relate", !.pc = "profile", !.sender = s,
                               !.type = type])
  /\ Speak
  /\ UNCHANGED <<inbox, arrived, emails, memory, history>>

BeginAssociate(c, s, p) ==
  /\ Begin(c, [IdleCall EXCEPT !.kind = "associate", !.pc = "profile", !.sender = s,
                               !.project = p])
  /\ Speak
  /\ UNCHANGED <<inbox, arrived, emails, memory, history>>

BeginLook(c, s) ==
  /\ Begin(c, [IdleCall EXCEPT !.kind = "look", !.pc = "profile", !.sender = s])
  /\ Speak
  /\ UNCHANGED <<inbox, arrived, emails, memory, history>>

(* getOrCreateProject: nothing keeps two rows of one name apart. *)
ReadProject(c) ==
  /\ At(c, "project")
  /\ Goto(c, IF projects[calls[c].project] > 0 THEN "relation" ELSE "newProject")
  /\ OnlyReads

InsertProject(c) ==
  /\ At(c, "newProject")
  /\ projects' = [projects EXCEPT ![calls[c].project] = @ + 1]
  /\ Goto(c, "relation")
  /\ World /\ UNCHANGED <<emails, threads, senders, relations, rows, since, told>>

ReadRelation(c) ==
  /\ At(c, "relation")
  /\ Go(c, [calls[c] EXCEPT !.pc = "relate", !.relation = relations[calls[c].sender]])
  /\ OnlyReads

(* An update sets what the call is about and leaves the rest of the row;   *)
(* the list of projects is the one read, and the new one.                  *)
Associated(row, read, project) == [row EXCEPT !.projects = read.projects \union {project}]
Joined(row, read, call) ==
  IF call.kind = "relate" THEN [row EXCEPT !.type = call.type]
                          ELSE Associated(row, read, call.project)
Heard(call) ==
  IF call.kind = "relate"
  THEN [told EXCEPT !.types[call.sender] = call.type]
  ELSE [told EXCEPT !.projects[call.sender] = @ \union {call.project}]
WriteRelation(c) ==
  LET call == calls[c]
      s    == call.sender
      old  == relations[s]
      new  == [id |-> rows[s] + 1, type |-> "unknown", projects |-> {}]
  IN
  /\ At(c, "relate")
  /\ CASE call.relation # None ->
            /\ relations' = IF old # None /\ old.id = call.relation.id
                            THEN [relations EXCEPT ![s] = Joined(old, call.relation, call)]
                            ELSE relations
            /\ told' = Heard(call)
            /\ UNCHANGED rows
       [] call.relation = None /\ old = None /\ HasProfile(call) ->
            /\ rows[s] < MaxRows
            /\ relations' = [relations EXCEPT ![s] = Joined(new, new, call)]
            /\ rows' = [rows EXCEPT ![s] = @ + 1]
            /\ told' = Heard(call)
       [] OTHER -> UNCHANGED <<relations, rows, told>>      \* the insert throws
  /\ End(c)
  /\ World /\ UNCHANGED <<emails, threads, senders, projects, since>>

-----------------------------------------------------------------------------
(* deleteSenderMemory, and deleteCachedEmailBodies *)
BeginForget(c) ==
  /\ Begin(c, [IdleCall EXCEPT !.kind = "forget", !.pc = "forgetRelations"])
  /\ Speak
  /\ UNCHANGED <<inbox, arrived, emails, memory, history>>

ForgetRelations(c) ==
  /\ At(c, "forgetRelations")
  /\ relations' = [s \in Senders |-> None]
  /\ told' = [SaidNothing EXCEPT !.flags = told.flags]
  /\ Goto(c, "forgetSenders")
  /\ World /\ UNCHANGED <<emails, threads, senders, projects, rows, since>>

(* A relationship goes with its profile (on delete cascade). *)
ForgetSenders(c) ==
  /\ At(c, "forgetSenders")
  /\ senders' = [s \in Senders |-> None]
  /\ relations' = [s \in Senders |-> None]
  /\ since' = {}
  /\ End(c)
  /\ World /\ UNCHANGED <<emails, threads, projects, rows, told>>

PurgeBodies ==
  /\ Speak
  /\ emails' = [m \in Uids |-> IF emails[m] = None THEN None
                               ELSE [emails[m] EXCEPT !.body = FALSE]]
  /\ UNCHANGED <<inbox, arrived, memory, calls, raced, history>>

(* A statement throws; in a sync the message is skipped and not promised. *)
Fail(c) ==
  /\ ~At(c, "idle")
  /\ raced < MaxRaces
  /\ raced' = raced + 1
  /\ Go(c, [Threw(calls[c]) EXCEPT !.shown = @ \ {calls[c].msg}])
  /\ UNCHANGED <<inbox, arrived, emails, memory, spoken, history>>

(* The worker is gone. *)
Crash(c) ==
  /\ ~At(c, "idle")
  /\ raced < MaxRaces
  /\ raced' = raced + 1
  /\ End(c)
  /\ UNCHANGED <<inbox, arrived, emails, memory, spoken, history>>

(* The user's privacy: the bodies go, or what is remembered of senders.    *)
PrivacyRoutes == PurgeBodies \/ \E c \in Calls : BeginForget(c)

MailboxNext ==
  \/ Arrive \/ PrivacyRoutes
  \/ \E m \in Uids : MoveOut(m)
  \/ \E c \in Calls :
       \/ BeginSync(c) \/ BeginGmailSync(c) \/ NextMessage(c) \/ FindEmail(c) \/ InsertEmail(c)
       \/ ReadProfile(c) \/ InsertProfile(c) \/ CountSender(c)
       \/ ReadThread(c) \/ CountThread(c) \/ Saved(c) \/ Act(c)
       \/ \E m \in Uids, action \in UserActions : BeginMutate(c, m, action)
       \/ Flag(c)
       \/ \E s \in Senders : \/ BeginLook(c, s)
                             \/ \E type \in Types : BeginRelate(c, s, type)
                             \/ \E p \in Projects : BeginAssociate(c, s, p)
       \/ ReadProject(c) \/ InsertProject(c) \/ ReadRelation(c) \/ WriteRelation(c)
       \/ ForgetRelations(c) \/ ForgetSenders(c)
       \/ Fail(c) \/ Crash(c)

MailboxSpec == MailboxInit /\ [][MailboxNext]_boxVars

-----------------------------------------------------------------------------
(* Rows are of their tables' types, and a relationship has its profile. *)
MailboxTypeOK ==
  /\ inbox \subseteq 1..arrived /\ arrived \in 0..LastUid
  /\ emails \in [Uids -> EmailRow \union {None}]
  /\ threads \in [Threads -> Nat \union {None}]
  /\ senders \in [Senders -> ProfileRow \union {None}]
  /\ relations \in [Senders -> RelationRow \union {None}]
  /\ projects \in [Projects -> Nat]
  /\ rows \in [Senders -> 0..MaxRows]
  /\ raced \in 0..MaxRaces /\ spoken \in 0..MaxTold
  /\ \A s \in Senders : relations[s] # None => senders[s] # None

(* A message that was among those a sync was shown is stored when the sync *)
(* has ended, whatever other sync has taken it from under it.              *)
ShownIsStored == \A m \in promised : Ingested(m)

(* As long as calls come one at a time and none fails, a thread counts its *)
(* stored messages, and a sender those counted since the memory was last   *)
(* deleted and one more, for the row that is made for the first message    *)
(* already counts one.                                                     *)
CountsWhenAlone ==
  raced = 0 /\ Quiet =>
    /\ \A t \in Threads : LET n == Cardinality({m \in Uids : Ingested(m) /\ ThreadOf(m) = t}) IN
         threads[t] = IF n = 0 THEN None ELSE n
    /\ \A s \in Senders : senders[s] # None =>
         senders[s].seen = 1 + Cardinality({m \in since : SenderOf(m) = s})

(* As long as calls come one at a time and none fails, a message stays as  *)
(* the user has marked it: no later sync or rule takes the mark away.      *)
MarksWhenAlone ==
  raced = 0 /\ Quiet => \A m \in Uids : told.flags[m] # None => emails[m].flags = told.flags[m]

(* ... and what the user has said of a sender is what is remembered: the   *)
(* last kind of relationship and every project, each project once.         *)
SaidWhenAlone ==
  raced = 0 /\ Quiet =>
    /\ \A s \in Senders :
         IF relations[s] = None THEN told.types[s] = None /\ told.projects[s] = {}
         ELSE /\ relations[s].type = IF told.types[s] = None THEN "unknown" ELSE told.types[s]
              /\ relations[s].projects = told.projects[s]
    /\ \A p \in Projects : projects[p] <= 1

(* No message is passed over: all that arrived before one that is stored   *)
(* are stored or have left the INBOX unseen.                               *)
NothingPassedOver ==
  Quiet => \A m, n \in inbox : m < n /\ Ingested(n) => Ingested(m)
=============================================================================
