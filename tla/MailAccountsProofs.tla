-------------------------- MODULE MailAccountsProofs --------------------------
(***************************************************************************)
(* Proofs about MailAccounts, for any number of users, addresses, accounts *)
(* and credentials, any number of calls in flight and any plan.            *)
(***************************************************************************)
EXTENDS MailAccounts, FiniteSetTheorems, TLAPS

(* The steps of connecting, before and after the account is there, of      *)
(* removing and of syncing.                                                *)
Before == {"capacity", "account"}
After == {"update", "readConnection", "connection", "readIdentity", "identity", "sync"}
Removing == {"dropConnection", "turnOff", "wipeMail", "wipeIdentity", "dropAccount"}
Syncing == {"provider", "search", "ingest", "store", "settle"}
Pcs == {"idle"} \union Before \union After \union Removing \union Syncing

(* A call that connects holds credentials of its user's, for an account    *)
(* that is the user's as long as it is there, and that is not off.         *)
Holds(call) ==
  /\ call.user \in Users /\ call.address \in Addresses /\ call.creds \in Creds
  /\ secrets[call.creds] # None
  /\ secrets[call.creds].owner = call.user
  /\ secrets[call.creds].provider = Provider[call.form]
  /\ call.account \notin off
InStep(call) ==
  /\ call.form # None <=> call.pc \in Before \union After
  /\ call.form # None => Holds(call)
  /\ call.pc \in Before => call.account = None
  /\ call.pc \in After \union Removing \union Syncing => call.account \in issued
  /\ call.pc \in After /\ Live(call.account) => accounts[call.account].owner = call.user
  /\ call.pc \in Syncing => call.user \in Users
  /\ call.pc = "store" => call.message \in Messages
  /\ ~call.late

(* Ids are given once, an address has one account, a connection holds the  *)
(* owner's credentials, and an account that is off has none.               *)
RowsInStep ==
  /\ \A a \in Accounts : Live(a) => a \in issued
  /\ \A a, b \in Mailboxes : accounts[a].address = accounts[b].address => a = b
  /\ \A a \in Accounts : connections[a] # None =>
       /\ secrets[connections[a].creds] # None
       /\ secrets[connections[a].creds].owner = accounts[a].owner
  /\ off \subseteq issued /\ \A a \in off : connections[a] = None

RowsTyped ==
  /\ members \subseteq Users /\ issued \subseteq Accounts
  /\ accounts \in [Accounts -> AccountRow \union {None}]
  /\ connections \in [Accounts -> ConnectionRow \union {None}]
  /\ mail \in [Accounts -> SUBSET Messages]
  /\ secrets \in [Creds -> Secret \union {None}]
  /\ raced \in 0..MaxRaces
  /\ \A a \in Accounts : ~Live(a) =>
       connections[a] = None /\ a \notin identities /\ mail[a] = {}
MailInv ==
  /\ RowsTyped /\ calls \in [Calls -> CallState] /\ RowsInStep
  /\ \A c \in Calls : InStep(calls[c])

(* While calls come one at a time: the account a call is at work on is     *)
(* there and as far as the call has come, and every other account is       *)
(* complete.                                                               *)
Served(a) == connections[a] # None /\ connections[a].provider = accounts[a].provider
ServedIfShown(a) == accounts[a].status = "connected" => Served(a)
Complete(a) == a \in identities /\ ServedIfShown(a)
(* Writing the connection will make it one of the account's provider.      *)
Prepared(call, a) ==
  accounts[a].status = "connected" =>
    \/ call.form # "proton" /\ accounts[a].provider = Provider[call.form]
    \/ call.form = "proton" /\ connections[a] = None /\ accounts[a].provider = "proton"
    \/ call.form = "proton" /\ Served(a)
CallAlone(call) ==
  LET a == call.account IN
  /\ call.pc \in After \union Removing \union Syncing => Live(a)
  /\ call.pc = "update" => call.form # "proton"
  /\ call.pc \in {"update", "sync", "dropConnection", "provider"} => Complete(a)
  /\ call.pc = "readConnection" => Prepared(call, a) /\ (call.form \in Portal => a \in identities)
  /\ call.pc = "connection" => /\ Prepared(call, a) /\ (call.form \in Portal => a \in identities)
                               /\ call.row = connections[a]
  /\ call.pc = "readIdentity" => ServedIfShown(a) /\ call.form \notin Portal
  /\ call.pc = "identity" => /\ a \notin identities
                             /\ call.form \in Portal => Prepared(call, a)
                             /\ call.form \notin Portal => ServedIfShown(a)
  /\ call.pc = "turnOff" => a \in identities
  /\ call.pc \in {"search", "ingest", "store", "settle"} => a \in identities /\ Served(a)
OneCall == \A c, o \in Calls : c # o => At(c, "idle") \/ At(o, "idle")
CompleteBut(x) == \A a \in Mailboxes : a # x => Complete(a)
UseInv == raced = 0 =>
  /\ \A c \in Calls : CallAlone(calls[c])
  /\ Quiet => CompleteBut(None)
  /\ \A c \in Calls : ~At(c, "idle") => CompleteBut(calls[c].account)

(* The plan is compared and the account inserted with nothing in between.  *)
CountInv ==
  /\ IsFiniteSet(Mailboxes)
  /\ raced = 0 => /\ OneCall
                  /\ Cardinality(Mailboxes) <= MaxMailboxes
                  /\ \A c \in Calls : At(c, "account") => Cardinality(Mailboxes) < MaxMailboxes
-----------------------------------------------------------------------------
(* The records a step writes, field by field.                              *)
Moves(c, new) == new \in CallState /\ calls' = [calls EXCEPT ![c] = new]
SameCall(new, call) ==
  /\ new.form = call.form /\ new.user = call.user /\ new.address = call.address
  /\ new.account = call.account /\ new.creds = call.creds /\ new.row = call.row
  /\ new.removal = call.removal /\ new.left = call.left /\ new.message = call.message
  /\ new.late = call.late
Free(call) == call.form = None /\ call.row = None /\ call.message = None /\ ~call.late

LEMMA IdleFields ==
  /\ IdleCall \in CallState /\ IdleCall.pc = "idle" /\ IdleCall.form = None
  /\ IdleCall.user = None /\ IdleCall.address = None /\ IdleCall.account = None
  /\ IdleCall.creds = None /\ IdleCall.row = None /\ IdleCall.removal = FALSE
  /\ IdleCall.left = {} /\ IdleCall.message = None /\ IdleCall.late = FALSE
BY DEF IdleCall, CallState

LEMMA GotoMoves ==
  ASSUME calls \in [Calls -> CallState], NEW c \in Calls, NEW pc \in Pcs, Goto(c, pc)
  PROVE  \E new \in CallState : Moves(c, new) /\ new.pc = pc /\ SameCall(new, calls[c])
<1> DEFINE new == [calls[c] EXCEPT !.pc = pc]
<1>1. calls[c] \in CallState
  OBVIOUS
<1>2. new \in CallState
  BY <1>1 DEF CallState, Pcs, Before, After, Removing, Syncing
<1>3. new.pc = pc /\ SameCall(new, calls[c])
  BY <1>1 DEF CallState, SameCall
<1>4. calls' = [calls EXCEPT ![c] = new]
  BY DEF Goto
<1> HIDE DEF new
<1> QED  BY <1>2, <1>3, <1>4 DEF Moves

LEMMA EndMoves ==
  ASSUME NEW c \in Calls, End(c)
  PROVE  Moves(c, IdleCall)
BY IdleFields DEF End, Moves

LEMMA MovesFields ==
  ASSUME calls \in [Calls -> CallState], NEW c \in Calls, NEW new, Moves(c, new)
  PROVE  /\ calls' \in [Calls -> CallState] /\ calls'[c] = new
         /\ \A o \in Calls : o # c => calls'[o] = calls[o]
BY DEF Moves

LEMMA FormFields ==
  ASSUME NEW form \in AllForms
  PROVE  form # None /\ Provider[form] \in Providers
BY NoAccountAssumption DEF AllForms, Provider, Providers

LEMMA CallParts ==
  ASSUME MailInv, NEW c \in Calls
  PROVE  /\ calls[c] \in CallState /\ calls \in [Calls -> CallState] /\ InStep(calls[c])
         /\ calls[c].pc \in Pcs /\ RowsTyped /\ RowsInStep
BY DEF MailInv, CallState, Pcs, Before, After, Removing, Syncing

LEMMA CountRaceType ==
  ASSUME raced \in 0..MaxRaces, CountRace \/ UNCHANGED raced \/ (raced < MaxRaces /\ raced' = raced + 1)
  PROVE  raced' \in 0..MaxRaces
BY MailboxBoundsAssumption DEF CountRace

-----------------------------------------------------------------------------
(* A step of one call keeps the invariant when the tables move the way the *)
(* others count on: credentials stay whose they are, ids stay given, an    *)
(* account keeps its owner and none that is gone comes back.               *)
TablesAdvance(c) ==
  /\ \A s \in Creds : secrets[s] # None => secrets'[s] = secrets[s]
  /\ issued \subseteq issued'
  /\ \A a \in issued : accounts'[a] # None =>
       accounts[a] # None /\ accounts'[a].owner = accounts[a].owner
  /\ \A o \in Calls : o # c /\ calls[o].form # None => calls[o].account \notin off'

LEMMA StepKeeps ==
  ASSUME MailInv, NEW c \in Calls, NEW new, Moves(c, new), RowsTyped', RowsInStep',
         TablesAdvance(c), InStep(new)'
  PROVE  MailInv'
<1>1. /\ calls' \in [Calls -> CallState] /\ calls'[c] = new
      /\ \A o \in Calls : o # c => calls'[o] = calls[o]
  BY MovesFields DEF MailInv
<1>2. ASSUME NEW o \in Calls, o # c  PROVE InStep(calls[o])'
  <2>1. PICK call : call = calls[o]
    OBVIOUS
  <2>2. InStep(call) /\ calls'[o] = call
    BY <1>1, <1>2, <2>1, CallParts
  <2>3. call.form # None => Holds(call)'
    BY <1>2, <2>1, <2>2 DEF InStep, Holds, TablesAdvance
  <2>4. call.pc \in After \union Removing \union Syncing => call.account \in issued'
    BY <2>2 DEF InStep, TablesAdvance
  <2>5. call.pc \in After => (Live(call.account)' => accounts'[call.account].owner = call.user)
    BY <2>2 DEF InStep, TablesAdvance, Live
  <2> QED  BY <2>2, <2>3, <2>4, <2>5 DEF InStep
<1> QED  BY <1>1, <1>2 DEF MailInv

LEMMA RowsStand ==
  ASSUME MailInv, UNCHANGED rowsOf, raced' \in 0..MaxRaces
  PROVE  RowsTyped' /\ RowsInStep' /\ \A c \in Calls : TablesAdvance(c)
<1>1. RowsTyped' /\ RowsInStep'
  BY DEF MailInv, rowsOf, tables, RowsTyped, RowsInStep, Live, Mailboxes
<1>2. ASSUME NEW c \in Calls  PROVE TablesAdvance(c)
  BY CallParts DEF rowsOf, tables, TablesAdvance, InStep, Holds
<1> QED  BY <1>1, <1>2

(* A step that only reads.                                                 *)
LEMMA QuietKeeps ==
  ASSUME MailInv, NEW c \in Calls, NEW new, Moves(c, new), UNCHANGED rowsOf,
         CountRace \/ UNCHANGED raced \/ (raced < MaxRaces /\ raced' = raced + 1),
         InStep(new)
  PROVE  MailInv'
<1>1. raced' \in 0..MaxRaces
  BY CountRaceType DEF MailInv, RowsTyped
<1>2. InStep(new)'
  BY DEF rowsOf, tables, InStep, Holds, Live
<1> QED  BY <1>1, <1>2, RowsStand, StepKeeps

LEMMA IdleInStep == InStep(IdleCall) /\ InStep(IdleCall)'
BY IdleFields DEF InStep, Before, After, Removing, Syncing

LEMMA QuietEnds ==
  ASSUME MailInv, NEW c \in Calls, End(c), UNCHANGED rowsOf,
         CountRace \/ UNCHANGED raced \/ (raced < MaxRaces /\ raced' = raced + 1)
  PROVE  MailInv'
BY IdleInStep, EndMoves, QuietKeeps

(* A call that goes on with what it has.                                   *)
Steadily(c, pc) ==
  \/ calls[c].pc \in Before /\ pc \in Before
  \/ calls[c].pc \in After /\ pc \in After
  \/ calls[c].pc \in Removing /\ pc \in Removing
  \/ calls[c].pc \in Syncing /\ pc \in Syncing \ {"store"}

LEMMA Steady ==
  ASSUME NEW call, NEW new, InStep(call), SameCall(new, call),
         \/ call.pc \in Before /\ new.pc \in Before
         \/ call.pc \in After /\ new.pc \in After
         \/ call.pc \in Removing /\ new.pc \in Removing
         \/ call.pc \in Syncing /\ new.pc \in Syncing \ {"store"}
  PROVE  InStep(new)
BY DEF InStep, SameCall, Holds, Before, After, Removing, Syncing

LEMMA QuietGoes ==
  ASSUME MailInv, NEW c \in Calls, NEW pc \in Pcs, Goto(c, pc), UNCHANGED <<rowsOf, raced>>,
         Steadily(c, pc)
  PROVE  MailInv'
<1>1. PICK new \in CallState : Moves(c, new) /\ new.pc = pc /\ SameCall(new, calls[c])
  BY CallParts, GotoMoves
<1>2. InStep(new)
  BY <1>1, CallParts, Steady DEF Steadily
<1> QED  BY <1>1, <1>2, QuietKeeps


-----------------------------------------------------------------------------
(* The steps that only read.                                               *)
LEMMA QuietGoto ==
  ASSUME MailInv, NEW c \in Calls, NEW pc \in Pcs, Goto(c, pc) \/ End(c), OnlyCalls,
         Steadily(c, pc)
  PROVE  MailInv'
BY QuietGoes, QuietEnds DEF OnlyCalls

LEMMA CapacityStep == ASSUME MailInv, NEW c \in Calls, Capacity(c)  PROVE MailInv'
<1>1. calls[c].pc = "capacity" /\ (Goto(c, "account") \/ End(c)) /\ OnlyCalls
  BY DEF Capacity, At
<1>2. "account" \in Pcs /\ Steadily(c, "account")
  BY <1>1 DEF Pcs, Before, Steadily
<1> QED  BY <1>1, <1>2, QuietGoto

LEMMA ReadConnectionStep == ASSUME MailInv, NEW c \in Calls, ReadConnection(c)  PROVE MailInv'
<1>1. PICK call : call = calls[c]
  OBVIOUS
<1>2. PICK row : row = connections[calls[c].account]
  OBVIOUS
<1> DEFINE new == [call EXCEPT !.pc = "connection", !.row = row]
<1>3. /\ call.pc = "readConnection" /\ call \in CallState /\ InStep(call)
      /\ calls' = [calls EXCEPT ![c] = new] /\ UNCHANGED <<rowsOf, raced>>
  BY <1>1, <1>2, CallParts DEF ReadConnection, At, Go, OnlyCalls
<1>4. call.account \in Accounts
  BY <1>3, CallParts DEF InStep, After, RowsTyped
<1>5. row \in ConnectionRow \union {None}
  BY <1>2, <1>1, <1>4, CallParts DEF RowsTyped
<1>6. /\ new \in CallState /\ new.pc = "connection" /\ new.form = call.form
      /\ new.user = call.user /\ new.address = call.address /\ new.account = call.account
      /\ new.creds = call.creds /\ new.late = call.late
  BY <1>3, <1>5 DEF CallState
<1> HIDE DEF new
<1>7. InStep(new)
  BY <1>3, <1>6 DEF InStep, Holds, Before, After, Removing, Syncing
<1> QED  BY <1>3, <1>6, <1>7, QuietKeeps DEF Moves

LEMMA AfterConnectMoves ==
  ASSUME NEW c \in Calls, AfterConnect(c)
  PROVE  Goto(c, "sync") \/ End(c)
BY DEF AfterConnect

LEMMA ReadIdentityStep == ASSUME MailInv, NEW c \in Calls, ReadIdentity(c)  PROVE MailInv'
<1>1. /\ calls[c].pc = "readIdentity" /\ OnlyCalls
      /\ Goto(c, "sync") \/ Goto(c, "identity") \/ End(c)
  BY AfterConnectMoves DEF ReadIdentity, At
<1>2. \A pc \in {"sync", "identity"} : pc \in Pcs /\ Steadily(c, pc)
  BY <1>1 DEF Pcs, After, Steadily
<1> QED  BY <1>1, <1>2, QuietGoto

(* What a call that syncs an account knows of it.                          *)
LEMMA SyncCall ==
  ASSUME NEW u \in Users, NEW a \in issued, issued \subseteq Accounts
  PROVE  LET new == [IdleCall EXCEPT !.pc = "provider", !.account = a, !.user = u]
         IN  new \in CallState /\ InStep(new)
<1> DEFINE new == [IdleCall EXCEPT !.pc = "provider", !.account = a, !.user = u]
<1>1. /\ new \in CallState /\ new.pc = "provider" /\ new.form = None /\ new.account = a
      /\ new.user = u /\ new.late = FALSE
  BY IdleFields DEF CallState
<1> HIDE DEF new
<1>2. InStep(new)
  BY <1>1 DEF InStep, Before, After, Removing, Syncing
<1> QED  BY <1>1, <1>2 DEF new

LEMMA SyncConnectedStep == ASSUME MailInv, NEW c \in Calls, SyncConnected(c)  PROVE MailInv'
<1>1. CASE End(c)
  BY <1>1, QuietEnds DEF SyncConnected, OnlyCalls
<1>2. CASE ~End(c)
  <2>1. PICK call : call = calls[c]
    OBVIOUS
  <2> DEFINE new == [IdleCall EXCEPT !.pc = "provider", !.account = call.account, !.user = call.user]
  <2>2. /\ call.pc = "sync" /\ call \in CallState /\ InStep(call)
        /\ Live(call.account) /\ accounts[call.account].owner = call.user
        /\ calls' = [calls EXCEPT ![c] = new] /\ UNCHANGED <<rowsOf, raced>>
    BY <1>2, <2>1, CallParts DEF SyncConnected, At, Go, OnlyCalls
  <2>3. call.user \in Users /\ call.account \in issued /\ issued \subseteq Accounts
    BY <2>2, CallParts DEF InStep, Holds, After, RowsTyped
  <2>4. new \in CallState /\ InStep(new)
    BY <2>3, SyncCall
  <2> HIDE DEF new
  <2> QED  BY <2>2, <2>4, QuietKeeps DEF Moves
<1> QED  BY <1>1, <1>2

LEMMA BeginSyncStep ==
  ASSUME MailInv, NEW c \in Calls, NEW a \in Accounts, BeginSync(c, a)  PROVE MailInv'
<1>1. PICK u : u = accounts[a].owner
  OBVIOUS
<1> DEFINE new == [IdleCall EXCEPT !.pc = "provider", !.account = a, !.user = u]
<1>2. /\ Live(a) /\ calls' = [calls EXCEPT ![c] = new] /\ UNCHANGED rowsOf /\ CountRace
  BY <1>1 DEF BeginSync, Go
<1>3. u \in Users /\ a \in issued /\ issued \subseteq Accounts
  BY <1>1, <1>2, CallParts DEF RowsTyped, RowsInStep, Live, AccountRow
<1>4. new \in CallState /\ InStep(new)
  BY <1>3, SyncCall
<1> HIDE DEF new
<1> QED  BY <1>2, <1>4, QuietKeeps DEF Moves

(* An account that is off has no connection, so no sync opens it.          *)
LEMMA GetProviderStep == ASSUME MailInv, NEW c \in Calls, GetProvider(c)  PROVE MailInv'
<1>1. CASE End(c)
  BY <1>1, QuietEnds DEF GetProvider, OnlyCalls
<1>2. CASE ~End(c)
  <2>1. PICK call : call = calls[c]
    OBVIOUS
  <2>2. PICK creds : creds = connections[call.account].creds
    OBVIOUS
  <2>3. PICK late \in BOOLEAN : late <=> call.account \in off
    BY Zenon
  <2> DEFINE new == [call EXCEPT !.pc = "search", !.creds = creds, !.late = late]
  <2>4. /\ call.pc = "provider" /\ call \in CallState /\ InStep(call)
        /\ Opens(call.account, call.user)
        /\ calls' = [calls EXCEPT ![c] = new] /\ UNCHANGED <<rowsOf, raced>>
    BY <1>2, <2>1, <2>2, <2>3, CallParts DEF GetProvider, At, Go, OnlyCalls
  <2>5. call.account \in Accounts /\ connections[call.account] # None
    BY <2>4, CallParts DEF InStep, Syncing, RowsTyped, Opens
  <2>6. creds \in Creds
    BY <2>2, <2>5, CallParts DEF RowsTyped, ConnectionRow
  <2>7. late = FALSE
    <3>1. call.account \notin off
      BY <2>5, CallParts DEF RowsInStep
    <3> QED  BY <2>3, <3>1
  <2>8. /\ new \in CallState /\ new.pc = "search" /\ new.form = call.form
        /\ new.user = call.user /\ new.account = call.account /\ new.late = FALSE
    BY <2>4, <2>6, <2>7 DEF CallState
  <2> HIDE DEF new
  <2>9. InStep(new)
    BY <2>4, <2>8 DEF InStep, Before, After, Removing, Syncing
  <2> QED  BY <2>4, <2>8, <2>9, QuietKeeps DEF Moves
<1> QED  BY <1>1, <1>2

LEMMA IngestStep == ASSUME MailInv, NEW c \in Calls, Ingest(c)  PROVE MailInv'
<1>1. calls[c].pc = "ingest" /\ OnlyCalls
  BY DEF Ingest, At
<1>2. CASE Goto(c, "settle")
  <2>1. "settle" \in Pcs /\ Steadily(c, "settle")
    BY <1>1 DEF Pcs, Syncing, Steadily
  <2> QED  BY <1>1, <1>2, <2>1, QuietGoto
<1>3. CASE ~Goto(c, "settle")
  <2>1. PICK call : call = calls[c]
    OBVIOUS
  <2>2. PICK store : store = (call.user \in members)
    OBVIOUS
  <2>3. \E m \in call.left, pc \in {"store", "ingest"} :
          Go(c, [call EXCEPT !.left = @ \ {m}, !.pc = pc, !.message = IF pc = "store" THEN m ELSE None])
    BY <1>3, <2>1 DEF Ingest
  <2>4. PICK m \in call.left, pc \in {"store", "ingest"} :
          Go(c, [call EXCEPT !.left = @ \ {m}, !.pc = pc, !.message = IF pc = "store" THEN m ELSE None])
    BY <2>3
  <2>5. call \in CallState /\ InStep(call) /\ call.pc = "ingest"
    BY <1>1, <2>1, CallParts
  <2> DEFINE new == [call EXCEPT !.left = @ \ {m}, !.pc = pc, !.message = IF pc = "store" THEN m ELSE None]
  <2>6. calls' = [calls EXCEPT ![c] = new]
    BY <2>4 DEF Go
  <2>7. m \in Messages
    BY <2>4, <2>5 DEF CallState
  <2>8. /\ new \in CallState /\ new.pc = pc /\ new.form = call.form
        /\ new.user = call.user /\ new.account = call.account /\ new.late = call.late
        /\ pc = "store" => new.message = m
    <3>1. call.left \ {m} \in SUBSET Messages
      BY <2>5 DEF CallState
    <3>2. PICK msg \in Messages \union {None} : msg = (IF pc = "store" THEN m ELSE None)
      BY <2>7
    <3>3. PICK left \in SUBSET Messages : left = call.left \ {m}
      BY <3>1
    <3>4. new = [call EXCEPT !.left = left, !.pc = pc, !.message = msg]
      BY <3>2, <3>3
    <3> HIDE DEF new
    <3>5. new \in CallState
      BY <2>4, <2>5, <3>4 DEF CallState
    <3>6. /\ new.pc = pc /\ new.form = call.form /\ new.user = call.user
          /\ new.account = call.account /\ new.late = call.late /\ new.message = msg
      BY <2>4, <2>5, <3>4 DEF CallState
    <3> QED  BY <3>2, <3>5, <3>6
  <2> HIDE DEF new
  <2>9. InStep(new)
    BY <2>4, <2>5, <2>7, <2>8 DEF InStep, Before, After, Removing, Syncing
  <2> QED  BY <1>1, <2>6, <2>8, <2>9, QuietKeeps DEF Moves, OnlyCalls
<1> QED  BY <1>2, <1>3

(* The first step of a disconnection, of a removal.                        *)
LEMMA RemovalBegins ==
  ASSUME MailInv, NEW c \in Calls, NEW a \in Accounts, Live(a), UNCHANGED rowsOf, CountRace,
         NEW new \in CallState, calls' = [calls EXCEPT ![c] = new],
         new.pc \in Removing, new.form = None, new.account = a, ~new.late
  PROVE  MailInv'
<1>1. InStep(new)
  BY CallParts DEF InStep, RowsInStep, Before, After, Removing, Syncing
<1> QED  BY <1>1, QuietKeeps DEF Moves

LEMMA BeginDisconnectStep ==
  ASSUME MailInv, NEW c \in Calls, NEW u \in Users, NEW a \in Accounts, BeginDisconnect(c, u, a)
  PROVE  MailInv'
<1> DEFINE new == [IdleCall EXCEPT !.pc = "dropConnection", !.account = a]
<1>1. /\ new \in CallState /\ new.pc \in Removing /\ new.form = None /\ new.account = a
      /\ ~new.late
  BY IdleFields DEF CallState, Removing
<1>2. calls' = [calls EXCEPT ![c] = new] /\ Live(a) /\ UNCHANGED rowsOf /\ CountRace
  BY DEF BeginDisconnect, Go
<1> HIDE DEF new
<1> QED  BY <1>1, <1>2, RemovalBegins

LEMMA BeginRemovalStep ==
  ASSUME MailInv, NEW c \in Calls, NEW u \in Users, NEW a \in Accounts, BeginRemoval(c, u, a)
  PROVE  MailInv'
<1>1. PICK pc \in {"dropConnection", "wipeMail"} :
        pc = (IF accounts[a].owner = u THEN "dropConnection" ELSE "wipeMail")
  OBVIOUS
<1> DEFINE new == [IdleCall EXCEPT !.account = a, !.removal = TRUE, !.pc = pc]
<1>2. /\ new \in CallState /\ new.pc \in Removing /\ new.form = None /\ new.account = a
      /\ ~new.late
  BY IdleFields DEF CallState, Removing
<1>3. calls' = [calls EXCEPT ![c] = new] /\ Live(a) /\ UNCHANGED rowsOf /\ CountRace
  BY <1>1 DEF BeginRemoval, Go
<1> HIDE DEF new
<1> QED  BY <1>2, <1>3, RemovalBegins

LEMMA FailStep == ASSUME MailInv, NEW c \in Calls, Fail(c)  PROVE MailInv'
BY QuietEnds DEF Fail

LEMMA LeaveStep == ASSUME MailInv, NEW u \in Users, Leave(u)  PROVE MailInv'
<1>1. raced' \in 0..MaxRaces
  BY CountRaceType DEF MailInv, RowsTyped, Leave
<1>2. RowsTyped'
  BY <1>1 DEF MailInv, RowsTyped, Leave, tables, Live
<1>3. RowsInStep' /\ calls' = calls
  BY DEF MailInv, RowsInStep, Leave, tables, Live, Mailboxes
<1>4. \A c \in Calls : InStep(calls[c])'
  BY DEF MailInv, InStep, Holds, Leave, tables, Live
<1> QED  BY <1>2, <1>3, <1>4 DEF MailInv

-----------------------------------------------------------------------------
(* The steps that write an account and leave whose it is, and whether it   *)
(* is there.                                                               *)
SameOwners ==
  /\ accounts' \in [Accounts -> AccountRow \union {None}]
  /\ \A a \in Accounts :
       /\ accounts'[a] = None <=> accounts[a] = None
       /\ accounts'[a].owner = accounts[a].owner
       /\ accounts'[a].address = accounts[a].address
  /\ UNCHANGED <<members, issued, secrets, connections, identities, mail, off, raced>>

LEMMA SameOwnersKeep ==
  ASSUME MailInv, NEW c \in Calls, NEW new, Moves(c, new), SameOwners, InStep(new)
  PROVE  MailInv'
<1>1. RowsTyped'
  BY DEF MailInv, RowsTyped, SameOwners, Live
<1>2. RowsInStep'
  <2>1. \A a \in Accounts : Live(a)' <=> Live(a)
    BY DEF SameOwners, Live
  <2>2. Mailboxes' = Mailboxes
    BY <2>1 DEF Mailboxes
  <2> QED  BY <2>1, <2>2 DEF MailInv, RowsInStep, SameOwners, Mailboxes
<1>3. TablesAdvance(c)
  BY CallParts DEF SameOwners, TablesAdvance, InStep, Holds, RowsTyped
<1>4. InStep(new)'
  <2>1. issued \subseteq Accounts
    BY CallParts DEF RowsTyped
  <2> QED  BY <2>1 DEF SameOwners, InStep, Holds, Live
<1> QED  BY <1>1, <1>2, <1>3, <1>4, StepKeeps

(* One account of those is written.                                        *)
LEMMA OneRowWritten ==
  ASSUME MailInv, NEW a \in Accounts, NEW row \in AccountRow,
         Live(a) => row.owner = accounts[a].owner /\ row.address = accounts[a].address,
         accounts' = IF Live(a) THEN [accounts EXCEPT ![a] = row] ELSE accounts,
         UNCHANGED <<members, issued, secrets, connections, identities, mail, off, raced>>
  PROVE  SameOwners
<1>1. accounts \in [Accounts -> AccountRow \union {None}]
  BY DEF MailInv, RowsTyped
<1>2. row # None
  BY RowAssumption
<1>3. CASE Live(a)
  BY <1>1, <1>2, <1>3 DEF SameOwners, Live
<1>4. CASE ~Live(a)
  BY <1>1, <1>4 DEF SameOwners
<1> QED  BY <1>3, <1>4

LEMMA StatusWritten ==
  ASSUME MailInv, NEW a \in Accounts, NEW status \in {"connected", "disconnected", "error"},
         accounts' = IF Live(a) THEN [accounts EXCEPT ![a].status = status] ELSE accounts,
         UNCHANGED <<members, issued, secrets, connections, identities, mail, off, raced>>
  PROVE  SameOwners
<1>1. accounts \in [Accounts -> AccountRow \union {None}]
  BY DEF MailInv, RowsTyped
<1>2. CASE ~Live(a)
  BY <1>1, <1>2 DEF SameOwners
<1>3. CASE Live(a)
  <2>1. PICK old \in AccountRow : old = accounts[a]
    BY <1>1, <1>3 DEF Live
  <2> DEFINE row == [old EXCEPT !.status = status]
  <2>2. row \in AccountRow /\ row.owner = old.owner /\ row.address = old.address
    BY DEF AccountRow
  <2>3. accounts' = [accounts EXCEPT ![a] = row]
    BY <1>3, <2>1
  <2> HIDE DEF row
  <2> QED  BY <1>3, <2>1, <2>2, <2>3, OneRowWritten
<1> QED  BY <1>2, <1>3

LEMMA SameOwnersGoto ==
  ASSUME MailInv, NEW c \in Calls, NEW pc \in Pcs, Goto(c, pc) \/ End(c), SameOwners,
         Steadily(c, pc)
  PROVE  MailInv'
<1>1. CASE End(c)
  BY <1>1, EndMoves, IdleInStep, SameOwnersKeep
<1>2. CASE Goto(c, pc)
  <2>1. PICK new \in CallState : Moves(c, new) /\ new.pc = pc /\ SameCall(new, calls[c])
    BY <1>2, CallParts, GotoMoves
  <2>2. InStep(new)
    BY <2>1, CallParts, Steady DEF Steadily
  <2> QED  BY <2>1, <2>2, SameOwnersKeep
<1> QED  BY <1>1, <1>2

LEMMA UpdateAccountStep == ASSUME MailInv, NEW c \in Calls, UpdateAccount(c)  PROVE MailInv'
<1>1. PICK a : a = calls[c].account
  OBVIOUS
<1>2. PICK provider : provider = Provider[calls[c].form]
  OBVIOUS
<1>3. /\ accounts' = IF Live(a) THEN [accounts EXCEPT ![a] = Reconnected(@, provider)] ELSE accounts
      /\ UNCHANGED <<members, issued, secrets, connections, identities, mail, off, raced>>
      /\ Goto(c, "readConnection") /\ calls[c].pc = "update"
  BY <1>1, <1>2 DEF UpdateAccount, Others, At
<1>4. a \in Accounts /\ provider \in Providers
  <2>1. calls[c].form # None /\ a \in issued
    BY <1>1, <1>3, CallParts DEF InStep, After
  <2>2. calls[c].form \in AllForms
    BY <2>1, CallParts, FormsAssumption DEF CallState
  <2> QED  BY <1>2, <2>1, <2>2, FormFields, CallParts DEF RowsTyped
<1>5. SameOwners
  <2>1. accounts \in [Accounts -> AccountRow \union {None}]
    BY DEF MailInv, RowsTyped
  <2>2. CASE ~Live(a)
    BY <1>3, <2>1, <2>2 DEF SameOwners
  <2>3. CASE Live(a)
    <3>1. PICK old \in AccountRow : old = accounts[a]
      BY <1>4, <2>1, <2>3 DEF Live
    <3> DEFINE row == [old EXCEPT !.provider = provider, !.status = "connected"]
    <3>2. row \in AccountRow /\ row.owner = old.owner /\ row.address = old.address
      BY <1>4 DEF AccountRow
    <3>3. accounts' = [accounts EXCEPT ![a] = row]
      BY <1>3, <2>3, <3>1 DEF Reconnected
    <3> HIDE DEF row
    <3> QED  BY <1>3, <1>4, <2>3, <3>1, <3>2, <3>3, OneRowWritten
  <2> QED  BY <2>2, <2>3
<1>6. "readConnection" \in Pcs /\ Steadily(c, "readConnection")
  BY <1>3 DEF Pcs, After, Steadily
<1> QED  BY <1>3, <1>5, <1>6, SameOwnersGoto

LEMMA TurnOffStep == ASSUME MailInv, NEW c \in Calls, TurnOff(c)  PROVE MailInv'
<1>1. PICK a : a = calls[c].account
  OBVIOUS
<1>2. /\ accounts' = IF Live(a) THEN [accounts EXCEPT ![a].status = "disconnected"] ELSE accounts
      /\ UNCHANGED <<members, issued, secrets, connections, identities, mail, off, raced>>
      /\ Goto(c, "wipeMail") \/ End(c)
      /\ calls[c].pc = "turnOff"
  BY <1>1 DEF TurnOff, Others, At
<1>3. a \in Accounts
  BY <1>1, <1>2, CallParts DEF InStep, Removing, RowsTyped
<1>4. SameOwners
  BY <1>2, <1>3, StatusWritten
<1>5. "wipeMail" \in Pcs /\ Steadily(c, "wipeMail")
  BY <1>2 DEF Pcs, Removing, Steadily
<1> QED  BY <1>2, <1>4, <1>5, SameOwnersGoto

LEMMA SettleStep == ASSUME MailInv, NEW c \in Calls, Settle(c)  PROVE MailInv'
<1>1. PICK a : a = calls[c].account
  OBVIOUS
<1>2. /\ accounts' = IF Live(a) THEN [accounts EXCEPT ![a].status = "connected"] ELSE accounts
      /\ UNCHANGED <<members, issued, secrets, connections, identities, mail, off, raced>>
      /\ End(c) /\ calls[c].pc = "settle"
  BY <1>1 DEF Settle, Others, At
<1>3. a \in Accounts
  BY <1>1, <1>2, CallParts DEF InStep, Syncing, RowsTyped
<1>4. SameOwners
  BY <1>2, <1>3, StatusWritten
<1> QED  BY <1>2, <1>4, EndMoves, IdleInStep, SameOwnersKeep

LEMMA SearchStep == ASSUME MailInv, NEW c \in Calls, Search(c)  PROVE MailInv'
<1>1. PICK call : call = calls[c]
  OBVIOUS
<1>2. /\ call.pc = "search" /\ call \in CallState /\ InStep(call)
      /\ UNCHANGED <<members, issued, secrets, connections, identities, mail, off, raced>>
  BY <1>1, CallParts DEF Search, Others, At
<1>3. call.account \in Accounts
  BY <1>2, CallParts DEF InStep, Syncing, RowsTyped
<1>4. CASE UNCHANGED accounts /\ \E found \in SUBSET Messages :
                                   Go(c, [call EXCEPT !.pc = "ingest", !.left = found])
  <2>1. PICK found \in SUBSET Messages : Go(c, [call EXCEPT !.pc = "ingest", !.left = found])
    BY <1>4
  <2> DEFINE new == [call EXCEPT !.pc = "ingest", !.left = found]
  <2>2. calls' = [calls EXCEPT ![c] = new]
    BY <2>1 DEF Go
  <2>3. /\ new \in CallState /\ new.pc = "ingest" /\ new.form = call.form
        /\ new.user = call.user /\ new.account = call.account /\ new.late = call.late
    BY <1>2 DEF CallState
  <2> HIDE DEF new
  <2>4. InStep(new)
    BY <1>2, <2>3 DEF InStep, Before, After, Removing, Syncing
  <2>5. SameOwners
    BY <1>2, <1>4, CallParts DEF SameOwners, RowsTyped
  <2> QED  BY <2>2, <2>3, <2>4, <2>5, SameOwnersKeep DEF Moves
<1>5. CASE /\ accounts' = IF Live(call.account)
                          THEN [accounts EXCEPT ![call.account].status = "error"] ELSE accounts
           /\ End(c)
  <2>1. SameOwners
    BY <1>2, <1>3, <1>5, StatusWritten
  <2> QED  BY <1>5, <2>1, EndMoves, IdleInStep, SameOwnersKeep
<1> QED  BY <1>1, <1>4, <1>5 DEF Search

-----------------------------------------------------------------------------
(* The steps that write the mail or the identity of an account, or drop    *)
(* its connection: they take away, or add to an account that is there.     *)
AddedOnlyIfLive ==
  /\ identities' \subseteq identities \union {a \in Accounts : Live(a)}
  /\ mail' \in [Accounts -> SUBSET Messages]
  /\ \A a \in Accounts : ~Live(a) => mail'[a] = {}
  /\ UNCHANGED <<members, issued, secrets, accounts, connections, off, raced>>

LEMMA AddedKeep ==
  ASSUME MailInv, NEW c \in Calls, NEW new, Moves(c, new), AddedOnlyIfLive, InStep(new)
  PROVE  MailInv'
<1>1. RowsTyped'
  BY DEF MailInv, RowsTyped, AddedOnlyIfLive, Live
<1>2. RowsInStep'
  BY DEF MailInv, RowsInStep, AddedOnlyIfLive, Live, Mailboxes
<1>3. TablesAdvance(c)
  BY CallParts DEF AddedOnlyIfLive, TablesAdvance, InStep, Holds
<1>4. InStep(new)'
  BY DEF AddedOnlyIfLive, InStep, Holds, Live
<1> QED  BY <1>1, <1>2, <1>3, <1>4, StepKeeps

LEMMA AddedGoto ==
  ASSUME MailInv, NEW c \in Calls, NEW pc \in Pcs, Goto(c, pc) \/ End(c), AddedOnlyIfLive,
         Steadily(c, pc)
  PROVE  MailInv'
<1>1. CASE End(c)
  BY <1>1, EndMoves, IdleInStep, AddedKeep
<1>2. CASE Goto(c, pc)
  <2>1. PICK new \in CallState : Moves(c, new) /\ new.pc = pc /\ SameCall(new, calls[c])
    BY <1>2, CallParts, GotoMoves
  <2>2. InStep(new)
    BY <2>1, CallParts, Steady DEF Steadily
  <2> QED  BY <2>1, <2>2, AddedKeep
<1> QED  BY <1>1, <1>2

LEMMA InsertIdentityStep == ASSUME MailInv, NEW c \in Calls, InsertIdentity(c)  PROVE MailInv'
<1>1. calls[c].pc = "identity"
  BY DEF InsertIdentity, At
<1>2. calls[c].account \in Accounts
  BY <1>1, CallParts DEF InStep, After, RowsTyped
<1>3. AddedOnlyIfLive
  BY <1>2, CallParts DEF InsertIdentity, Others, AddedOnlyIfLive, RowsTyped
<1>4. Goto(c, "readConnection") \/ Goto(c, "sync") \/ End(c)
  BY AfterConnectMoves DEF InsertIdentity
<1>5. \A pc \in {"sync", "readConnection"} : pc \in Pcs /\ Steadily(c, pc)
  BY <1>1 DEF Pcs, After, Steadily
<1> QED  BY <1>3, <1>4, <1>5, AddedGoto

LEMMA WipeMailStep == ASSUME MailInv, NEW c \in Calls, WipeMail(c)  PROVE MailInv'
<1>1. calls[c].pc = "wipeMail" /\ Goto(c, "wipeIdentity")
  BY DEF WipeMail, At
<1>2. AddedOnlyIfLive
  BY CallParts DEF WipeMail, Others, AddedOnlyIfLive, RowsTyped
<1>3. "wipeIdentity" \in Pcs /\ Steadily(c, "wipeIdentity")
  BY <1>1 DEF Pcs, Removing, Steadily
<1> QED  BY <1>1, <1>2, <1>3, AddedGoto

LEMMA WipeIdentityStep == ASSUME MailInv, NEW c \in Calls, WipeIdentity(c)  PROVE MailInv'
<1>1. calls[c].pc = "wipeIdentity" /\ Goto(c, "dropAccount")
  BY DEF WipeIdentity, At
<1>2. AddedOnlyIfLive
  BY CallParts DEF WipeIdentity, Others, AddedOnlyIfLive, RowsTyped
<1>3. "dropAccount" \in Pcs /\ Steadily(c, "dropAccount")
  BY <1>1 DEF Pcs, Removing, Steadily
<1> QED  BY <1>1, <1>2, <1>3, AddedGoto

LEMMA StoreStep == ASSUME MailInv, NEW c \in Calls, Store(c)  PROVE MailInv'
<1>1. PICK call : call = calls[c]
  OBVIOUS
<1> DEFINE new == [call EXCEPT !.pc = "ingest", !.message = None]
<1>2. /\ call.pc = "store" /\ call \in CallState /\ InStep(call)
      /\ calls' = [calls EXCEPT ![c] = new]
  BY <1>1, CallParts DEF Store, At, Go
<1>3. /\ new \in CallState /\ new.pc = "ingest" /\ new.form = call.form
      /\ new.user = call.user /\ new.account = call.account /\ new.late = call.late
  BY <1>2 DEF CallState
<1> HIDE DEF new
<1>4. InStep(new)
  BY <1>2, <1>3 DEF InStep, Before, After, Removing, Syncing
<1>5. call.account \in Accounts /\ call.message \in Messages
  BY <1>2, CallParts DEF InStep, Syncing, RowsTyped
<1>6. /\ mail' = [mail EXCEPT ![call.account] = Stored(call.account, call.message)]
      /\ UNCHANGED <<members, issued, secrets, accounts, connections, identities, off, raced>>
  BY <1>1 DEF Store, Others
<1>7. AddedOnlyIfLive
  <2>1. PICK a \in Accounts : a = call.account
    BY <1>5
  <2>2. PICK kept : kept = Stored(a, call.message)
    OBVIOUS
  <2>3. mail \in [Accounts -> SUBSET Messages] /\ \A b \in Accounts : ~Live(b) => mail[b] = {}
    BY CallParts DEF RowsTyped
  <2>4. kept \in SUBSET Messages /\ (~Live(a) => kept = {})
    BY <1>5, <2>2, <2>3 DEF Stored
  <2>5. mail' = [mail EXCEPT ![a] = kept]
    BY <1>6, <2>1, <2>2
  <2> QED  BY <1>6, <2>3, <2>4, <2>5 DEF AddedOnlyIfLive
<1> QED  BY <1>2, <1>3, <1>4, <1>7, AddedKeep DEF Moves

(* Whoever drops a connection while nobody connects leaves the account off *)
(* with none, and no call holds it to connect it.                          *)
LEMMA DropConnectionStep == ASSUME MailInv, NEW c \in Calls, DropConnection(c)  PROVE MailInv'
<1>1. PICK a : a = calls[c].account
  OBVIOUS
<1>2. /\ calls[c].pc = "dropConnection" /\ Goto(c, "turnOff")
      /\ connections' = [connections EXCEPT ![a] = None]
      /\ \/ off' = off
         \/ off' = off \union {a} /\ \A o \in Calls \ {c} : calls[o].form = None
      /\ UNCHANGED <<members, issued, secrets, accounts, identities, mail, raced>>
  BY <1>1 DEF DropConnection, Withdrawn, Others, At
<1>3. a \in issued /\ a \in Accounts
  BY <1>1, <1>2, CallParts DEF InStep, Removing, RowsTyped
<1>4. RowsTyped'
  BY <1>2, <1>3, CallParts DEF RowsTyped, Live
<1>5. RowsInStep'
  BY <1>2, <1>3, CallParts DEF RowsTyped, RowsInStep, Live, Mailboxes
<1>6. TablesAdvance(c)
  BY <1>2, CallParts DEF TablesAdvance, InStep, Holds
<1>7. PICK new \in CallState : Moves(c, new) /\ new.pc = "turnOff" /\ SameCall(new, calls[c])
  BY <1>2, CallParts, GotoMoves DEF Pcs, Removing
<1>8. InStep(new)
  BY <1>2, <1>7, CallParts, Steady DEF Removing
<1>9. InStep(new)'
  BY <1>2, <1>7, <1>8 DEF InStep, Before, After, Removing, Syncing, Live
<1> QED  BY <1>4, <1>5, <1>6, <1>7, <1>9, StepKeeps

LEMMA DropAccountStep == ASSUME MailInv, NEW c \in Calls, DropAccount(c)  PROVE MailInv'
<1>1. PICK a : a = calls[c].account
  OBVIOUS
<1>2. /\ calls[c].pc = "dropAccount" /\ End(c)
      /\ accounts' = [accounts EXCEPT ![a] = None]
      /\ connections' = [connections EXCEPT ![a] = None]
      /\ identities' = identities \ {a}
      /\ mail' = [mail EXCEPT ![a] = {}]
      /\ UNCHANGED <<members, issued, secrets, off, raced>>
  BY <1>1 DEF DropAccount, Others, At
<1>3. a \in Accounts
  BY <1>1, <1>2, CallParts DEF InStep, Removing, RowsTyped
<1>4. RowsTyped'
  BY <1>2, <1>3, CallParts DEF RowsTyped, Live
<1>5. \A b \in Accounts : accounts'[b] # None =>
        b # a /\ accounts[b] # None /\ accounts'[b] = accounts[b]
                /\ connections'[b] = connections[b]
  BY <1>2, <1>3, CallParts DEF RowsTyped
<1>6. RowsInStep'
  <2>1. \A b \in Accounts : connections'[b] # None => connections'[b] = connections[b] /\ b # a
    BY <1>2, <1>3, CallParts DEF RowsTyped
  <2>2. \A b \in Accounts : connections'[b] # None => accounts'[b] = accounts[b]
    BY <1>2, <2>1, CallParts DEF RowsTyped
  <2>3. off' \subseteq issued' /\ \A b \in off' : connections'[b] = None
    BY <1>2, <1>3, CallParts DEF RowsTyped, RowsInStep
  <2> QED  BY <1>2, <1>5, <2>1, <2>2, <2>3, CallParts DEF RowsInStep, Live, Mailboxes
<1>7. TablesAdvance(c)
  BY <1>2, <1>5, CallParts DEF TablesAdvance, InStep, Holds, RowsTyped
<1> QED  BY <1>2, <1>4, <1>6, <1>7, EndMoves, IdleInStep, StepKeeps

-----------------------------------------------------------------------------
(* The connection of an account is written by a call that holds            *)
(* credentials of the account's owner.                                     *)
ConnectionWritten(call) ==
  \/ UNCHANGED connections
  \/ \E row \in ConnectionRow :
       /\ row.creds = call.creds /\ Live(call.account)
       /\ connections' = [connections EXCEPT ![call.account] = row]

LEMMA ConnectionWrites ==
  ASSUME MailInv, NEW c \in Calls, WriteConnection(c)
  PROVE  ConnectionWritten(calls[c])
<1>1. PICK call : call = calls[c]
  OBVIOUS
<1>2. PICK a : a = call.account
  OBVIOUS
<1>3. call.pc = "connection" /\ call \in CallState /\ InStep(call)
  BY <1>1, CallParts DEF WriteConnection, At
<1>4. a \in Accounts /\ call.creds \in Creds /\ call.form \in AllForms
  BY <1>2, <1>3, CallParts, FormsAssumption DEF InStep, Holds, After, RowsTyped, CallState
<1>5. PICK provider \in Providers : provider = Provider[call.form]
  BY <1>4, FormFields
<1>6. connections \in [Accounts -> ConnectionRow \union {None}]
  BY CallParts DEF RowsTyped
<1>7. \/ UNCHANGED connections
      \/ connections[a] # None /\ connections' = [connections EXCEPT ![a] = Renewed(@, call)]
      \/ Live(a) /\ connections' = [connections EXCEPT ![a] =
                      [first |-> call.creds, creds |-> call.creds, provider |-> provider]]
  BY <1>1, <1>2, <1>5 DEF WriteConnection
<1>8. CASE connections[a] # None /\ connections' = [connections EXCEPT ![a] = Renewed(@, call)]
  <2>1. PICK old \in ConnectionRow : old = connections[a]
    BY <1>4, <1>6, <1>8
  <2>2. PICK q \in Providers : q = (IF call.form = "proton" THEN old.provider ELSE provider)
    BY DEF ConnectionRow
  <2> DEFINE row == [old EXCEPT !.creds = call.creds, !.provider = q]
  <2>3. row \in ConnectionRow /\ row.creds = call.creds
    BY <1>4 DEF ConnectionRow
  <2>4. Renewed(old, call) = row
    BY <1>5, <2>2 DEF Renewed, ConnectionRow
  <2>5. connections' = [connections EXCEPT ![a] = row]
    BY <1>8, <2>1, <2>4
  <2>6. Live(a)
    BY <1>4, <1>8, CallParts DEF RowsTyped
  <2> HIDE DEF row
  <2> QED  BY <1>1, <1>2, <2>3, <2>5, <2>6 DEF ConnectionWritten
<1>9. CASE Live(a) /\ connections' = [connections EXCEPT ![a] =
                        [first |-> call.creds, creds |-> call.creds, provider |-> provider]]
  <2> DEFINE row == [first |-> call.creds, creds |-> call.creds, provider |-> provider]
  <2>1. row \in ConnectionRow /\ row.creds = call.creds
    BY <1>4 DEF ConnectionRow
  <2> HIDE DEF row
  <2> QED  BY <1>1, <1>2, <1>9, <2>1 DEF ConnectionWritten, row
<1> QED  BY <1>1, <1>7, <1>8, <1>9 DEF ConnectionWritten

LEMMA WriteConnectionStep == ASSUME MailInv, NEW c \in Calls, WriteConnection(c)  PROVE MailInv'
<1>1. PICK call : call = calls[c]
  OBVIOUS
<1>2. PICK a : a = call.account
  OBVIOUS
<1>3. /\ call.pc = "connection" /\ call \in CallState /\ InStep(call)
      /\ UNCHANGED <<members, issued, secrets, accounts, identities, mail, off, raced>>
  BY <1>1, CallParts DEF WriteConnection, Others, At
<1>4. /\ a \in Accounts /\ a \in issued /\ Holds(call)
      /\ Live(a) => accounts[a].owner = call.user
  BY <1>2, <1>3, CallParts DEF InStep, After, RowsTyped
<1>5. ConnectionWritten(call)
  BY <1>1, ConnectionWrites
<1>6. ASSUME UNCHANGED connections
      PROVE  RowsTyped' /\ RowsInStep'
  BY <1>3, <1>6, CallParts DEF RowsTyped, RowsInStep, Live, Mailboxes
<1>7. ASSUME NEW row \in ConnectionRow, row.creds = call.creds, Live(a),
             connections' = [connections EXCEPT ![a] = row]
      PROVE  RowsTyped' /\ RowsInStep'
  <2>1. RowsTyped'
    BY <1>3, <1>4, <1>7, CallParts DEF RowsTyped, Live
  <2>2. /\ connections'[a] = row
        /\ \A b \in Accounts : b # a => connections'[b] = connections[b]
    BY <1>4, <1>7, CallParts DEF RowsTyped
  <2>3. secrets[row.creds] # None /\ secrets[row.creds].owner = accounts[a].owner
    BY <1>4, <1>7 DEF Holds
  <2>4. \A b \in Accounts : connections'[b] # None =>
          /\ secrets[connections'[b].creds] # None
          /\ secrets[connections'[b].creds].owner = accounts[b].owner
    BY <2>2, <2>3, CallParts DEF RowsInStep
  <2>5. \A b \in off : connections'[b] = None
    BY <1>2, <1>4, <2>2, CallParts DEF RowsInStep, Holds, RowsTyped
  <2> QED  BY <1>3, <2>1, <2>4, <2>5, CallParts DEF RowsInStep, Live, Mailboxes
<1>8. TablesAdvance(c)
  BY <1>3, CallParts DEF TablesAdvance, InStep, Holds
<1>9. CASE End(c)
  BY <1>2, <1>5, <1>6, <1>7, <1>8, <1>9, EndMoves, IdleInStep, StepKeeps DEF ConnectionWritten
<1>10. CASE ~End(c)
  <2>1. PICK pc \in {"sync", "readIdentity"} : pc = AfterConnection(call.form)
    BY DEF AfterConnection
  <2> DEFINE new == [call EXCEPT !.row = None, !.pc = pc]
  <2>2. calls' = [calls EXCEPT ![c] = new]
    BY <1>1, <1>10, <2>1 DEF WriteConnection, Go
  <2>3. /\ new \in CallState /\ new.pc = pc /\ new.form = call.form /\ new.user = call.user
        /\ new.address = call.address /\ new.account = call.account
        /\ new.creds = call.creds /\ new.late = call.late
    BY <1>3 DEF CallState
  <2> HIDE DEF new
  <2>4. InStep(new)
    BY <1>3, <2>3 DEF InStep, Holds, Before, After, Removing, Syncing
  <2>5. InStep(new)'
    BY <1>3, <2>4 DEF InStep, Holds, Live
  <2> QED  BY <1>2, <1>5, <1>6, <1>7, <1>8, <2>2, <2>3, <2>5, StepKeeps
           DEF ConnectionWritten, Moves
<1> QED  BY <1>9, <1>10

-----------------------------------------------------------------------------
LEMMA BeginConnectStep ==
  ASSUME MailInv, NEW c \in Calls, NEW form \in Forms, NEW u \in Users,
         NEW address \in Addresses, NEW s \in Creds, BeginConnect(c, form, u, address, s)
  PROVE  MailInv'
<1>1. PICK secret : secret = [owner |-> u, provider |-> Provider[form]]
  OBVIOUS
<1>2. form # None /\ form \in AllForms /\ secret \in Secret
  BY <1>1, FormFields, FormsAssumption DEF Secret
<1>3. secret.owner = u /\ secret.provider = Provider[form] /\ secret # None
  BY <1>1, <1>2, RowAssumption
<1>4. /\ secrets' = [secrets EXCEPT ![s] = secret]
      /\ off' = off \ AccountsOf(address) /\ secrets[s] = None
      /\ UNCHANGED <<members, accounts, connections, identities, mail, issued>>
      /\ CountRace
      /\ \A a \in AccountsOf(address) : accounts[a].owner = u
  BY <1>1 DEF BeginConnect, MayConnect, tables
<1>5. /\ secrets' \in [Creds -> Secret \union {None}] /\ secrets'[s] = secret
      /\ \A t \in Creds : secrets[t] # None => secrets'[t] = secrets[t]
  BY <1>2, <1>4, CallParts DEF RowsTyped
<1>6. raced' \in 0..MaxRaces
  BY <1>4, CountRaceType, CallParts DEF RowsTyped
<1>7. RowsTyped'
  BY <1>4, <1>5, <1>6, CallParts DEF RowsTyped, Live
<1>8. RowsInStep'
  <2>1. \A a \in Accounts : connections[a] # None =>
          /\ secrets'[connections[a].creds] # None
          /\ secrets'[connections[a].creds].owner = accounts[a].owner
    BY <1>5, CallParts DEF RowsInStep, RowsTyped, ConnectionRow
  <2> QED  BY <1>4, <2>1, CallParts DEF RowsInStep, Live, Mailboxes
<1>9. TablesAdvance(c)
  BY <1>4, <1>5, CallParts DEF TablesAdvance, InStep, Holds
<1>10. SUFFICES \E new \in CallState : Moves(c, new) /\ InStep(new)'
  BY <1>7, <1>8, <1>9, StepKeeps
<1>11. CASE AccountsOf(address) = {}
  <2> DEFINE new == [IdleCall EXCEPT !.pc = "capacity", !.form = form, !.user = u,
                                     !.address = address, !.creds = s]
  <2>1. /\ new \in CallState /\ new.pc = "capacity" /\ new.form = form /\ new.user = u
        /\ new.address = address /\ new.account = None /\ new.creds = s /\ ~new.late
    BY IdleFields DEF CallState
  <2>2. calls' = [calls EXCEPT ![c] = new]
    BY <1>11 DEF BeginConnect, Go
  <2> HIDE DEF new
  <2>3. None \notin off'
    BY <1>4, CallParts, NoAccountAssumption DEF RowsInStep, RowsTyped
  <2>4. InStep(new)'
    BY <1>2, <1>3, <1>5, <2>1, <2>3 DEF InStep, Holds, Before, After, Removing, Syncing
  <2> QED  BY <2>1, <2>2, <2>4 DEF Moves
<1>12. CASE AccountsOf(address) # {}
  <2>1. PICK a \in AccountsOf(address) :
          Go(c, [IdleCall EXCEPT !.pc = IfFound(form), !.form = form, !.user = u,
                                 !.address = address, !.account = a, !.creds = s])
    BY <1>12 DEF BeginConnect
  <2>2. PICK pc \in {"readConnection", "update"} : pc = IfFound(form)
    BY DEF IfFound
  <2> DEFINE new == [IdleCall EXCEPT !.pc = pc, !.form = form, !.user = u,
                                     !.address = address, !.account = a, !.creds = s]
  <2>3. a \in Accounts /\ a \in issued /\ a \notin off' /\ accounts[a].owner = u
    BY <1>4, <2>1, CallParts DEF AccountsOf, Mailboxes, RowsInStep
  <2>4. /\ new \in CallState /\ new.pc = pc /\ new.form = form /\ new.user = u
        /\ new.address = address /\ new.account = a /\ new.creds = s /\ ~new.late
    BY <2>3, IdleFields DEF CallState
  <2>5. calls' = [calls EXCEPT ![c] = new]
    BY <2>1, <2>2 DEF Go
  <2> HIDE DEF new
  <2>6. InStep(new)'
    BY <1>2, <1>3, <1>4, <1>5, <2>3, <2>4 DEF InStep, Holds, Before, After, Removing, Syncing
  <2> QED  BY <2>4, <2>5, <2>6 DEF Moves
<1> QED  BY <1>11, <1>12

LEMMA InsertAccountStep ==
  ASSUME MailInv, NEW c \in Calls, NEW a \in Accounts, InsertAccount(c, a)
  PROVE  MailInv'
<1>1. PICK call : call = calls[c]
  OBVIOUS
<1>2. /\ call.pc = "account" /\ call \in CallState /\ InStep(call) /\ Holds(call)
      /\ a \notin issued /\ issued' = issued \union {a}
      /\ UNCHANGED <<members, connections, identities, mail, secrets, raced, off>>
  BY <1>1, CallParts DEF InsertAccount, At, InStep, Before
<1>3. ~Live(a) /\ a \notin off /\ connections[a] = None
  BY <1>2, CallParts DEF RowsInStep, RowsTyped
<1>4. CASE End(c) /\ UNCHANGED accounts
  <2>1. RowsTyped'
    BY <1>2, <1>4, CallParts DEF RowsTyped, Live
  <2>2. RowsInStep'
    BY <1>2, <1>4, CallParts DEF RowsInStep, Live, Mailboxes
  <2>3. TablesAdvance(c)
    BY <1>2, <1>4, CallParts DEF TablesAdvance, InStep, Holds
  <2> QED  BY <1>4, <2>1, <2>2, <2>3, EndMoves, IdleInStep, StepKeeps
<1>5. CASE AccountsOf(call.address) = {}
  <2>1. PICK row : row = [owner |-> call.user, address |-> call.address,
                          provider |-> Provider[call.form], status |-> "connected"]
    OBVIOUS
  <2>2. call.form \in AllForms /\ call.user \in Users /\ call.address \in Addresses
    BY <1>2, FormsAssumption DEF CallState, InStep, Holds, Before
  <2>3. row \in AccountRow /\ row.owner = call.user /\ row.address = call.address
    BY <2>1, <2>2, FormFields DEF AccountRow
  <2>4. row # None
    BY <2>3, RowAssumption
  <2>5. accounts' = [accounts EXCEPT ![a] = row]
    BY <1>1, <1>5, <2>1 DEF InsertAccount
  <2>6. /\ accounts' \in [Accounts -> AccountRow \union {None}] /\ accounts'[a] = row
        /\ \A b \in Accounts : b # a => accounts'[b] = accounts[b]
    BY <2>3, <2>5, CallParts DEF RowsTyped
  <2>7. RowsTyped'
    BY <1>2, <1>3, <2>6, CallParts DEF RowsTyped, Live
  <2>8. RowsInStep'
    <3>1. \A b \in Accounts : Live(b)' => b \in issued'
      BY <1>2, <2>6, CallParts DEF RowsInStep, Live
    <3>2. \A b, d \in Mailboxes' : accounts'[b].address = accounts'[d].address => b = d
      <4>1. \A b \in Mailboxes' : b # a => b \in Mailboxes /\ accounts'[b] = accounts[b]
                                          /\ accounts[b].address # call.address
        BY <1>5, <2>6 DEF Mailboxes, Live, AccountsOf
      <4> QED  BY <2>3, <2>6, <4>1, CallParts DEF RowsInStep
    <3>3. \A b \in Accounts : connections[b] # None => accounts'[b] = accounts[b]
      BY <1>3, <2>6
    <3> QED  BY <1>2, <3>1, <3>2, <3>3, CallParts DEF RowsInStep
  <2>9. TablesAdvance(c)
    BY <1>2, <2>6, CallParts DEF TablesAdvance, InStep, Holds, RowsTyped
  <2>10. PICK pc \in {"identity", "readConnection"} : pc = AfterAccount(call.form)
    BY DEF AfterAccount
  <2> DEFINE new == [call EXCEPT !.account = a, !.pc = pc]
  <2>11. calls' = [calls EXCEPT ![c] = new]
    BY <1>1, <1>5, <2>10 DEF InsertAccount, Go
  <2>12. /\ new \in CallState /\ new.pc = pc /\ new.form = call.form /\ new.user = call.user
         /\ new.address = call.address /\ new.account = a
         /\ new.creds = call.creds /\ new.late = call.late
    BY <1>2 DEF CallState
  <2> HIDE DEF new
  <2>13. InStep(new)'
    BY <1>2, <1>3, <2>3, <2>6, <2>12 DEF InStep, Holds, Before, After, Removing, Syncing
  <2> QED  BY <2>7, <2>8, <2>9, <2>11, <2>12, <2>13, StepKeeps DEF Moves
<1> QED  BY <1>1, <1>4, <1>5 DEF InsertAccount

-----------------------------------------------------------------------------
LEMMA MailNext == ASSUME MailInv, AccountsNext  PROVE MailInv'
<1>1. ASSUME NEW c \in Calls, NEW form \in Forms, NEW u \in Users, NEW address \in Addresses,
             NEW s \in Creds, BeginConnect(c, form, u, address, s)
      PROVE  MailInv'
  BY <1>1, BeginConnectStep
<1>2. ASSUME NEW c \in Calls,
             \/ Capacity(c) \/ UpdateAccount(c) \/ ReadConnection(c) \/ WriteConnection(c)
             \/ ReadIdentity(c) \/ InsertIdentity(c)
      PROVE  MailInv'
  BY <1>2, CapacityStep, UpdateAccountStep, ReadConnectionStep, WriteConnectionStep,
     ReadIdentityStep, InsertIdentityStep
<1>3. ASSUME NEW c \in Calls, NEW a \in Accounts, InsertAccount(c, a) \/ BeginSync(c, a)
      PROVE  MailInv'
  BY <1>3, InsertAccountStep, BeginSyncStep
<1>4. ASSUME NEW c \in Calls, NEW u \in Users, NEW a \in Accounts,
             BeginDisconnect(c, u, a) \/ BeginRemoval(c, u, a)
      PROVE  MailInv'
  BY <1>4, BeginDisconnectStep, BeginRemovalStep
<1>5. ASSUME NEW c \in Calls,
             \/ DropConnection(c) \/ TurnOff(c) \/ WipeMail(c) \/ WipeIdentity(c)
             \/ DropAccount(c)
      PROVE  MailInv'
  BY <1>5, DropConnectionStep, TurnOffStep, WipeMailStep, WipeIdentityStep, DropAccountStep
<1>6. ASSUME NEW c \in Calls,
             \/ SyncConnected(c) \/ GetProvider(c) \/ Search(c) \/ Ingest(c) \/ Store(c)
             \/ Settle(c) \/ Fail(c)
      PROVE  MailInv'
  BY <1>6, SyncConnectedStep, GetProviderStep, SearchStep, IngestStep, StoreStep, SettleStep,
     FailStep
<1>7. ASSUME NEW u \in Users, Leave(u)  PROVE MailInv'
  BY <1>7, LeaveStep
<1> QED  BY <1>1, <1>2, <1>3, <1>4, <1>5, <1>6, <1>7 DEF AccountsNext, SyncForm

LEMMA MailStutter == ASSUME MailInv, UNCHANGED mailboxVars  PROVE MailInv'
<1>1. RowsTyped' /\ RowsInStep' /\ calls' = calls
  BY DEF MailInv, mailboxVars, rowsOf, tables, RowsTyped, RowsInStep, Live, Mailboxes
<1>2. \A c \in Calls : InStep(calls[c])'
  BY DEF MailInv, mailboxVars, rowsOf, tables, InStep, Holds, Live
<1> QED  BY <1>1, <1>2 DEF MailInv

LEMMA MailInit == AccountsInit => MailInv
<1> SUFFICES ASSUME AccountsInit  PROVE MailInv
  OBVIOUS
<1>1. raced \in 0..MaxRaces
  BY MailboxBoundsAssumption DEF AccountsInit
<1>2. RowsTyped
  BY <1>1 DEF AccountsInit, RowsTyped, Live
<1>3. RowsInStep
  BY DEF AccountsInit, RowsInStep, Live, Mailboxes
<1>4. calls \in [Calls -> CallState] /\ \A c \in Calls : InStep(calls[c])
  BY IdleFields, IdleInStep DEF AccountsInit
<1> QED  BY <1>2, <1>3, <1>4 DEF MailInv

(* Rows are of their tables' types, an account that is gone has nothing,   *)
(* and every call in flight knows what its place in the code says it does. *)
THEOREM MailInvariance == AccountsSpec => []MailInv
BY MailInit, MailNext, MailStutter, PTL DEF AccountsSpec

(* What is in the tables is well formed, and nothing is left of an account *)
(* that was removed: the cascade and the checks of the inserts suffice.    *)
THEOREM AccountsTypeCorrect == AccountsSpec => []AccountsTypeOK
<1>1. MailInv => AccountsTypeOK
  BY DEF MailInv, RowsTyped, AccountsTypeOK
<1> QED  BY <1>1, MailInvariance, PTL

(* The credentials of a mailbox are its owner's and an address is one      *)
(* member's, however the connect routes, removals and syncs overlap.       *)
THEOREM CredentialsStayTheirs == AccountsSpec => []CredentialsAreOwners
<1>1. ASSUME MailInv  PROVE CredentialsAreOwners
  <2>1. \A a \in Accounts : connections[a] # None =>
          secrets[connections[a].creds].owner = accounts[a].owner
    BY CallParts, <1>1 DEF MailInv, RowsInStep
  <2>2. ASSUME NEW address \in Addresses  PROVE Cardinality(AccountsOf(address)) <= 1
    <3>1. \A a, b \in AccountsOf(address) : a = b
      BY <1>1 DEF MailInv, RowsInStep, AccountsOf
    <3>2. CASE AccountsOf(address) = {}
      <4>1. Cardinality(AccountsOf(address)) = 0
        BY <3>2, FS_EmptySet
      <4> QED  BY <4>1
    <3>3. CASE \E a : a \in AccountsOf(address)
      <4>1. PICK a : AccountsOf(address) = {a}
        BY <3>1, <3>3
      <4>2. Cardinality(AccountsOf(address)) = 1
        BY <4>1, FS_Singleton
      <4> QED  BY <4>2
    <3> QED  BY <3>2, <3>3
  <2> QED  BY <2>1, <2>2 DEF CredentialsAreOwners
<1> QED  BY <1>1, MailInvariance, PTL

(* No sync opens an account that was switched off and not connected since. *)
THEOREM OffIsNotOpened == AccountsSpec => []OffStaysOff
<1>1. MailInv => OffStaysOff
  BY DEF MailInv, InStep, OffStaysOff
<1> QED  BY <1>1, MailInvariance, PTL

-----------------------------------------------------------------------------
(* The plan.  Only an insertion adds a mailbox, and while calls come one   *)
(* at a time it finds as many as were counted.                             *)
Counted(c) ==
  \/ ~At(c, "idle") /\ raced' = raced
  \/ At(c, "idle") /\ CountRace
  \/ raced' = raced + 1

LEMMA AloneBefore ==
  ASSUME MailInv, CountInv, NEW c \in Calls, Counted(c), raced' = 0
  PROVE  raced = 0 /\ \A o \in Calls : o # c => At(o, "idle")
<1>1. raced \in Nat
  BY MailboxBoundsAssumption DEF MailInv, RowsTyped
<1>2. raced = 0
  BY <1>1 DEF Counted, CountRace
<1> QED  BY <1>2 DEF Counted, CountRace, Quiet, CountInv, OneCall

LEMMA FewerMailboxes ==
  ASSUME IsFiniteSet(Mailboxes), Mailboxes' \subseteq Mailboxes
  PROVE  /\ IsFiniteSet(Mailboxes)' /\ Cardinality(Mailboxes)' <= Cardinality(Mailboxes)
         /\ Cardinality(Mailboxes) \in Nat /\ Cardinality(Mailboxes)' \in Nat
<1>1. PICK old : old = Mailboxes
  OBVIOUS
<1>2. PICK new : new = Mailboxes'
  OBVIOUS
<1> QED  BY <1>1, <1>2, FS_Subset, FS_CardinalityType

LEMMA CountKeeps ==
  ASSUME MailInv, CountInv, NEW c \in Calls, NEW new, calls' = [calls EXCEPT ![c] = new],
         Counted(c), Mailboxes' \subseteq Mailboxes,
         new.pc = "account" => Cardinality(Mailboxes) < MaxMailboxes
  PROVE  CountInv'
<1>1. /\ IsFiniteSet(Mailboxes)' /\ Cardinality(Mailboxes)' <= Cardinality(Mailboxes)
      /\ Cardinality(Mailboxes) \in Nat /\ Cardinality(Mailboxes)' \in Nat
  BY FewerMailboxes DEF CountInv
<1>2. calls'[c] = new /\ \A o \in Calls : o # c => calls'[o] = calls[o]
  BY DEF MailInv
<1>3. ASSUME raced' = 0
      PROVE  /\ OneCall' /\ Cardinality(Mailboxes)' <= MaxMailboxes
             /\ \A o \in Calls : At(o, "account")' => Cardinality(Mailboxes)' < MaxMailboxes
  <2>1. raced = 0 /\ \A o \in Calls : o # c => calls[o].pc = "idle"
    BY <1>3, AloneBefore DEF At
  <2>2. OneCall'
    BY <1>2, <2>1 DEF OneCall, At
  <2>3. Cardinality(Mailboxes)' <= MaxMailboxes
    BY <1>1, <2>1, MailboxBoundsAssumption DEF CountInv
  <2>4. ASSUME NEW o \in Calls, At(o, "account")'
        PROVE  Cardinality(Mailboxes)' < MaxMailboxes
    <3>1. o = c /\ new.pc = "account"
      BY <1>2, <2>1, <2>4 DEF At
    <3> QED  BY <1>1, <3>1, MailboxBoundsAssumption
  <2> QED  BY <2>2, <2>3, <2>4
<1> QED  BY <1>1, <1>3 DEF CountInv

LEMMA GoneTo == ASSUME NEW c, NEW new, Go(c, new)  PROVE calls' = [calls EXCEPT ![c] = new]
BY DEF Go

LEMMA CountEnds ==
  ASSUME MailInv, CountInv, NEW c \in Calls, End(c), Counted(c), Mailboxes' \subseteq Mailboxes
  PROVE  CountInv'
BY IdleFields, CountKeeps DEF End

LEMMA CountGoes ==
  ASSUME MailInv, CountInv, NEW c \in Calls, NEW pc, Goto(c, pc), pc # "account",
         Counted(c), Mailboxes' \subseteq Mailboxes
  PROVE  CountInv'
<1>1. PICK call : call = calls[c]
  OBVIOUS
<1> DEFINE new == [call EXCEPT !.pc = pc]
<1>2. calls' = [calls EXCEPT ![c] = new]
  BY <1>1 DEF Goto
<1>3. new.pc = pc
  BY <1>1, CallParts DEF CallState
<1> HIDE DEF new
<1> QED  BY <1>2, <1>3, CountKeeps

LEMMA CapacityCounts == ASSUME MailInv, CountInv, NEW c \in Calls, Capacity(c)  PROVE CountInv'
<1>1. Counted(c) /\ Mailboxes' \subseteq Mailboxes
  BY DEF Capacity, At, Counted, OnlyCalls, rowsOf, tables, Mailboxes, Live
<1>2. CASE End(c)
  BY <1>1, <1>2, CountEnds
<1>3. CASE ~End(c)
  <2>1. PICK call : call = calls[c]
    OBVIOUS
  <2> DEFINE new == [call EXCEPT !.pc = "account"]
  <2>2. calls' = [calls EXCEPT ![c] = new] /\ HasRoom
    BY <1>3, <2>1 DEF Capacity, Goto
  <2> HIDE DEF new
  <2> QED  BY <1>1, <2>2, CountKeeps DEF HasRoom
<1> QED  BY <1>2, <1>3

LEMMA InsertAccountCounts ==
  ASSUME MailInv, CountInv, NEW c \in Calls, NEW a \in Accounts, InsertAccount(c, a)
  PROVE  CountInv'
<1>1. At(c, "account") /\ Counted(c)
  BY DEF InsertAccount, At, Counted
<1>2. CASE End(c) /\ UNCHANGED accounts
  <2>1. Mailboxes' \subseteq Mailboxes
    BY <1>2 DEF Mailboxes, Live
  <2> QED  BY <1>1, <1>2, <2>1, CountEnds
<1>3. CASE ~(End(c) /\ UNCHANGED accounts)
  <2>1. PICK call : call = calls[c]
    OBVIOUS
  <2>2. PICK pc : pc = AfterAccount(call.form)
    OBVIOUS
  <2> DEFINE new == [call EXCEPT !.account = a, !.pc = pc]
  <2>3. calls' = [calls EXCEPT ![c] = new] /\ \A b \in Accounts : b # a => accounts'[b] = accounts[b]
    BY <1>3, <2>1, <2>2 DEF InsertAccount, Go, MailInv, RowsTyped
  <2>4. call \in CallState /\ calls \in [Calls -> CallState]
    BY <2>1, CallParts
  <2>5. new.pc # "account"
    BY <2>2, <2>4 DEF AfterAccount, CallState
  <2> HIDE DEF new
  <2>6. Mailboxes' \subseteq Mailboxes \union {a}
    BY <2>3 DEF Mailboxes, Live
  <2>7. PICK old : old = Mailboxes
    OBVIOUS
  <2>8. PICK boxes : boxes = Mailboxes'
    OBVIOUS
  <2>9. IsFiniteSet(old) /\ IsFiniteSet(old \union {a}) /\ Cardinality(old) \in Nat
        /\ Cardinality(old \union {a}) <= Cardinality(old) + 1
    <3>1. IsFiniteSet(old) /\ Cardinality(old) \in Nat
      BY <2>7, FS_CardinalityType DEF CountInv
    <3>2. /\ IsFiniteSet(old \union {a})
          /\ \/ Cardinality(old \union {a}) = Cardinality(old)
             \/ Cardinality(old \union {a}) = Cardinality(old) + 1
      BY <3>1, FS_AddElement
    <3> QED  BY <3>1, <3>2
  <2>10. IsFiniteSet(boxes) /\ Cardinality(boxes) <= Cardinality(old) + 1 /\ Cardinality(boxes) \in Nat
    <3>1. boxes \subseteq old \union {a}
      BY <2>6, <2>7, <2>8
    <3>2. IsFiniteSet(boxes) /\ Cardinality(boxes) <= Cardinality(old \union {a})
      BY <2>9, <3>1, FS_Subset
    <3>3. Cardinality(boxes) \in Nat /\ Cardinality(old \union {a}) \in Nat
      BY <2>9, <3>2, FS_CardinalityType
    <3> QED  BY <2>9, <3>2, <3>3
  <2>11. ASSUME raced' = 0
         PROVE  /\ OneCall' /\ Cardinality(boxes) <= MaxMailboxes
                /\ \A o \in Calls : ~At(o, "account")'
    <3>1. raced = 0 /\ \A o \in Calls : o # c => calls[o].pc = "idle"
      BY <1>1, <2>11, AloneBefore DEF At
    <3>2. Cardinality(old) < MaxMailboxes
      BY <1>1, <2>7, <3>1 DEF CountInv
    <3>3. Cardinality(boxes) <= MaxMailboxes
      BY <2>9, <2>10, <3>2, MailboxBoundsAssumption
    <3>4. calls'[c] = new /\ \A o \in Calls : o # c => calls'[o].pc = "idle"
      BY <2>3, <2>4, <3>1
    <3> QED  BY <2>5, <3>3, <3>4 DEF OneCall, At
  <2> QED  BY <2>8, <2>10, <2>11 DEF CountInv
<1> QED  BY <1>2, <1>3

(* The other steps leave who is live as it is, or remove one.              *)
LEMMA ConnectCounts ==
  ASSUME MailInv, CountInv, NEW c \in Calls,
         \/ \E form \in Forms, u \in Users, address \in Addresses, s \in Creds :
              BeginConnect(c, form, u, address, s)
         \/ UpdateAccount(c) \/ ReadConnection(c) \/ WriteConnection(c)
         \/ ReadIdentity(c) \/ InsertIdentity(c)
  PROVE  CountInv'
<1>0. calls[c] \in CallState
  BY CallParts
<1>1. ASSUME NEW form \in Forms, NEW u \in Users, NEW address \in Addresses, NEW s \in Creds,
             BeginConnect(c, form, u, address, s)
      PROVE  CountInv'
  <2>1. Counted(c) /\ Mailboxes' \subseteq Mailboxes
    BY <1>1 DEF BeginConnect, At, Counted, tables, Mailboxes, Live
  <2>2. PICK new : calls' = [calls EXCEPT ![c] = new] /\ new.pc \in {"capacity", IfFound(form)}
    <3>1. CASE Go(c, [IdleCall EXCEPT !.pc = "capacity", !.form = form, !.user = u,
                                      !.address = address, !.creds = s])
      <4>1. PICK new : new = [IdleCall EXCEPT !.pc = "capacity", !.form = form, !.user = u,
                                !.address = address, !.creds = s]
        OBVIOUS
      <4>2. calls' = [calls EXCEPT ![c] = new] /\ new.pc = "capacity"
        BY <3>1, <4>1, GoneTo DEF IdleCall
      <4> QED  BY <4>2
    <3>2. ASSUME NEW a \in AccountsOf(address),
                 Go(c, [IdleCall EXCEPT !.pc = IfFound(form), !.form = form, !.user = u,
                          !.address = address, !.account = a, !.creds = s])
          PROVE  \E new : calls' = [calls EXCEPT ![c] = new] /\ new.pc = IfFound(form)
      <4>1. PICK new : new = [IdleCall EXCEPT !.pc = IfFound(form), !.form = form, !.user = u,
                                !.address = address, !.account = a, !.creds = s]
        OBVIOUS
      <4>2. calls' = [calls EXCEPT ![c] = new] /\ new.pc = IfFound(form)
        BY <3>2, <4>1, GoneTo DEF IdleCall
      <4> QED  BY <4>2
    <3>3. \/ Go(c, [IdleCall EXCEPT !.pc = "capacity", !.form = form, !.user = u,
                                    !.address = address, !.creds = s])
          \/ \E a \in AccountsOf(address) :
               Go(c, [IdleCall EXCEPT !.pc = IfFound(form), !.form = form, !.user = u,
                        !.address = address, !.account = a, !.creds = s])
      BY <1>1 DEF BeginConnect
    <3> QED  BY <3>1, <3>2, <3>3
  <2>3. new.pc # "account"
    BY <2>2 DEF IfFound
  <2> QED  BY <2>1, <2>2, <2>3, CountKeeps
<1>2. CASE UpdateAccount(c)
  <2>1. Counted(c) /\ Goto(c, "readConnection")
    BY <1>2 DEF UpdateAccount, At, Counted, Others
  <2>2. Mailboxes' \subseteq Mailboxes
    BY <1>2, CallParts DEF UpdateAccount, RowsTyped, Mailboxes, Live
  <2> QED  BY <2>1, <2>2, CountGoes
<1>3. CASE ReadConnection(c)
  <2>1. Counted(c) /\ Mailboxes' \subseteq Mailboxes
    BY <1>3 DEF ReadConnection, At, Counted, OnlyCalls, rowsOf, tables, Mailboxes, Live
  <2>2. PICK new : new = [calls[c] EXCEPT !.pc = "connection", !.row = connections[calls[c].account]]
    OBVIOUS
  <2>3. calls' = [calls EXCEPT ![c] = new] /\ new.pc = "connection"
    BY <1>0, <1>3, <2>2, GoneTo DEF ReadConnection, CallState
  <2> QED  BY <2>1, <2>3, CountKeeps
<1>4. CASE WriteConnection(c)
  <2>1. Counted(c) /\ Mailboxes' \subseteq Mailboxes
    BY <1>4 DEF WriteConnection, At, Counted, Others, Mailboxes, Live
  <2>2. CASE End(c)
    BY <2>1, <2>2, CountEnds
  <2>3. CASE ~End(c)
    <3>1. PICK new : new = [calls[c] EXCEPT !.row = None, !.pc = AfterConnection(calls[c].form)]
      OBVIOUS
    <3>2. calls' = [calls EXCEPT ![c] = new]
      BY <1>4, <2>3, <3>1, GoneTo DEF WriteConnection
    <3>3. new.pc # "account"
      BY <1>0, <3>1 DEF AfterConnection, CallState
    <3> QED  BY <2>1, <3>2, <3>3, CountKeeps
  <2> QED  BY <2>2, <2>3
<1>5. CASE ReadIdentity(c)
  <2>1. Counted(c) /\ Mailboxes' \subseteq Mailboxes
    BY <1>5 DEF ReadIdentity, At, Counted, OnlyCalls, rowsOf, tables, Mailboxes, Live
  <2>2. Goto(c, "sync") \/ Goto(c, "identity") \/ End(c)
    BY <1>5, AfterConnectMoves DEF ReadIdentity
  <2> QED  BY <2>1, <2>2, CountGoes, CountEnds
<1>6. CASE InsertIdentity(c)
  <2>1. Counted(c) /\ Mailboxes' \subseteq Mailboxes
    BY <1>6 DEF InsertIdentity, At, Counted, Others, Mailboxes, Live
  <2>2. Goto(c, "sync") \/ Goto(c, "readConnection") \/ End(c)
    BY <1>6, AfterConnectMoves DEF InsertIdentity
  <2> QED  BY <2>1, <2>2, CountGoes, CountEnds
<1> QED  BY <1>1, <1>2, <1>3, <1>4, <1>5, <1>6

LEMMA RemovalCounts ==
  ASSUME MailInv, CountInv, NEW c \in Calls,
         \/ \E u \in Users, a \in Accounts : BeginDisconnect(c, u, a) \/ BeginRemoval(c, u, a)
         \/ DropConnection(c) \/ TurnOff(c) \/ WipeMail(c) \/ WipeIdentity(c) \/ DropAccount(c)
  PROVE  CountInv'
<1>0. calls[c] \in CallState
  BY CallParts
<1>1. ASSUME NEW u \in Users, NEW a \in Accounts, BeginDisconnect(c, u, a) \/ BeginRemoval(c, u, a)
      PROVE  CountInv'
  <2>1. Counted(c) /\ Mailboxes' \subseteq Mailboxes
    BY <1>1 DEF BeginDisconnect, BeginRemoval, At, Counted, rowsOf, tables, Mailboxes, Live
  <2>2. PICK new : calls' = [calls EXCEPT ![c] = new] /\ new.pc \in {"dropConnection", "wipeMail"}
    <3>1. CASE BeginDisconnect(c, u, a)
      <4>1. PICK new : new = [IdleCall EXCEPT !.pc = "dropConnection", !.account = a]
        OBVIOUS
      <4>2. calls' = [calls EXCEPT ![c] = new] /\ new.pc = "dropConnection"
        BY <3>1, <4>1, GoneTo DEF BeginDisconnect, IdleCall
      <4> QED  BY <4>2
    <3>2. CASE BeginRemoval(c, u, a)
      <4>1. PICK pc : pc = IF accounts[a].owner = u THEN "dropConnection" ELSE "wipeMail"
        OBVIOUS
      <4>2. PICK new : new = [IdleCall EXCEPT !.account = a, !.removal = TRUE, !.pc = pc]
        OBVIOUS
      <4>3. calls' = [calls EXCEPT ![c] = new] /\ new.pc = pc
        BY <3>2, <4>1, <4>2, GoneTo DEF BeginRemoval, IdleCall
      <4> QED  BY <4>1, <4>3
    <3> QED  BY <1>1, <3>1, <3>2
  <2> QED  BY <2>1, <2>2, CountKeeps
<1>2. CASE DropConnection(c)
  <2>1. Counted(c) /\ Mailboxes' \subseteq Mailboxes /\ Goto(c, "turnOff")
    BY <1>2 DEF DropConnection, At, Counted, Others, Mailboxes, Live
  <2> QED  BY <2>1, CountGoes
<1>3. CASE TurnOff(c)
  <2>1. Counted(c) /\ (Goto(c, "wipeMail") \/ End(c))
    BY <1>3 DEF TurnOff, At, Counted, Others
  <2>2. Mailboxes' \subseteq Mailboxes
    BY <1>3, CallParts DEF TurnOff, RowsTyped, Mailboxes, Live
  <2> QED  BY <2>1, <2>2, CountGoes, CountEnds
<1>4. CASE WipeMail(c) \/ WipeIdentity(c)
  <2>1. /\ Counted(c) /\ Mailboxes' \subseteq Mailboxes
        /\ Goto(c, "wipeIdentity") \/ Goto(c, "dropAccount")
    BY <1>4 DEF WipeMail, WipeIdentity, At, Counted, Others, Mailboxes, Live
  <2> QED  BY <2>1, CountGoes
<1>5. CASE DropAccount(c)
  <2>1. Counted(c) /\ End(c)
    BY <1>5 DEF DropAccount, At, Counted, Others
  <2>2. Mailboxes' \subseteq Mailboxes
    BY <1>5, CallParts DEF DropAccount, RowsTyped, Mailboxes, Live
  <2> QED  BY <2>1, <2>2, CountEnds
<1> QED  BY <1>1, <1>2, <1>3, <1>4, <1>5

LEMMA SyncCounts ==
  ASSUME MailInv, CountInv, NEW c \in Calls,
         \/ SyncForm(c) \/ SyncConnected(c) \/ GetProvider(c) \/ Search(c) \/ Ingest(c)
         \/ Store(c) \/ Settle(c) \/ Fail(c)
  PROVE  CountInv'
<1>0. calls[c] \in CallState
  BY CallParts
<1>1. ASSUME NEW a \in Accounts, BeginSync(c, a)  PROVE CountInv'
  <2>1. Counted(c) /\ Mailboxes' \subseteq Mailboxes
    BY <1>1 DEF BeginSync, At, Counted, rowsOf, tables, Mailboxes, Live
  <2>2. PICK new : new = [IdleCall EXCEPT !.pc = "provider", !.account = a,
                                          !.user = accounts[a].owner]
    OBVIOUS
  <2>3. calls' = [calls EXCEPT ![c] = new] /\ new.pc = "provider"
    BY <1>1, <2>2, GoneTo DEF BeginSync, IdleCall
  <2> QED  BY <2>1, <2>3, CountKeeps
<1>2. CASE SyncConnected(c) \/ GetProvider(c)
  <2>1. Counted(c) /\ Mailboxes' \subseteq Mailboxes
    BY <1>2 DEF SyncConnected, GetProvider, At, Counted, OnlyCalls, rowsOf, tables, Mailboxes, Live
  <2>2. CASE End(c)
    BY <2>1, <2>2, CountEnds
  <2>3. CASE ~End(c)
    <3>1. PICK new : calls' = [calls EXCEPT ![c] = new] /\ new.pc \in {"provider", "search"}
      <4>1. CASE SyncConnected(c)
        <5>1. PICK new : new = [IdleCall EXCEPT !.pc = "provider", !.account = calls[c].account,
                                                !.user = calls[c].user]
          OBVIOUS
        <5>2. calls' = [calls EXCEPT ![c] = new] /\ new.pc = "provider"
          BY <2>3, <4>1, <5>1, GoneTo DEF SyncConnected, IdleCall
        <5> QED  BY <5>2
      <4>2. CASE GetProvider(c)
        <5>1. PICK new : new = [calls[c] EXCEPT !.pc = "search",
                                  !.creds = connections[calls[c].account].creds,
                                  !.late = calls[c].account \in off]
          OBVIOUS
        <5>2. calls' = [calls EXCEPT ![c] = new] /\ new.pc = "search"
          BY <1>0, <2>3, <4>2, <5>1, GoneTo DEF GetProvider, CallState
        <5> QED  BY <5>2
      <4> QED  BY <1>2, <4>1, <4>2
    <3> QED  BY <2>1, <3>1, CountKeeps
  <2> QED  BY <2>2, <2>3
<1>3. CASE Search(c)
  <2>1. Counted(c)
    BY <1>3 DEF Search, At, Counted, Others
  <2>2. Mailboxes' \subseteq Mailboxes
    BY <1>3, CallParts DEF Search, RowsTyped, Mailboxes, Live
  <2>3. CASE End(c)
    BY <2>1, <2>2, <2>3, CountEnds
  <2>4. CASE ~End(c)
    <3>1. PICK found : Go(c, [calls[c] EXCEPT !.pc = "ingest", !.left = found])
      BY <1>3, <2>4 DEF Search
    <3>2. PICK new : new = [calls[c] EXCEPT !.pc = "ingest", !.left = found]
      OBVIOUS
    <3>3. calls' = [calls EXCEPT ![c] = new] /\ new.pc = "ingest"
      BY <1>0, <3>1, <3>2, GoneTo DEF CallState
    <3> QED  BY <2>1, <2>2, <3>3, CountKeeps
  <2> QED  BY <2>3, <2>4
<1>4. CASE Ingest(c)
  <2>1. Counted(c) /\ Mailboxes' \subseteq Mailboxes
    BY <1>4 DEF Ingest, At, Counted, OnlyCalls, rowsOf, tables, Mailboxes, Live
  <2>2. CASE Goto(c, "settle")
    BY <2>1, <2>2, CountGoes
  <2>3. CASE ~Goto(c, "settle")
    <3>1. PICK m \in calls[c].left :
            Go(c, [calls[c] EXCEPT !.left = @ \ {m},
                     !.pc = IF calls[c].user \in members /\ m \notin mail[calls[c].account]
                            THEN "store" ELSE "ingest",
                     !.message = IF calls[c].user \in members /\ m \notin mail[calls[c].account]
                                 THEN m ELSE None])
      BY <1>4, <2>3 DEF Ingest
    <3>2. PICK storing : storing = (calls[c].user \in members /\ m \notin mail[calls[c].account])
      OBVIOUS
    <3>3. PICK pc : pc = IF storing THEN "store" ELSE "ingest"
      OBVIOUS
    <3>4. PICK new : new = [calls[c] EXCEPT !.left = @ \ {m}, !.pc = pc,
                              !.message = IF storing THEN m ELSE None]
      OBVIOUS
    <3>5. Go(c, new)
      BY <3>1, <3>2, <3>3, <3>4
    <3>6. calls' = [calls EXCEPT ![c] = new] /\ new.pc = pc
      BY <1>0, <3>4, <3>5, GoneTo DEF CallState
    <3> QED  BY <2>1, <3>3, <3>6, CountKeeps
  <2> QED  BY <2>2, <2>3
<1>5. CASE Store(c)
  <2>1. Counted(c) /\ Mailboxes' \subseteq Mailboxes
    BY <1>5 DEF Store, At, Counted, Others, Mailboxes, Live
  <2>2. PICK new : new = [calls[c] EXCEPT !.pc = "ingest", !.message = None]
    OBVIOUS
  <2>3. calls' = [calls EXCEPT ![c] = new] /\ new.pc = "ingest"
    BY <1>0, <1>5, <2>2, GoneTo DEF Store, CallState
  <2> QED  BY <2>1, <2>3, CountKeeps
<1>6. CASE Settle(c)
  <2>1. Counted(c) /\ End(c)
    BY <1>6 DEF Settle, At, Counted, Others
  <2>2. Mailboxes' \subseteq Mailboxes
    BY <1>6, CallParts DEF Settle, RowsTyped, Mailboxes, Live
  <2> QED  BY <2>1, <2>2, CountEnds
<1>7. CASE Fail(c)
  <2>1. Counted(c) /\ End(c) /\ Mailboxes' \subseteq Mailboxes
    BY <1>7 DEF Fail, Counted, rowsOf, tables, Mailboxes, Live
  <2> QED  BY <2>1, CountEnds
<1> QED  BY <1>1, <1>2, <1>3, <1>4, <1>5, <1>6, <1>7 DEF SyncForm

LEMMA LeaveCounts == ASSUME MailInv, CountInv, NEW u \in Users, Leave(u)  PROVE CountInv'
<1>1. UNCHANGED <<accounts, calls>> /\ CountRace
  BY DEF Leave, tables
<1>2. raced \in Nat
  BY MailboxBoundsAssumption DEF MailInv, RowsTyped
<1>3. raced' = 0 => raced = 0
  BY <1>1, <1>2 DEF CountRace
<1> QED  BY <1>1, <1>3 DEF CountInv, OneCall, At, Mailboxes, Live

LEMMA CountStarts == AccountsInit => CountInv
<1> SUFFICES ASSUME AccountsInit  PROVE CountInv
  OBVIOUS
<1>1. Mailboxes = {}
  BY DEF AccountsInit, Mailboxes, Live
<1>2. PICK boxes : boxes = Mailboxes
  OBVIOUS
<1>3. IsFiniteSet(boxes) /\ Cardinality(boxes) = 0
  BY <1>1, <1>2, FS_EmptySet
<1>4. \A c \in Calls : calls[c].pc = "idle"
  BY IdleFields DEF AccountsInit
<1> QED  BY <1>2, <1>3, <1>4, MailboxBoundsAssumption DEF CountInv, OneCall, At

LEMMA CountSteps == MailInv /\ CountInv /\ [AccountsNext]_mailboxVars => CountInv'
<1> SUFFICES ASSUME MailInv, CountInv, [AccountsNext]_mailboxVars  PROVE CountInv'
  OBVIOUS
<1>1. ASSUME NEW c \in Calls, Capacity(c)  PROVE CountInv'
  BY <1>1, CapacityCounts
<1>2. ASSUME NEW c \in Calls, NEW a \in Accounts, InsertAccount(c, a)  PROVE CountInv'
  BY <1>2, InsertAccountCounts
<1>3. CASE UNCHANGED mailboxVars
  BY <1>3 DEF mailboxVars, rowsOf, tables, CountInv, OneCall, At, Mailboxes, Live
<1>4. CASE AccountsNext
  BY <1>1, <1>2, <1>4, ConnectCounts, RemovalCounts, SyncCounts, LeaveCounts DEF AccountsNext
<1> QED  BY <1>3, <1>4

(* While calls come one at a time the plan's number of mailboxes is kept:  *)
(* none is inserted but where one fewer was counted.                       *)
THEOREM PlanIsKept == AccountsSpec => []MailboxesWhenAlone
<1>1. CountInv => MailboxesWhenAlone
  BY DEF CountInv, MailboxesWhenAlone
<1> QED  BY <1>1, MailInvariance, CountStarts, CountSteps, PTL DEF AccountsSpec

-----------------------------------------------------------------------------
(* What is shown as connected can be synced.  The one call there is, c,    *)
(* finds every other account complete and leaves its own as the place it   *)
(* goes to needs it.                                                       *)
Alone(c) ==
  /\ MailInv /\ CountInv /\ UseInv
  /\ raced = 0 /\ \A o \in Calls : o # c => At(o, "idle")

LEMMA CallAloneParts ==
  ASSUME NEW c \in Calls, Alone(c)
  PROVE  /\ calls[c] \in CallState /\ calls \in [Calls -> CallState] /\ InStep(calls[c])
         /\ RowsTyped /\ RowsInStep
         /\ CallAlone(calls[c])
         /\ calls[c].pc # "idle" => CompleteBut(calls[c].account)
         /\ calls[c].pc = "idle" => CompleteBut(None)
<1>1. MailInv /\ UseInv /\ raced = 0
  BY DEF Alone
<1>2. calls[c].pc = "idle" => Quiet
  BY DEF Alone, Quiet, At
<1> QED  BY <1>1, <1>2, CallParts DEF UseInv, At

LEMMA UseKeeps ==
  ASSUME NEW c \in Calls, Alone(c), NEW new, calls' = [calls EXCEPT ![c] = new], CallAlone(new)',
         new.pc = "idle" => CompleteBut(None)',
         new.pc # "idle" => CompleteBut(new.account)'
  PROVE  UseInv'
<1>1. calls'[c] = new /\ \A o \in Calls : o # c => calls'[o] = calls[o] /\ calls[o].pc = "idle"
  BY DEF Alone, MailInv, At
<1>2. \A o \in Calls : o # c => CallAlone(calls[o])'
  BY <1>1 DEF CallAlone, After, Removing, Syncing
<1> QED  BY <1>1, <1>2 DEF UseInv, Quiet, At

LEMMA OthersComplete ==
  ASSUME NEW a, CompleteBut(a),
         \A b \in Accounts : b # a =>
           /\ accounts'[b] = accounts[b] /\ connections'[b] = connections[b]
           /\ b \in identities => b \in identities'
  PROVE  CompleteBut(a)'
BY DEF CompleteBut, Complete, ServedIfShown, Served, Mailboxes, Live

LEMMA AllComplete ==
  ASSUME NEW a, CompleteBut(a), a \in Mailboxes => Complete(a)
  PROVE  CompleteBut(None)
BY DEF CompleteBut

LEMMA AllOthers ==
  ASSUME NEW a, CompleteBut(None)
  PROVE  CompleteBut(a)
BY NoAccountAssumption DEF CompleteBut, Mailboxes

LEMMA SameTables ==
  ASSUME UNCHANGED <<accounts, connections, identities>>, NEW a
  PROVE  /\ CompleteBut(a)' <=> CompleteBut(a)
         /\ Complete(a)' <=> Complete(a)
         /\ Served(a)' <=> Served(a)
         /\ ServedIfShown(a)' <=> ServedIfShown(a)
         /\ Live(a)' <=> Live(a)
         /\ \A call : Prepared(call, a)' <=> Prepared(call, a)
BY DEF CompleteBut, Complete, Served, ServedIfShown, Prepared, Mailboxes, Live

LEMMA UseEnds ==
  ASSUME NEW c \in Calls, Alone(c), End(c), CompleteBut(None)'
  PROVE  UseInv'
<1>1. CallAlone(IdleCall)'
  BY IdleFields DEF CallAlone, After, Removing, Syncing
<1> QED  BY <1>1, IdleFields, UseKeeps DEF End

(* A call that ends with its own account complete.                         *)
LEMMA UseEndsAt ==
  ASSUME NEW c \in Calls, Alone(c), End(c), NEW a, CompleteBut(a)',
         a \in Mailboxes' => Complete(a)'
  PROVE  UseInv'
<1>1. CompleteBut(None)'
  BY DEF CompleteBut
<1> QED  BY <1>1, UseEnds

LEMMA BeginConnectUses ==
  ASSUME NEW c \in Calls, Alone(c), NEW form \in Forms, NEW u \in Users, NEW address \in Addresses,
         NEW s \in Creds, BeginConnect(c, form, u, address, s)
  PROVE  UseInv'
<1>1. CompleteBut(None) /\ UNCHANGED <<accounts, connections, identities>>
  BY CallAloneParts DEF BeginConnect, At, tables
<1>2. CASE Go(c, [IdleCall EXCEPT !.pc = "capacity", !.form = form, !.user = u,
                                  !.address = address, !.creds = s])
  <2>1. PICK new : new = [IdleCall EXCEPT !.pc = "capacity", !.form = form, !.user = u,
                            !.address = address, !.creds = s]
    OBVIOUS
  <2>2. calls' = [calls EXCEPT ![c] = new] /\ new.pc = "capacity" /\ new.account = None
    BY <1>2, <2>1, GoneTo DEF IdleCall
  <2>3. CallAlone(new)'
    BY <2>2 DEF CallAlone, After, Removing, Syncing
  <2> QED  BY <1>1, <2>2, <2>3, SameTables, UseKeeps
<1>3. ASSUME NEW a \in AccountsOf(address),
             Go(c, [IdleCall EXCEPT !.pc = IfFound(form), !.form = form, !.user = u,
                      !.address = address, !.account = a, !.creds = s])
      PROVE  UseInv'
  <2>1. PICK pc : pc = IfFound(form)
    OBVIOUS
  <2>2. PICK new : new = [IdleCall EXCEPT !.pc = pc, !.form = form, !.user = u,
                            !.address = address, !.account = a, !.creds = s]
    OBVIOUS
  <2>3. /\ calls' = [calls EXCEPT ![c] = new] /\ new.pc = pc /\ new.account = a /\ new.form = form
    BY <1>3, <2>1, <2>2, GoneTo DEF IdleCall
  <2>4. \/ pc = "readConnection" /\ form = "proton"
        \/ pc = "update" /\ form # "proton"
    BY <2>1 DEF IfFound
  <2>5. a \in Mailboxes /\ Live(a) /\ Complete(a)
    BY <1>1, NoAccountAssumption DEF AccountsOf, Mailboxes, CompleteBut
  <2>6. Live(a)' /\ Complete(a)' /\ CompleteBut(a)'
    BY <1>1, <2>5, SameTables, AllOthers
  <2>7. pc = "readConnection" => Prepared(new, a)'
    BY <2>3, <2>4, <2>6 DEF Prepared, Complete, ServedIfShown
  <2>8. CallAlone(new)'
    BY <2>3, <2>4, <2>6, <2>7 DEF CallAlone, Portal
  <2>9. CompleteBut(new.account)' /\ new.pc # "idle"
    BY <2>3, <2>4, <2>6
  <2> QED  BY <2>3, <2>8, <2>9, UseKeeps
<1>4. \/ Go(c, [IdleCall EXCEPT !.pc = "capacity", !.form = form, !.user = u,
                                !.address = address, !.creds = s])
      \/ \E a \in AccountsOf(address) :
           Go(c, [IdleCall EXCEPT !.pc = IfFound(form), !.form = form, !.user = u,
                    !.address = address, !.account = a, !.creds = s])
  BY DEF BeginConnect
<1> QED  BY <1>2, <1>3, <1>4

(* A call goes on with the account it is at work on.                       *)
LEMMA UseGoes ==
  ASSUME NEW c \in Calls, Alone(c), NEW pc \in Pcs \ {"idle"}, Goto(c, pc),
         NEW a, a = calls[c].account, CompleteBut(a)',
         \A new : new.pc = pc /\ SameCall(new, calls[c]) => CallAlone(new)'
  PROVE  UseInv'
<1>1. PICK new : Moves(c, new) /\ new.pc = pc /\ SameCall(new, calls[c])
  BY CallAloneParts, GotoMoves
<1>2. CallAlone(new)' /\ new.account = calls[c].account
  BY <1>1 DEF SameCall
<1> QED  BY <1>1, <1>2, UseKeeps DEF Moves

(* Where an account stands.                                                *)
LEMMA Standing ==
  ASSUME NEW c \in Calls, Alone(c), calls[c].pc \in After \union Removing \union Syncing
  PROVE  /\ calls[c].account \in Accounts /\ Live(calls[c].account)
         /\ accounts[calls[c].account] \in AccountRow
         /\ connections[calls[c].account] \in ConnectionRow \union {None}
         /\ CompleteBut(calls[c].account)
<1>1. calls[c].account \in issued /\ Live(calls[c].account)
  BY CallAloneParts DEF InStep, CallAlone
<1>2. calls[c].pc # "idle"
  BY DEF After, Removing, Syncing
<1> QED  BY <1>1, <1>2, CallAloneParts DEF RowsTyped, Live

LEMMA CapacityUses == ASSUME NEW c \in Calls, Alone(c), Capacity(c)  PROVE UseInv'
<1>1. calls[c].pc = "capacity" /\ UNCHANGED <<accounts, connections, identities>>
  BY DEF Capacity, At, OnlyCalls, rowsOf, tables
<1>2. calls[c].account = None /\ CompleteBut(None)'
  BY <1>1, CallAloneParts, SameTables DEF InStep, Before
<1>3. CASE End(c)
  BY <1>2, <1>3, UseEnds
<1>4. CASE Goto(c, "account")
  <2>1. \A new : new.pc = "account" => CallAlone(new)'
    BY DEF CallAlone, After, Removing, Syncing
  <2> QED  BY <1>2, <1>4, <2>1, UseGoes DEF Pcs, Before
<1> QED  BY <1>3, <1>4 DEF Capacity

(* A new account has nothing yet.                                          *)
LEMMA InsertAccountUses ==
  ASSUME NEW c \in Calls, Alone(c), NEW a \in Accounts, InsertAccount(c, a)
  PROVE  UseInv'
<1>1. /\ calls[c].pc = "account" /\ a \notin issued /\ UNCHANGED <<connections, identities>>
      /\ calls[c].account = None /\ CompleteBut(None)
  BY CallAloneParts DEF InsertAccount, At, InStep, Before
<1>2. CASE End(c) /\ UNCHANGED accounts
  BY <1>1, <1>2, SameTables, UseEnds
<1>3. CASE ~(End(c) /\ UNCHANGED accounts)
  <2>1. PICK call \in CallState : call = calls[c]
    BY CallAloneParts
  <2>2. PICK pc : pc = AfterAccount(call.form)
    OBVIOUS
  <2>3. PICK new : new = [call EXCEPT !.account = a, !.pc = pc]
    OBVIOUS
  <2>4. /\ calls' = [calls EXCEPT ![c] = new]
        /\ accounts' = [accounts EXCEPT ![a] = [owner |-> call.user, address |-> call.address,
                          provider |-> Provider[call.form], status |-> "connected"]]
    BY <1>3, <2>1, <2>2, <2>3, GoneTo DEF InsertAccount
  <2>5. new.pc = pc /\ new.account = a /\ new.form = call.form
    BY <2>3 DEF CallState
  <2>6. ~Live(a) /\ connections[a] = None /\ a \notin identities
    BY <1>1, CallAloneParts DEF RowsTyped, RowsInStep
  <2>7. /\ accounts'[a].provider = Provider[call.form] /\ Live(a)'
        /\ \A b \in Accounts : b # a => accounts'[b] = accounts[b]
    <3>1. [owner |-> call.user, address |-> call.address,
           provider |-> Provider[call.form], status |-> "connected"] \in AccountRow
      <4>1. call.form \in AllForms /\ call.user \in Users /\ call.address \in Addresses
        BY <1>1, <2>1, CallAloneParts, FormsAssumption DEF InStep, Before, Holds, CallState
      <4> QED  BY <4>1, FormFields DEF AccountRow
    <3> QED  BY <2>4, <3>1, RowAssumption, CallAloneParts DEF RowsTyped, Live
  <2>8. CompleteBut(a)'
    BY <1>1, <2>7, AllOthers, OthersComplete
  <2>9. Prepared(new, a)'
    BY <1>1, <2>5, <2>6, <2>7 DEF Prepared, Provider
  <2>10. CallAlone(new)'
    <3>1. \/ pc = "identity" /\ call.form \in Portal
          \/ pc = "readConnection" /\ call.form \notin Portal
      BY <2>2 DEF AfterAccount
    <3> QED  BY <1>1, <2>5, <2>6, <2>7, <2>9, <3>1 DEF CallAlone
  <2>11. new.pc # "idle"
    BY <2>2, <2>5 DEF AfterAccount
  <2> QED  BY <2>4, <2>5, <2>8, <2>10, <2>11, UseKeeps
<1> QED  BY <1>2, <1>3

LEMMA UpdateAccountUses == ASSUME NEW c \in Calls, Alone(c), UpdateAccount(c)  PROVE UseInv'
<1>1. PICK call \in CallState : call = calls[c]
  BY CallAloneParts
<1>2. PICK a : a = call.account
  OBVIOUS
<1>3. /\ call.pc = "update" /\ Goto(c, "readConnection") /\ UNCHANGED <<connections, identities>>
  BY <1>1 DEF UpdateAccount, At
<1>4. /\ a \in Accounts /\ Live(a) /\ accounts[a] \in AccountRow /\ CompleteBut(a)
      /\ call.form # "proton" /\ Complete(a)
  BY <1>1, <1>2, <1>3, Standing, CallAloneParts DEF CallAlone, After
<1>5. PICK provider : provider = Provider[call.form]
  OBVIOUS
<1>6. accounts' = [accounts EXCEPT ![a] = Reconnected(@, provider)]
  BY <1>1, <1>2, <1>4, <1>5 DEF UpdateAccount
<1>7. provider \in Providers
  <2>1. call.form \in AllForms
    BY <1>1, <1>3, CallAloneParts, FormsAssumption DEF InStep, After, CallState
  <2> QED  BY <1>5, <2>1, FormFields
<1>8. /\ accounts'[a].provider = provider /\ Live(a)'
      /\ \A b \in Accounts : b # a => accounts'[b] = accounts[b]
  <2>1. accounts'[a] = [accounts[a] EXCEPT !.provider = provider, !.status = "connected"]
    BY <1>4, <1>6, CallAloneParts DEF RowsTyped, Reconnected
  <2>2. accounts'[a] \in AccountRow /\ accounts'[a].provider = provider
    BY <1>4, <1>7, <2>1 DEF AccountRow
  <2> QED  BY <1>6, <2>2, RowAssumption, CallAloneParts DEF RowsTyped, Live
<1>9. CompleteBut(a)'
  BY <1>3, <1>4, <1>8, OthersComplete
<1>10. \A new : new.pc = "readConnection" /\ SameCall(new, call) => CallAlone(new)'
  BY <1>2, <1>3, <1>4, <1>5, <1>8 DEF CallAlone, SameCall, Prepared, Complete
<1> QED  BY <1>1, <1>2, <1>3, <1>9, <1>10, UseGoes DEF Pcs, After

LEMMA ReadConnectionUses == ASSUME NEW c \in Calls, Alone(c), ReadConnection(c)  PROVE UseInv'
<1>1. PICK call \in CallState : call = calls[c]
  BY CallAloneParts
<1>2. PICK a : a = call.account
  OBVIOUS
<1>3. PICK row : row = connections[a]
  OBVIOUS
<1>4. PICK new : new = [call EXCEPT !.pc = "connection", !.row = row]
  OBVIOUS
<1>5. /\ call.pc = "readConnection" /\ UNCHANGED <<accounts, connections, identities>>
      /\ calls' = [calls EXCEPT ![c] = new]
  BY <1>1, <1>2, <1>3, <1>4, GoneTo DEF ReadConnection, At, OnlyCalls, rowsOf, tables
<1>6. /\ new.pc = "connection" /\ new.account = a /\ new.form = call.form /\ new.row = row
  BY <1>2, <1>4 DEF CallState
<1>7. /\ Live(a) /\ CompleteBut(a) /\ Prepared(call, a)
      /\ call.form \in Portal => a \in identities
  BY <1>1, <1>2, <1>5, Standing, CallAloneParts DEF CallAlone, After
<1>8. Live(a)' /\ CompleteBut(a)' /\ Prepared(call, a)'
  BY <1>5, <1>7, SameTables
<1>9. Prepared(new, a)'
  BY <1>6, <1>8 DEF Prepared
<1>10. CallAlone(new)'
  BY <1>3, <1>5, <1>6, <1>7, <1>8, <1>9 DEF CallAlone
<1> QED  BY <1>5, <1>6, <1>8, <1>10, UseKeeps

(* The row that was read is the row there is.                              *)
LEMMA WriteConnectionUses == ASSUME NEW c \in Calls, Alone(c), WriteConnection(c)  PROVE UseInv'
<1>1. PICK call \in CallState : call = calls[c]
  BY CallAloneParts
<1>2. PICK a : a = call.account
  OBVIOUS
<1>3. call.pc = "connection" /\ UNCHANGED <<accounts, identities>>
  BY <1>1 DEF WriteConnection, At
<1>4. /\ a \in Accounts /\ Live(a) /\ CompleteBut(a) /\ Prepared(call, a)
      /\ connections[a] \in ConnectionRow \union {None}
      /\ call.form \in Portal => a \in identities
      /\ call.row = connections[a]
  BY <1>1, <1>2, <1>3, Standing, CallAloneParts DEF CallAlone, After
<1>5. PICK pc : pc = AfterConnection(call.form)
  OBVIOUS
<1>6. PICK new : new = [call EXCEPT !.row = None, !.pc = pc]
  OBVIOUS
<1>7. new.pc = pc /\ new.account = a /\ new.form = call.form
  BY <1>2, <1>6 DEF CallState
<1>8. call.form \in AllForms
  BY <1>1, <1>3, CallAloneParts, FormsAssumption DEF InStep, After, CallState
<1>9. PICK row : row = IF call.row # None THEN Renewed(connections[a], call)
                       ELSE [first |-> call.creds, creds |-> call.creds,
                             provider |-> Provider[call.form]]
  OBVIOUS
<1>10. calls' = [calls EXCEPT ![c] = new] /\ connections' = [connections EXCEPT ![a] = row]
  BY <1>1, <1>2, <1>4, <1>5, <1>6, <1>9, GoneTo DEF WriteConnection
<1>11. /\ connections'[a] = row /\ row # None
       /\ \A b \in Accounts : b # a => connections'[b] = connections[b]
       /\ call.form # "proton" => row.provider = Provider[call.form]
       /\ call.form = "proton" /\ connections[a] = None => row.provider = "proton"
       /\ connections[a] # None /\ call.form = "proton" => row.provider = connections[a].provider
  <2>1. call.creds \in Creds /\ Provider[call.form] \in Providers
    BY <1>1, <1>3, <1>8, CallAloneParts, FormFields DEF InStep, After, Holds
  <2>2. row \in ConnectionRow
    BY <1>4, <1>9, <2>1 DEF ConnectionRow, Renewed
  <2>3. call.form # "proton" => row.provider = Provider[call.form]
    BY <1>4, <1>9 DEF ConnectionRow, Renewed
  <2>4. call.form = "proton" /\ connections[a] = None => row.provider = "proton"
    BY <1>4, <1>9 DEF Provider
  <2>5. connections[a] # None /\ call.form = "proton" => row.provider = connections[a].provider
    BY <1>4, <1>9 DEF ConnectionRow, Renewed
  <2> QED  BY <1>4, <1>10, <2>2, <2>3, <2>4, <2>5, RowAssumption, CallAloneParts DEF RowsTyped
<1>12. Live(a)' /\ CompleteBut(a)' /\ (call.form \in Portal => a \in identities')
  BY <1>3, <1>4, <1>11, OthersComplete DEF Live
<1>13. ServedIfShown(a)'
  BY <1>3, <1>4, <1>11 DEF ServedIfShown, Served, Prepared
<1>14. \/ pc = "sync" /\ call.form \in Portal
       \/ pc = "readIdentity" /\ call.form \notin Portal
  BY <1>5 DEF AfterConnection
<1>15. CallAlone(new)'
  BY <1>7, <1>12, <1>13, <1>14 DEF CallAlone, Complete
<1> QED  BY <1>7, <1>10, <1>12, <1>14, <1>15, UseKeeps

LEMMA ReadIdentityUses == ASSUME NEW c \in Calls, Alone(c), ReadIdentity(c)  PROVE UseInv'
<1>1. PICK call \in CallState : call = calls[c]
  BY CallAloneParts
<1>2. PICK a : a = call.account
  OBVIOUS
<1>3. call.pc = "readIdentity" /\ UNCHANGED <<accounts, connections, identities>>
  BY <1>1 DEF ReadIdentity, At, OnlyCalls, rowsOf, tables
<1>4. Live(a) /\ CompleteBut(a) /\ ServedIfShown(a) /\ call.form \notin Portal
  BY <1>1, <1>2, <1>3, Standing, CallAloneParts DEF CallAlone, After
<1>5. Live(a)' /\ CompleteBut(a)' /\ ServedIfShown(a)'
  BY <1>3, <1>4, SameTables
<1>6. CASE a \in identities /\ Goto(c, "sync")
  <2>1. \A new : new.pc = "sync" /\ SameCall(new, call) => CallAlone(new)'
    BY <1>2, <1>3, <1>5, <1>6 DEF CallAlone, SameCall, Complete
  <2> QED  BY <1>1, <1>2, <1>5, <1>6, <2>1, UseGoes DEF Pcs, After
<1>7. CASE a \in identities /\ End(c)
  <2>1. Complete(a)'
    BY <1>3, <1>5, <1>7 DEF Complete
  <2> QED  BY <1>5, <1>7, <2>1, UseEndsAt
<1>8. CASE a \notin identities /\ Goto(c, "identity")
  <2>1. \A new : new.pc = "identity" /\ SameCall(new, call) => CallAlone(new)'
    BY <1>2, <1>3, <1>4, <1>5, <1>8 DEF CallAlone, SameCall
  <2> QED  BY <1>1, <1>2, <1>5, <1>8, <2>1, UseGoes DEF Pcs, After
<1> QED  BY <1>1, <1>2, <1>6, <1>7, <1>8, AfterConnectMoves DEF ReadIdentity

LEMMA InsertIdentityUses == ASSUME NEW c \in Calls, Alone(c), InsertIdentity(c)  PROVE UseInv'
<1>1. PICK call \in CallState : call = calls[c]
  BY CallAloneParts
<1>2. PICK a : a = call.account
  OBVIOUS
<1>3. call.pc = "identity" /\ UNCHANGED <<accounts, connections>>
  BY <1>1 DEF InsertIdentity, At
<1>4. /\ Live(a) /\ CompleteBut(a) /\ a \notin identities
      /\ call.form \in Portal => Prepared(call, a)
      /\ call.form \notin Portal => ServedIfShown(a)
  BY <1>1, <1>2, <1>3, Standing, CallAloneParts DEF CallAlone, After
<1>5. identities' = identities \union {a}
  BY <1>1, <1>2, <1>4 DEF InsertIdentity
<1>6. Live(a)' /\ CompleteBut(a)'
  BY <1>3, <1>4, <1>5, OthersComplete DEF Live
<1>7. CASE call.form \in Portal
  <2>1. Goto(c, "readConnection")
    BY <1>1, <1>2, <1>4, <1>7 DEF InsertIdentity
  <2>2. Prepared(call, a)'
    BY <1>3, <1>4, <1>7 DEF Prepared, Served
  <2>3. \A new : new.pc = "readConnection" /\ SameCall(new, call) => CallAlone(new)'
    BY <1>2, <1>5, <1>6, <2>2 DEF CallAlone, SameCall, Prepared
  <2> QED  BY <1>1, <1>2, <1>6, <2>1, <2>3, UseGoes DEF Pcs, After
<1>8. CASE call.form \notin Portal
  <2>1. Complete(a)'
    BY <1>3, <1>4, <1>5, <1>8 DEF Complete, ServedIfShown, Served
  <2>2. Goto(c, "sync") \/ End(c)
    BY <1>1, <1>2, <1>4, <1>8, AfterConnectMoves DEF InsertIdentity
  <2>3. \A new : new.pc = "sync" /\ SameCall(new, call) => CallAlone(new)'
    BY <1>2, <1>6, <2>1 DEF CallAlone, SameCall
  <2> QED  BY <1>1, <1>2, <1>6, <2>1, <2>2, <2>3, UseGoes, UseEndsAt DEF Pcs, After
<1> QED  BY <1>7, <1>8

-----------------------------------------------------------------------------
LEMMA BeginRemovalUses ==
  ASSUME NEW c \in Calls, Alone(c), NEW u \in Users, NEW a \in Accounts,
         BeginDisconnect(c, u, a) \/ BeginRemoval(c, u, a)
  PROVE  UseInv'
<1>1. CompleteBut(None) /\ Live(a) /\ UNCHANGED <<accounts, connections, identities>>
  BY CallAloneParts DEF BeginDisconnect, BeginRemoval, At, rowsOf, tables
<1>2. Complete(a)
  BY <1>1, NoAccountAssumption DEF CompleteBut, Mailboxes
<1>3. Live(a)' /\ CompleteBut(a)' /\ Complete(a)'
  BY <1>1, <1>2, AllOthers, SameTables
<1>4. PICK removal : removal = BeginRemoval(c, u, a)
  OBVIOUS
<1>5. PICK pc : pc = IF ~removal \/ accounts[a].owner = u THEN "dropConnection" ELSE "wipeMail"
  OBVIOUS
<1>6. PICK new : new = IF removal THEN [IdleCall EXCEPT !.account = a, !.removal = TRUE, !.pc = pc]
                       ELSE [IdleCall EXCEPT !.pc = "dropConnection", !.account = a]
  OBVIOUS
<1>7. new.pc = pc /\ new.account = a
  BY <1>5, <1>6 DEF IdleCall
<1>8. calls' = [calls EXCEPT ![c] = new]
  BY <1>4, <1>5, <1>6, GoneTo DEF BeginDisconnect, BeginRemoval
<1>9. CallAlone(new)' /\ new.pc # "idle"
  BY <1>3, <1>5, <1>7 DEF CallAlone
<1> QED  BY <1>3, <1>7, <1>8, <1>9, UseKeeps

LEMMA DropConnectionUses == ASSUME NEW c \in Calls, Alone(c), DropConnection(c)  PROVE UseInv'
<1>1. PICK call \in CallState : call = calls[c]
  BY CallAloneParts
<1>2. PICK a : a = call.account
  OBVIOUS
<1>3. /\ call.pc = "dropConnection" /\ Goto(c, "turnOff") /\ UNCHANGED <<accounts, identities>>
      /\ connections' = [connections EXCEPT ![a] = Withdrawn(@)]
  BY <1>1, <1>2 DEF DropConnection, At
<1>4. Live(a) /\ CompleteBut(a) /\ a \in identities
  BY <1>1, <1>2, <1>3, Standing, CallAloneParts DEF CallAlone, Complete, Removing
<1>5. Live(a)' /\ CompleteBut(a)'
  BY <1>3, <1>4, CallAloneParts, OthersComplete DEF Live, RowsTyped
<1>6. \A new : new.pc = "turnOff" /\ SameCall(new, call) => CallAlone(new)'
  BY <1>2, <1>3, <1>4, <1>5 DEF CallAlone, SameCall
<1> QED  BY <1>1, <1>2, <1>3, <1>5, <1>6, UseGoes DEF Pcs, Removing

(* An account whose status is set, and nothing else of it.                 *)
LEMMA StatusSet ==
  ASSUME NEW c \in Calls, Alone(c), NEW a \in Accounts, Live(a), CompleteBut(a),
         accounts[a] \in AccountRow,
         NEW status \in {"connected", "disconnected", "error"},
         accounts' = [accounts EXCEPT ![a].status = status], UNCHANGED <<connections, identities>>
  PROVE  /\ Live(a)' /\ CompleteBut(a)'
         /\ accounts'[a].status = status
         /\ Served(a)' <=> Served(a)
<1>1. /\ accounts'[a] = [accounts[a] EXCEPT !.status = status]
      /\ \A b \in Accounts : b # a => accounts'[b] = accounts[b]
  BY CallAloneParts DEF RowsTyped
<1>2. /\ accounts'[a] \in AccountRow /\ accounts'[a].status = status
      /\ accounts'[a].provider = accounts[a].provider
  BY <1>1 DEF AccountRow
<1>3. Live(a)'
  BY <1>2, RowAssumption DEF Live
<1>4. CompleteBut(a)'
  BY <1>1, OthersComplete
<1> QED  BY <1>2, <1>3, <1>4 DEF Served

LEMMA TurnOffUses == ASSUME NEW c \in Calls, Alone(c), TurnOff(c)  PROVE UseInv'
<1>1. PICK call \in CallState : call = calls[c]
  BY CallAloneParts
<1>2. PICK a : a = call.account
  OBVIOUS
<1>3. call.pc = "turnOff" /\ UNCHANGED <<connections, identities>> /\ (Goto(c, "wipeMail") \/ End(c))
  BY <1>1 DEF TurnOff, At
<1>4. /\ a \in Accounts /\ Live(a) /\ accounts[a] \in AccountRow /\ CompleteBut(a)
      /\ a \in identities
  BY <1>1, <1>2, <1>3, Standing, CallAloneParts DEF CallAlone, Removing
<1>5. accounts' = [accounts EXCEPT ![a].status = "disconnected"]
  BY <1>1, <1>2, <1>4 DEF TurnOff
<1>6. Live(a)' /\ CompleteBut(a)' /\ accounts'[a].status = "disconnected"
  BY <1>3, <1>4, <1>5, StatusSet
<1>7. Complete(a)'
  BY <1>3, <1>4, <1>6 DEF Complete, ServedIfShown
<1>8. \A new : new.pc = "wipeMail" /\ SameCall(new, call) => CallAlone(new)'
  BY <1>2, <1>6 DEF CallAlone, SameCall
<1> QED  BY <1>1, <1>2, <1>3, <1>6, <1>7, <1>8, UseGoes, UseEndsAt DEF Pcs, Removing

LEMMA WipeUses == ASSUME NEW c \in Calls, Alone(c), WipeMail(c) \/ WipeIdentity(c)  PROVE UseInv'
<1>1. PICK call \in CallState : call = calls[c]
  BY CallAloneParts
<1>2. PICK a : a = call.account
  OBVIOUS
<1>3. /\ call.pc \in {"wipeMail", "wipeIdentity"} /\ UNCHANGED <<accounts, connections>>
      /\ identities \ {a} \subseteq identities'
      /\ Goto(c, "wipeIdentity") \/ Goto(c, "dropAccount")
  BY <1>1, <1>2 DEF WipeMail, WipeIdentity, At
<1>4. Live(a) /\ CompleteBut(a)
  BY <1>1, <1>2, <1>3, Standing DEF Removing
<1>5. Live(a)' /\ CompleteBut(a)'
  BY <1>3, <1>4, OthersComplete DEF Live
<1>6. \A new : new.pc \in {"wipeIdentity", "dropAccount"} /\ SameCall(new, call) => CallAlone(new)'
  BY <1>2, <1>5 DEF CallAlone, SameCall
<1> QED  BY <1>1, <1>2, <1>3, <1>5, <1>6, UseGoes DEF Pcs, Removing

LEMMA DropAccountUses == ASSUME NEW c \in Calls, Alone(c), DropAccount(c)  PROVE UseInv'
<1>1. PICK a : a = calls[c].account
  OBVIOUS
<1>2. /\ calls[c].pc = "dropAccount" /\ End(c)
      /\ accounts' = [accounts EXCEPT ![a] = None]
      /\ connections' = [connections EXCEPT ![a] = None]
      /\ identities' = identities \ {a}
  BY <1>1 DEF DropAccount, At
<1>3. a \in Accounts /\ CompleteBut(a)
  BY <1>1, <1>2, Standing DEF Removing
<1>4. CompleteBut(a)' /\ a \notin Mailboxes'
  BY <1>2, <1>3, CallAloneParts, OthersComplete DEF RowsTyped, Mailboxes, Live
<1> QED  BY <1>2, <1>4, UseEndsAt

-----------------------------------------------------------------------------
LEMMA BeginSyncUses ==
  ASSUME NEW c \in Calls, Alone(c), NEW a \in Accounts, BeginSync(c, a)  PROVE UseInv'
<1>1. CompleteBut(None) /\ Live(a) /\ UNCHANGED <<accounts, connections, identities>>
  BY CallAloneParts DEF BeginSync, At, rowsOf, tables
<1>2. Complete(a)
  BY <1>1, NoAccountAssumption DEF CompleteBut, Mailboxes
<1>3. Live(a)' /\ CompleteBut(a)' /\ Complete(a)'
  BY <1>1, <1>2, AllOthers, SameTables
<1>4. PICK new : new = [IdleCall EXCEPT !.pc = "provider", !.account = a, !.user = accounts[a].owner]
  OBVIOUS
<1>5. calls' = [calls EXCEPT ![c] = new] /\ new.pc = "provider" /\ new.account = a
  BY <1>4, GoneTo DEF BeginSync, IdleCall
<1>6. CallAlone(new)'
  BY <1>3, <1>5 DEF CallAlone
<1> QED  BY <1>3, <1>5, <1>6, UseKeeps

LEMMA SyncConnectedUses == ASSUME NEW c \in Calls, Alone(c), SyncConnected(c)  PROVE UseInv'
<1>1. PICK call \in CallState : call = calls[c]
  BY CallAloneParts
<1>2. PICK a : a = call.account
  OBVIOUS
<1>3. call.pc = "sync" /\ UNCHANGED <<accounts, connections, identities>>
  BY <1>1 DEF SyncConnected, At, OnlyCalls, rowsOf, tables
<1>4. Live(a) /\ CompleteBut(a) /\ Complete(a)
  BY <1>1, <1>2, <1>3, Standing, CallAloneParts DEF CallAlone, After
<1>5. Live(a)' /\ CompleteBut(a)' /\ Complete(a)'
  BY <1>3, <1>4, SameTables
<1>6. CASE End(c)
  BY <1>5, <1>6, UseEndsAt
<1>7. CASE ~End(c)
  <2>1. PICK new : new = [IdleCall EXCEPT !.pc = "provider", !.account = a, !.user = call.user]
    OBVIOUS
  <2>2. calls' = [calls EXCEPT ![c] = new] /\ new.pc = "provider" /\ new.account = a
    BY <1>1, <1>2, <1>7, <2>1, GoneTo DEF SyncConnected, IdleCall
  <2>3. CallAlone(new)'
    BY <1>5, <2>2 DEF CallAlone
  <2> QED  BY <1>5, <2>2, <2>3, UseKeeps
<1> QED  BY <1>6, <1>7

LEMMA GetProviderUses == ASSUME NEW c \in Calls, Alone(c), GetProvider(c)  PROVE UseInv'
<1>1. PICK call \in CallState : call = calls[c]
  BY CallAloneParts
<1>2. PICK a : a = call.account
  OBVIOUS
<1>3. call.pc = "provider" /\ UNCHANGED <<accounts, connections, identities>>
  BY <1>1 DEF GetProvider, At, OnlyCalls, rowsOf, tables
<1>4. Live(a) /\ CompleteBut(a) /\ Complete(a)
  BY <1>1, <1>2, <1>3, Standing, CallAloneParts DEF CallAlone, Syncing
<1>5. Live(a)' /\ CompleteBut(a)' /\ Complete(a)'
  BY <1>3, <1>4, SameTables
<1>6. CASE End(c)
  BY <1>5, <1>6, UseEndsAt
<1>7. CASE ~End(c)
  <2>1. PICK new : new = [call EXCEPT !.pc = "search", !.creds = connections[a].creds, !.late = a \in off]
    OBVIOUS
  <2>2. /\ calls' = [calls EXCEPT ![c] = new] /\ new.pc = "search" /\ new.account = a
        /\ Opens(a, call.user)
    BY <1>1, <1>2, <1>7, <2>1, GoneTo DEF GetProvider, CallState
  <2>3. a \in identities' /\ Served(a)'
    BY <1>3, <1>4, <2>2, SameTables DEF Complete, Served, Opens
  <2>4. CallAlone(new)'
    BY <1>5, <2>2, <2>3 DEF CallAlone
  <2> QED  BY <1>5, <2>2, <2>4, UseKeeps
<1> QED  BY <1>6, <1>7

LEMMA SearchUses == ASSUME NEW c \in Calls, Alone(c), Search(c)  PROVE UseInv'
<1>1. PICK call \in CallState : call = calls[c]
  BY CallAloneParts
<1>2. PICK a : a = call.account
  OBVIOUS
<1>3. call.pc = "search" /\ UNCHANGED <<connections, identities>>
  BY <1>1 DEF Search, At
<1>4. /\ a \in Accounts /\ Live(a) /\ CompleteBut(a) /\ accounts[a] \in AccountRow
      /\ a \in identities /\ Served(a)
  BY <1>1, <1>2, <1>3, Standing, CallAloneParts DEF CallAlone, Syncing
<1>5. CASE End(c) /\ accounts' = [accounts EXCEPT ![a].status = "error"]
  <2>1. CompleteBut(a)' /\ accounts'[a].status = "error"
    BY <1>3, <1>4, <1>5, StatusSet
  <2>2. Complete(a)'
    BY <1>3, <1>4, <2>1 DEF Complete, ServedIfShown
  <2> QED  BY <1>5, <2>1, <2>2, UseEndsAt
<1>6. ASSUME NEW found, Go(c, [call EXCEPT !.pc = "ingest", !.left = found]), UNCHANGED accounts
      PROVE  UseInv'
  <2>1. PICK new : new = [call EXCEPT !.pc = "ingest", !.left = found]
    OBVIOUS
  <2>2. calls' = [calls EXCEPT ![c] = new] /\ new.pc = "ingest" /\ new.account = a
    BY <1>2, <1>6, <2>1, GoneTo DEF CallState
  <2>3. Live(a)' /\ CompleteBut(a)' /\ Served(a)'
    BY <1>3, <1>4, <1>6, SameTables
  <2>4. CallAlone(new)'
    BY <1>3, <1>4, <2>2, <2>3 DEF CallAlone
  <2> QED  BY <2>2, <2>3, <2>4, UseKeeps
<1> QED  BY <1>1, <1>2, <1>4, <1>5, <1>6 DEF Search

LEMMA IngestUses == ASSUME NEW c \in Calls, Alone(c), Ingest(c) \/ Store(c)  PROVE UseInv'
<1>1. PICK call \in CallState : call = calls[c]
  BY CallAloneParts
<1>2. PICK a : a = call.account
  OBVIOUS
<1>3. /\ call.pc \in {"ingest", "store"} /\ UNCHANGED <<accounts, connections, identities>>
  BY <1>1 DEF Ingest, Store, At, OnlyCalls, rowsOf, tables
<1>4. Live(a) /\ CompleteBut(a) /\ a \in identities /\ Served(a)
  BY <1>1, <1>2, <1>3, Standing, CallAloneParts DEF CallAlone, Syncing
<1>5. Live(a)' /\ CompleteBut(a)' /\ a \in identities' /\ Served(a)'
  BY <1>3, <1>4, SameTables
<1>6. \A new : /\ new.account = a /\ new.pc \in {"ingest", "store", "settle"}
               => CallAlone(new)'
  BY <1>5 DEF CallAlone
<1>7. CASE Goto(c, "settle")
  <2>1. \A new : new.pc = "settle" /\ SameCall(new, call) => CallAlone(new)'
    BY <1>2, <1>6 DEF SameCall
  <2> QED  BY <1>1, <1>2, <1>5, <1>7, <2>1, UseGoes DEF Pcs, Syncing
<1>8. CASE Ingest(c) /\ ~Goto(c, "settle")
  <2>1. PICK m \in call.left :
          Go(c, [call EXCEPT !.left = @ \ {m},
                   !.pc = IF call.user \in members /\ m \notin mail[call.account]
                          THEN "store" ELSE "ingest",
                   !.message = IF call.user \in members /\ m \notin mail[call.account]
                               THEN m ELSE None])
    BY <1>1, <1>8 DEF Ingest
  <2>2. PICK storing : storing = (call.user \in members /\ m \notin mail[call.account])
    OBVIOUS
  <2>3. PICK pc : pc = IF storing THEN "store" ELSE "ingest"
    OBVIOUS
  <2>4. PICK new : new = [call EXCEPT !.left = @ \ {m}, !.pc = pc,
                            !.message = IF storing THEN m ELSE None]
    OBVIOUS
  <2>5. Go(c, new)
    BY <2>1, <2>2, <2>3, <2>4
  <2>6. calls' = [calls EXCEPT ![c] = new] /\ new.pc = pc /\ new.account = a
    BY <1>2, <2>4, <2>5, GoneTo DEF CallState
  <2>7. CallAlone(new)' /\ new.pc # "idle"
    BY <1>6, <2>3, <2>6
  <2> QED  BY <1>5, <2>6, <2>7, UseKeeps
<1>9. CASE Store(c)
  <2>1. PICK new : new = [call EXCEPT !.pc = "ingest", !.message = None]
    OBVIOUS
  <2>2. calls' = [calls EXCEPT ![c] = new] /\ new.pc = "ingest" /\ new.account = a
    BY <1>1, <1>2, <1>9, <2>1, GoneTo DEF Store, CallState
  <2>3. CallAlone(new)'
    BY <1>6, <2>2
  <2> QED  BY <1>5, <2>2, <2>3, UseKeeps
<1> QED  BY <1>7, <1>8, <1>9

LEMMA SettleUses == ASSUME NEW c \in Calls, Alone(c), Settle(c)  PROVE UseInv'
<1>1. PICK a : a = calls[c].account
  OBVIOUS
<1>2. calls[c].pc = "settle" /\ UNCHANGED <<connections, identities>> /\ End(c)
  BY DEF Settle, At
<1>3. /\ a \in Accounts /\ Live(a) /\ CompleteBut(a) /\ accounts[a] \in AccountRow
      /\ a \in identities /\ Served(a)
  BY <1>1, <1>2, Standing, CallAloneParts DEF CallAlone, Syncing
<1>4. accounts' = [accounts EXCEPT ![a].status = "connected"]
  BY <1>1, <1>3 DEF Settle
<1>5. CompleteBut(a)' /\ Served(a)'
  BY <1>2, <1>3, <1>4, StatusSet
<1>6. Complete(a)'
  BY <1>2, <1>3, <1>5 DEF Complete, ServedIfShown
<1> QED  BY <1>2, <1>5, <1>6, UseEndsAt

(* Every step of a call that is alone, and every step that is not.         *)
LEMMA AloneUses ==
  ASSUME NEW c \in Calls, Alone(c),
         \/ \E form \in Forms, u \in Users, address \in Addresses, s \in Creds :
              BeginConnect(c, form, u, address, s)
         \/ Capacity(c) \/ UpdateAccount(c) \/ ReadConnection(c) \/ WriteConnection(c)
         \/ \E a \in Accounts : InsertAccount(c, a)
         \/ SyncForm(c) \/ ReadIdentity(c) \/ InsertIdentity(c)
         \/ \E u \in Users, a \in Accounts : BeginDisconnect(c, u, a) \/ BeginRemoval(c, u, a)
         \/ DropConnection(c) \/ TurnOff(c) \/ WipeMail(c) \/ WipeIdentity(c) \/ DropAccount(c)
         \/ SyncConnected(c) \/ GetProvider(c) \/ Search(c) \/ Ingest(c) \/ Store(c) \/ Settle(c)
  PROVE  UseInv'
<1>1. CASE \/ \E form \in Forms, u \in Users, address \in Addresses, s \in Creds :
                BeginConnect(c, form, u, address, s)
           \/ Capacity(c) \/ UpdateAccount(c) \/ ReadConnection(c) \/ WriteConnection(c)
           \/ \E a \in Accounts : InsertAccount(c, a)
           \/ ReadIdentity(c) \/ InsertIdentity(c)
  BY <1>1, BeginConnectUses, CapacityUses, UpdateAccountUses, ReadConnectionUses,
     WriteConnectionUses, InsertAccountUses, ReadIdentityUses, InsertIdentityUses
<1>2. CASE \/ \E u \in Users, a \in Accounts : BeginDisconnect(c, u, a) \/ BeginRemoval(c, u, a)
           \/ DropConnection(c) \/ TurnOff(c) \/ WipeMail(c) \/ WipeIdentity(c) \/ DropAccount(c)
  BY <1>2, BeginRemovalUses, DropConnectionUses, TurnOffUses, WipeUses, DropAccountUses
<1>3. CASE \/ SyncForm(c) \/ SyncConnected(c) \/ GetProvider(c) \/ Search(c) \/ Ingest(c)
           \/ Store(c) \/ Settle(c)
  BY <1>3, BeginSyncUses, SyncConnectedUses, GetProviderUses, SearchUses, IngestUses, SettleUses
     DEF SyncForm
<1> QED  BY <1>1, <1>2, <1>3

LEMMA StepCounted ==
  ASSUME NEW c \in Calls,
         \/ \E form \in Forms, u \in Users, address \in Addresses, s \in Creds :
              BeginConnect(c, form, u, address, s)
         \/ Capacity(c) \/ UpdateAccount(c) \/ ReadConnection(c) \/ WriteConnection(c)
         \/ \E a \in Accounts : InsertAccount(c, a)
         \/ SyncForm(c) \/ ReadIdentity(c) \/ InsertIdentity(c)
         \/ \E u \in Users, a \in Accounts : BeginDisconnect(c, u, a) \/ BeginRemoval(c, u, a)
         \/ DropConnection(c) \/ TurnOff(c) \/ WipeMail(c) \/ WipeIdentity(c) \/ DropAccount(c)
         \/ SyncConnected(c) \/ GetProvider(c) \/ Search(c) \/ Ingest(c) \/ Store(c) \/ Settle(c)
  PROVE  Counted(c)
<1>1. CASE \/ \E form \in Forms, u \in Users, address \in Addresses, s \in Creds :
                BeginConnect(c, form, u, address, s)
           \/ SyncForm(c)
           \/ \E u \in Users, a \in Accounts : BeginDisconnect(c, u, a) \/ BeginRemoval(c, u, a)
  BY <1>1 DEF Counted, BeginConnect, SyncForm, BeginSync, BeginDisconnect, BeginRemoval
<1>2. CASE \/ Capacity(c) \/ UpdateAccount(c) \/ ReadConnection(c) \/ WriteConnection(c)
           \/ \E a \in Accounts : InsertAccount(c, a)
           \/ ReadIdentity(c) \/ InsertIdentity(c)
  BY <1>2 DEF Counted, At, Capacity, UpdateAccount, ReadConnection, WriteConnection, InsertAccount,
              ReadIdentity, InsertIdentity, OnlyCalls, Others
<1>3. CASE DropConnection(c) \/ TurnOff(c) \/ WipeMail(c) \/ WipeIdentity(c) \/ DropAccount(c)
  BY <1>3 DEF Counted, At, DropConnection, TurnOff, WipeMail, WipeIdentity, DropAccount, Others
<1>4. CASE SyncConnected(c) \/ GetProvider(c) \/ Search(c) \/ Ingest(c) \/ Store(c) \/ Settle(c)
  BY <1>4 DEF Counted, At, SyncConnected, GetProvider, Search, Ingest, Store, Settle, OnlyCalls,
              Others
<1> QED  BY <1>1, <1>2, <1>3, <1>4

LEMMA UseSteps == MailInv /\ CountInv /\ UseInv /\ [AccountsNext]_mailboxVars => UseInv'
<1> SUFFICES ASSUME MailInv, CountInv, UseInv, [AccountsNext]_mailboxVars, raced' = 0
             PROVE  UseInv'
  BY DEF UseInv
<1>1. raced \in Nat
  BY MailboxBoundsAssumption DEF MailInv, RowsTyped
<1>2. CASE \/ UNCHANGED mailboxVars
           \/ \E u \in Users : Leave(u)
  <2>1. UNCHANGED <<accounts, connections, identities, calls>> /\ raced = 0
    BY <1>1, <1>2 DEF mailboxVars, rowsOf, tables, Leave, CountRace
  <2> QED  BY <2>1 DEF UseInv, CallAlone, CompleteBut, Complete, ServedIfShown, Served, Prepared,
                       Mailboxes, Live, Quiet, At
<1>3. ASSUME NEW c \in Calls, Fail(c)  PROVE UseInv'
  BY <1>1, <1>3 DEF Fail
<1>4. ASSUME NEW c \in Calls,
             \/ \E form \in Forms, u \in Users, address \in Addresses, s \in Creds :
                  BeginConnect(c, form, u, address, s)
             \/ Capacity(c) \/ UpdateAccount(c) \/ ReadConnection(c) \/ WriteConnection(c)
             \/ \E a \in Accounts : InsertAccount(c, a)
             \/ SyncForm(c) \/ ReadIdentity(c) \/ InsertIdentity(c)
             \/ \E u \in Users, a \in Accounts : BeginDisconnect(c, u, a) \/ BeginRemoval(c, u, a)
             \/ DropConnection(c) \/ TurnOff(c) \/ WipeMail(c) \/ WipeIdentity(c) \/ DropAccount(c)
             \/ SyncConnected(c) \/ GetProvider(c) \/ Search(c) \/ Ingest(c) \/ Store(c) \/ Settle(c)
      PROVE  UseInv'
  <2>1. Counted(c)
    BY <1>4, StepCounted
  <2>2. Alone(c)
    BY <2>1, AloneBefore DEF Alone
  <2> QED  BY <1>4, <2>2, AloneUses
<1> QED  BY <1>2, <1>3, <1>4 DEF AccountsNext

LEMMA UseStarts == AccountsInit => UseInv
<1> SUFFICES ASSUME AccountsInit  PROVE UseInv
  OBVIOUS
<1>1. \A c \in Calls : calls[c].pc = "idle"
  BY IdleFields DEF AccountsInit
<1>2. \A c \in Calls : CallAlone(calls[c])
  BY <1>1 DEF CallAlone, After, Removing, Syncing
<1>3. CompleteBut(None)
  BY DEF AccountsInit, CompleteBut, Mailboxes, Live
<1> QED  BY <1>1, <1>2, <1>3 DEF UseInv, At

(* While calls come one at a time an account shown as connected can be     *)
(* synced: it has credentials under its own provider, and an identity.     *)
THEOREM ConnectedCanSync == AccountsSpec => []ConnectedIsUsable
<1>1. UseInv => ConnectedIsUsable
  BY NoAccountAssumption
     DEF UseInv, ConnectedIsUsable, CompleteBut, Complete, ServedIfShown, Served, Mailboxes
<1> QED  BY <1>1, MailInvariance, CountStarts, CountSteps, UseStarts, UseSteps, PTL DEF AccountsSpec
=============================================================================
