---------------------------- MODULE MailAccounts ----------------------------
(***************************************************************************)
(* The mailboxes of one team workspace, from connection to removal:        *)
(* persistConnection of src/services/provider-oauth.ts, the connect routes *)
(* of src/http/routes/provider-connect.ts and portal.ts, syncAccount of    *)
(* src/services/sync.ts with the provider it builds, disconnectAccount of  *)
(* src/services/privacy.ts and the portal's removal.                       *)
(*                                                                         *)
(* A mailbox is three rows (the account, its connection with the           *)
(* credentials, the identity it sends as) that no transaction ties         *)
(* together: a call is a record whose pc names its next statement.  What a *)
(* mail provider answers is external; what an ingested message sets off is *)
(* in Triage and MailPolicies.                                             *)
(***************************************************************************)
EXTENDS Naturals, FiniteSets

CONSTANTS
  Users,         \* the workspace's people
  Admins,        \* those of them who may remove another's mailbox
  Addresses,     \* mail addresses
  Accounts,      \* ids of account rows, none given twice
  Creds,         \* credentials, one for each connection made
  Messages,      \* messages that providers hold
  Forms,         \* which of AllForms of connecting are used
  Calls,         \* calls in flight at a time
  MaxMailboxes,  \* the plan's maxMailboxes
  MaxRaces,      \* bound: calls begun beside another, and failures
  None

(* The OAuth callback, the routes of the API and those of the portal. *)
AllForms == {"oauth", "imap", "proton", "portalImap", "portalProton"}
Provider == [oauth |-> "gmail", imap |-> "imap", proton |-> "proton",
             portalImap |-> "imap", portalProton |-> "proton"]
Portal == {"portalImap", "portalProton"}
Providers == {"gmail", "imap", "proton"}

ASSUME UsersAssumption == Admins \subseteq Users
ASSUME FormsAssumption == Forms \subseteq AllForms
ASSUME MailboxBoundsAssumption == MaxMailboxes \in Nat \ {0} /\ MaxRaces \in Nat
ASSUME NoAccountAssumption == None \notin Users \union Addresses \union Accounts
                                            \union Creds \union Messages \union AllForms

VARIABLES
  members,     \* the users who are members (the module Membership)
  accounts,    \* table email_accounts
  connections, \* table provider_connections, unique on the account
  identities,  \* table email_identities: the accounts that have theirs
  mail,        \* table emails: the messages of each account
  issued,      \* account ids given so far
  secrets,     \* whose and for which provider each credential is
  calls,       \* the calls in flight
  raced,       \* history: calls begun beside another, and failures
  off          \* history: accounts disconnected since they were last connected

tables == <<accounts, connections, identities, mail>>
rowsOf == <<members, tables, issued, secrets, off>>
mailboxVars == <<rowsOf, calls, raced>>

-----------------------------------------------------------------------------
AccountRow == [owner : Users, address : Addresses, provider : Providers,
               status : {"connected", "disconnected", "error"}]
(* "first" is the credential a row was inserted with, and its id.          *)
ConnectionRow == [first : Creds, creds : Creds, provider : Providers]
Secret == [owner : Users, provider : Providers]
ASSUME RowAssumption == None \notin AccountRow \union ConnectionRow \union Secret

(* "late" is a history: the account was off when the call opened it.       *)
CallState == [pc : {"idle", "capacity", "account", "update", "readConnection", "connection",
                    "readIdentity", "identity", "dropConnection", "turnOff", "wipeMail",
                    "wipeIdentity", "dropAccount", "sync", "provider", "search", "ingest",
                    "store", "settle"},
              form : Forms \union {None}, user : Users \union {None},
              address : Addresses \union {None}, account : Accounts \union {None},
              creds : Creds \union {None}, row : ConnectionRow \union {None},
              removal : BOOLEAN, left : SUBSET Messages, message : Messages \union {None},
              late : BOOLEAN]
IdleCall == [pc |-> "idle", form |-> None, user |-> None, address |-> None, account |-> None,
             creds |-> None, row |-> None, removal |-> FALSE, left |-> {}, message |-> None,
             late |-> FALSE]

AccountsInit ==
  /\ members = Users
  /\ accounts = [a \in Accounts |-> None]
  /\ connections = [a \in Accounts |-> None]
  /\ identities = {}
  /\ mail = [a \in Accounts |-> {}]
  /\ issued = {}
  /\ secrets = [s \in Creds |-> None]
  /\ calls = [c \in Calls |-> IdleCall]
  /\ raced = 0
  /\ off = {}

At(c, pc) == calls[c].pc = pc
Goto(c, pc) == calls' = [calls EXCEPT ![c].pc = pc]
Go(c, call) == calls' = [calls EXCEPT ![c] = call]
End(c) == calls' = [calls EXCEPT ![c] = IdleCall]
Quiet == \A c \in Calls : At(c, "idle")
CountRace == IF Quiet THEN UNCHANGED raced ELSE raced < MaxRaces /\ raced' = raced + 1

(* A statement of call c that only reads, and one that writes one table. *)
OnlyCalls == UNCHANGED <<rowsOf, raced>>
Others == UNCHANGED <<members, issued, secrets, raced>>

Live(a) == accounts[a] # None
Mailboxes == {a \in Accounts : Live(a)}
AccountsOf(address) == {a \in Mailboxes : accounts[a].address = address}

-----------------------------------------------------------------------------
(* Connecting.  The user enters or grants new credentials for an address;  *)
(* the account of that address is looked for, and one of another member    *)
(* ends the call.                                                          *)
\* the API's Proton route leaves an account that exists as it is
IfFound(form) == IF form = "proton" THEN "readConnection" ELSE "update"
\* the portal's forms insert the identity with the account, and only then
AfterAccount(form) == IF form \in Portal THEN "identity" ELSE "readConnection"
AfterConnection(form) == IF form \in Portal THEN "sync" ELSE "readIdentity"

MayConnectAny(u, a) == TRUE
MayConnect(u, a) == accounts[a].owner = u
BeginConnect(c, form, u, address, s) ==
  /\ At(c, "idle")
  /\ u \in members /\ form \in Forms
  /\ secrets[s] = None
  /\ \A a \in AccountsOf(address) : MayConnect(u, a)
  /\ \/ /\ AccountsOf(address) = {}
        /\ Go(c, [IdleCall EXCEPT !.pc = "capacity", !.form = form, !.user = u,
                                  !.address = address, !.creds = s])
     \/ \E a \in AccountsOf(address) :
          Go(c, [IdleCall EXCEPT !.pc = IfFound(form), !.form = form, !.user = u,
                                 !.address = address, !.account = a, !.creds = s])
  /\ secrets' = [secrets EXCEPT ![s] = [owner |-> u, provider |-> Provider[form]]]
  /\ off' = off \ AccountsOf(address)
  /\ CountRace
  /\ UNCHANGED <<members, tables, issued>>

(* requireMailboxCapacity *)
HasRoomOrOneMore == Cardinality(Mailboxes) <= MaxMailboxes
HasRoom == Cardinality(Mailboxes) < MaxMailboxes
Capacity(c) ==
  /\ At(c, "capacity")
  /\ IF calls[c].user \in members /\ HasRoom THEN Goto(c, "account") ELSE End(c)
  /\ OnlyCalls

(* The table is unique on workspace and address. *)
InsertAccount(c, a) ==
  LET call == calls[c] IN
  /\ At(c, "account")
  /\ a \notin issued
  /\ issued' = issued \union {a}
  /\ IF AccountsOf(call.address) = {}
     THEN /\ accounts' = [accounts EXCEPT ![a] =
                            [owner |-> call.user, address |-> call.address,
                             provider |-> Provider[call.form], status |-> "connected"]]
          /\ Go(c, [call EXCEPT !.account = a, !.pc = AfterAccount(call.form)])
     ELSE End(c) /\ UNCHANGED accounts
  /\ UNCHANGED <<members, connections, identities, mail, secrets, raced, off>>

(* An account that exists is connected again, whatever its status was. *)
ReconnectedAsItWas(row, provider) == [row EXCEPT !.status = "connected"]
Reconnected(row, provider) == [row EXCEPT !.provider = provider, !.status = "connected"]
UpdateAccount(c) ==
  LET call == calls[c] IN
  /\ At(c, "update")
  /\ accounts' = IF Live(call.account)
                 THEN [accounts EXCEPT ![call.account] = Reconnected(@, Provider[call.form])]
                 ELSE accounts
  /\ Goto(c, "readConnection")
  /\ UNCHANGED <<connections, identities, mail, off>> /\ Others

ReadConnection(c) ==
  /\ At(c, "readConnection")
  /\ Go(c, [calls[c] EXCEPT !.pc = "connection", !.row = connections[calls[c].account]])
  /\ OnlyCalls

(* A row found is updated by its id; a new one needs its account and no    *)
(* other row, or the statement throws.                                     *)
Renewed(row, call) ==
  [row EXCEPT !.creds = call.creds,
              !.provider = IF call.form = "proton" THEN @ ELSE Provider[call.form]]
WriteConnection(c) ==
  LET call == calls[c]
      a    == call.account
      same == connections[a] # None /\ call.row # None /\ connections[a].first = call.row.first
      next == [call EXCEPT !.row = None, !.pc = AfterConnection(call.form)]
  IN
  /\ At(c, "connection")
  /\ \/ /\ call.row # None
        /\ connections' = IF same THEN [connections EXCEPT ![a] = Renewed(@, call)]
                          ELSE connections
        /\ Go(c, next)
     \/ /\ call.row = None /\ Live(a) /\ connections[a] = None
        /\ connections' = [connections EXCEPT ![a] =
                             [first |-> call.creds, creds |-> call.creds,
                              provider |-> Provider[call.form]]]
        /\ Go(c, next)
     \/ /\ call.row = None /\ (~Live(a) \/ connections[a] # None)
        /\ End(c) /\ UNCHANGED connections
  /\ UNCHANGED <<accounts, identities, mail, off>> /\ Others

(* A client of the API may ask not to sync at once. *)
AfterConnect(c) == Goto(c, "sync") \/ (calls[c].form \in {"imap", "proton"} /\ End(c))

ReadIdentity(c) ==
  /\ At(c, "readIdentity")
  /\ IF calls[c].account \in identities THEN AfterConnect(c) ELSE Goto(c, "identity")
  /\ OnlyCalls

InsertIdentity(c) ==
  LET a == calls[c].account IN
  /\ At(c, "identity")
  /\ IF Live(a) /\ a \notin identities
     THEN /\ identities' = identities \union {a}
          /\ IF calls[c].form \in Portal THEN Goto(c, "readConnection") ELSE AfterConnect(c)
     ELSE End(c) /\ UNCHANGED identities
  /\ UNCHANGED <<accounts, connections, mail, off>> /\ Others

-----------------------------------------------------------------------------
(* Disconnecting.  The owner turns the account off; the portal's button    *)
(* also removes it, and an admin may press it for another's.               *)
BeginDisconnect(c, u, a) ==
  /\ At(c, "idle")
  /\ u \in members /\ Live(a) /\ accounts[a].owner = u
  /\ Go(c, [IdleCall EXCEPT !.pc = "dropConnection", !.account = a])
  /\ CountRace
  /\ UNCHANGED rowsOf

(* disconnectAccount refuses an admin who is not the owner, which the      *)
(* portal swallows.                                                        *)
BeginRemoval(c, u, a) ==
  /\ At(c, "idle")
  /\ u \in members \intersect Admins /\ Live(a)
  /\ Go(c, [IdleCall EXCEPT !.account = a, !.removal = TRUE,
              !.pc = IF accounts[a].owner = u THEN "dropConnection" ELSE "wipeMail"])
  /\ CountRace
  /\ UNCHANGED rowsOf

WithdrawnNot(row) == row
Withdrawn(row) == None
(* "off" remembers what is dropped while no call is connecting. *)
DropConnection(c) ==
  LET a == calls[c].account
      connecting == \E o \in Calls \ {c} : calls[o].form # None
  IN
  /\ At(c, "dropConnection")
  /\ connections' = [connections EXCEPT ![a] = Withdrawn(@)]
  /\ off' = IF connecting THEN off ELSE off \union {a}
  /\ Goto(c, "turnOff")
  /\ UNCHANGED <<accounts, identities, mail>> /\ Others

TurnOff(c) ==
  LET a == calls[c].account IN
  /\ At(c, "turnOff")
  /\ accounts' = IF Live(a) THEN [accounts EXCEPT ![a].status = "disconnected"] ELSE accounts
  /\ IF calls[c].removal THEN Goto(c, "wipeMail") ELSE End(c)
  /\ UNCHANGED <<connections, identities, mail, off>> /\ Others

WipeMail(c) ==
  /\ At(c, "wipeMail")
  /\ mail' = [mail EXCEPT ![calls[c].account] = {}]
  /\ Goto(c, "wipeIdentity")
  /\ UNCHANGED <<accounts, connections, identities, off>> /\ Others

WipeIdentity(c) ==
  /\ At(c, "wipeIdentity")
  /\ identities' = identities \ {calls[c].account}
  /\ Goto(c, "dropAccount")
  /\ UNCHANGED <<accounts, connections, mail, off>> /\ Others

(* Everything that refers to the account goes with it (on delete cascade). *)
DropAccount(c) ==
  LET a == calls[c].account IN
  /\ At(c, "dropAccount")
  /\ accounts' = [accounts EXCEPT ![a] = None]
  /\ connections' = [connections EXCEPT ![a] = None]
  /\ identities' = identities \ {a}
  /\ mail' = [mail EXCEPT ![a] = {}]
  /\ End(c)
  /\ UNCHANGED off /\ Others

-----------------------------------------------------------------------------
(* Syncing: after a connection, on request of the owner, or by the cron in *)
(* the owner's name.                                                       *)
Due(a) == accounts[a].status # "disconnected"
BeginSync(c, a) ==
  /\ At(c, "idle")
  /\ Live(a) /\ Due(a)
  /\ Go(c, [IdleCall EXCEPT !.pc = "provider", !.account = a, !.user = accounts[a].owner])
  /\ CountRace
  /\ UNCHANGED rowsOf

(* The cron comes round to every account, the portal's form names one.     *)
SyncForm(c) == \E a \in Accounts : BeginSync(c, a)

SyncConnected(c) ==
  LET a == calls[c].account IN
  /\ At(c, "sync")
  /\ IF Live(a) /\ Due(a) /\ accounts[a].owner = calls[c].user
     THEN Go(c, [IdleCall EXCEPT !.pc = "provider", !.account = a, !.user = calls[c].user])
     ELSE End(c)
  /\ OnlyCalls

(* getProviderForAccount: the owner is still a member, and the account has *)
(* a connection of its own provider that opens with the owner's key.  What *)
(* it throws leaves the account's status as it is.                         *)
Opens(a, u) ==
  /\ u \in members /\ Live(a) /\ connections[a] # None
  /\ connections[a].provider = accounts[a].provider
  /\ secrets[connections[a].creds].owner = accounts[a].owner
GetProvider(c) ==
  LET a == calls[c].account IN
  /\ At(c, "provider")
  /\ IF Opens(a, calls[c].user)
     THEN Go(c, [calls[c] EXCEPT !.pc = "search", !.creds = connections[a].creds,
                                 !.late = a \in off])
     ELSE End(c)
  /\ OnlyCalls

(* The provider answers with some of its messages, or refuses; credentials *)
(* of another provider never get an answer.                                *)
Search(c) ==
  LET call == calls[c] IN
  /\ At(c, "search")
  /\ \/ /\ Live(call.account) => secrets[call.creds].provider = accounts[call.account].provider
        /\ \E found \in SUBSET Messages : Go(c, [call EXCEPT !.pc = "ingest", !.left = found])
        /\ UNCHANGED accounts
     \/ /\ accounts' = IF Live(call.account)
                       THEN [accounts EXCEPT ![call.account].status = "error"] ELSE accounts
        /\ End(c)
  /\ UNCHANGED <<connections, identities, mail, off>> /\ Others

(* ingestEmail of one message: what it throws skips the message. *)
Ingest(c) ==
  LET call == calls[c] IN
  /\ At(c, "ingest")
  /\ \/ call.left = {} /\ Goto(c, "settle")
     \/ \E m \in call.left :
          Go(c, [call EXCEPT !.left = @ \ {m},
                   !.pc = IF call.user \in members /\ m \notin mail[call.account]
                          THEN "store" ELSE "ingest",
                   !.message = IF call.user \in members /\ m \notin mail[call.account]
                               THEN m ELSE None])
  /\ OnlyCalls

StoredAnyway(a, m) == mail[a] \union {m}
Stored(a, m) == IF Live(a) THEN mail[a] \union {m} ELSE mail[a]
Store(c) ==
  LET call == calls[c] IN
  /\ At(c, "store")
  /\ mail' = [mail EXCEPT ![call.account] = Stored(call.account, call.message)]
  /\ Go(c, [call EXCEPT !.pc = "ingest", !.message = None])
  /\ UNCHANGED <<accounts, connections, identities, off>> /\ Others

(* The account is connected again, whatever has become of it. *)
Settle(c) ==
  LET a == calls[c].account IN
  /\ At(c, "settle")
  /\ accounts' = IF Live(a) THEN [accounts EXCEPT ![a].status = "connected"] ELSE accounts
  /\ End(c)
  /\ UNCHANGED <<connections, identities, mail, off>> /\ Others

-----------------------------------------------------------------------------
(* removeMember takes the membership and leaves the mailboxes. *)
Leave(u) ==
  /\ u \in members \ Admins
  /\ members' = members \ {u}
  /\ CountRace
  /\ UNCHANGED <<tables, issued, secrets, calls, off>>

(* A statement throws or the worker is gone. *)
Fail(c) ==
  /\ ~At(c, "idle")
  /\ raced < MaxRaces
  /\ raced' = raced + 1
  /\ End(c)
  /\ UNCHANGED rowsOf

AccountsNext ==
  \/ \E c \in Calls :
       \/ \E form \in Forms, u \in Users, address \in Addresses, s \in Creds :
            BeginConnect(c, form, u, address, s)
       \/ Capacity(c) \/ UpdateAccount(c) \/ ReadConnection(c) \/ WriteConnection(c)
       \/ \E a \in Accounts : InsertAccount(c, a)
       \/ SyncForm(c)
       \/ ReadIdentity(c) \/ InsertIdentity(c)
       \/ \E u \in Users, a \in Accounts : BeginDisconnect(c, u, a) \/ BeginRemoval(c, u, a)
       \/ DropConnection(c) \/ TurnOff(c) \/ WipeMail(c) \/ WipeIdentity(c) \/ DropAccount(c)
       \/ SyncConnected(c) \/ GetProvider(c) \/ Search(c) \/ Ingest(c) \/ Store(c) \/ Settle(c)
       \/ Fail(c)
  \/ \E u \in Users : Leave(u)

AccountsSpec == AccountsInit /\ [][AccountsNext]_mailboxVars

-----------------------------------------------------------------------------
(* Rows are of their tables' types, and of no account that is gone. *)
AccountsTypeOK ==
  /\ members \subseteq Users /\ issued \subseteq Accounts
  /\ accounts \in [Accounts -> AccountRow \union {None}]
  /\ connections \in [Accounts -> ConnectionRow \union {None}]
  /\ mail \in [Accounts -> SUBSET Messages]
  /\ secrets \in [Creds -> Secret \union {None}]
  /\ calls \in [Calls -> CallState]
  /\ raced \in 0..MaxRaces
  /\ \A a \in Accounts : ~Live(a) =>
       connections[a] = None /\ a \notin identities /\ mail[a] = {}

(* The credentials of a mailbox are its owner's, and an address is one     *)
(* member's: however connections, removals and syncs overlap, nobody's     *)
(* credentials end in another's account.                                   *)
CredentialsAreOwners ==
  /\ \A a \in Accounts : connections[a] # None =>
       secrets[connections[a].creds].owner = accounts[a].owner
  /\ \A address \in Addresses : Cardinality(AccountsOf(address)) <= 1

(* A sync never opens an account that was disconnected and not connected   *)
(* since, though one begun before the disconnection sets its status to     *)
(* connected when it ends, and so makes it due again.                      *)
OffStaysOff == \A c \in Calls : ~calls[c].late

(* As long as calls come one at a time an account shown as connected can   *)
(* be synced: it has credentials under its own provider, whichever form    *)
(* they came by, and an identity.                                          *)
ConnectedIsUsable ==
  raced = 0 /\ Quiet => \A a \in Mailboxes : accounts[a].status = "connected" =>
    /\ connections[a] # None /\ connections[a].provider = accounts[a].provider
    /\ a \in identities

(* As long as calls come one at a time the plan's mailboxes are kept. *)
MailboxesWhenAlone == raced = 0 => Cardinality(Mailboxes) <= MaxMailboxes
=============================================================================
