---------------------------- MODULE OAuthClients ----------------------------
(***************************************************************************)
(* The clients of the OAuth server and how a visit to /oauth/authorize is  *)
(* let in: validateClient and registerClient of src/services/oauth.ts, and *)
(* POST /oauth/register of src/http/routes/oauth.ts.  Nobody has signed in *)
(* yet when these statements run.                                          *)
(*                                                                         *)
(* A visit is a record whose pc names the statement it runs next; the      *)
(* module that composes this one decides what a visit let in goes on to.   *)
(* A client's name, scopes and secret say nothing about where codes go and *)
(* are left out; its redirect URIs are a set.                              *)
(***************************************************************************)
EXTENDS Naturals, FiniteSets

CONSTANTS
  ClientIds, Redirects,
  CompatIds,      \* client ids that name ChatGPT or OpenAI
  Documents,      \* client ids that are https URLs, and the redirects each lists
  ChatGPT,        \* redirects of isChatGPTRedirect
  Loopback,       \* redirects of isLoopbackRedirect
  DevAuth,        \* ALLOW_DEV_AUTH
  Calls,          \* calls in flight at a time
  None

ASSUME ClientAssumption ==
  /\ CompatIds \subseteq ClientIds /\ DOMAIN Documents \subseteq ClientIds
  /\ \A k \in DOMAIN Documents : Documents[k] \subseteq Redirects
  /\ ChatGPT \subseteq Redirects /\ Loopback \subseteq Redirects
  /\ DevAuth \in BOOLEAN

VARIABLES
  clients,        \* table oauth_clients: redirect URIs by client id, {} without a row
  visits          \* the visits in flight

clientVars == <<clients, visits>>

VisitState == [pc : {"idle", "read", "append", "fetch", "look", "overwrite", "insert", "valid"},
               client : ClientIds \union {None}, redirect : Redirects \union {None},
               list : SUBSET Redirects, document : BOOLEAN]
Nowhere == [pc |-> "idle", client |-> None, redirect |-> None, list |-> {}, document |-> FALSE]

VisitAt(c, pc) == visits[c].pc = pc
Client(c) == visits[c].client
Redirect(c) == visits[c].redirect
HasRow(k) == clients[k] # {}
Goes(c, pc) == visits' = [visits EXCEPT ![c].pc = pc]
Register(c, list, document) ==
  visits' = [visits EXCEPT ![c].pc = "look", ![c].list = list, ![c].document = document]
Valid(c) ==
  visits' = [visits EXCEPT ![c].pc = "valid", ![c].list = {}, ![c].document = FALSE]
Refused(c) == visits' = [visits EXCEPT ![c] = Nowhere]

(* The compatibility path: ChatGPT's fixed ids at its own callbacks, and   *)
(* in development any id at a loopback one.                                *)
Compatible(k, r) == (k \in CompatIds /\ r \in ChatGPT) \/ (DevAuth /\ r \in Loopback)
Fallback(c) ==
  IF Compatible(Client(c), Redirect(c)) THEN Register(c, {Redirect(c)}, FALSE) ELSE Refused(c)

Visit(k, r) == [Nowhere EXCEPT !.pc = "read", !.client = k, !.redirect = r]

-----------------------------------------------------------------------------
ReadClient(c) ==
  LET known == clients[Client(c)] IN
  /\ VisitAt(c, "read")
  /\ CASE HasRow(Client(c)) /\ Redirect(c) \in known -> Valid(c)
       [] HasRow(Client(c)) /\ Redirect(c) \in ChatGPT \ known ->
            visits' = [visits EXCEPT ![c].pc = "append", ![c].list = known \union {Redirect(c)}]
       [] HasRow(Client(c)) /\ Redirect(c) \notin ChatGPT \union known -> Refused(c)
       [] ~HasRow(Client(c)) /\ Client(c) \in DOMAIN Documents -> Goes(c, "fetch")
       [] OTHER -> Fallback(c)
  /\ UNCHANGED clients

AppendedOnly(c) == {Redirect(c)}           \* the spread of the list read forgotten
Appended(c) == visits[c].list              \* the list read, and the redirect

Append(c) ==
  /\ VisitAt(c, "append")
  /\ clients' = [clients EXCEPT ![Client(c)] = Appended(c)]
  /\ Valid(c)

(* The document of a client id that is a URL: what it lists is the rule,   *)
(* and one that cannot be had leaves the client unknown.                   *)
FetchDocument(c) ==
  /\ VisitAt(c, "fetch")
  /\ IF Redirect(c) \in Documents[Client(c)]
       THEN Register(c, Documents[Client(c)], TRUE)
       ELSE Refused(c)
  /\ UNCHANGED clients
FetchNothing(c) ==
  /\ VisitAt(c, "fetch")
  /\ Fallback(c)
  /\ UNCHANGED clients

(* registerClient: a look for the row, then an update or an insert.  The   *)
(* client id is unique, so an insert beaten by another fails; the document *)
(* path swallows the error and goes on as if the client were unknown.      *)
LookForRow(c) ==
  /\ VisitAt(c, "look")
  /\ Goes(c, IF HasRow(Client(c)) THEN "overwrite" ELSE "insert")
  /\ UNCHANGED clients

Overwrite(c) ==
  /\ VisitAt(c, "overwrite")
  /\ clients' = [clients EXCEPT ![Client(c)] = visits[c].list]
  /\ Valid(c)

InsertClient(c) ==
  /\ VisitAt(c, "insert")
  /\ IF ~HasRow(Client(c))
       THEN clients' = [clients EXCEPT ![Client(c)] = visits[c].list] /\ Valid(c)
       ELSE /\ IF visits[c].document THEN Fallback(c) ELSE Refused(c)
            /\ UNCHANGED clients

(* POST /oauth/register: a fresh id with the redirects the client names.   *)
RegisterClient(k, list) ==
  /\ k \notin CompatIds \union DOMAIN Documents
  /\ ~HasRow(k)
  /\ list # {}
  /\ clients' = [clients EXCEPT ![k] = list]
  /\ UNCHANGED visits

VisitStep(c) ==
  \/ ReadClient(c) \/ Append(c) \/ FetchDocument(c) \/ FetchNothing(c)
  \/ LookForRow(c) \/ Overwrite(c) \/ InsertClient(c)

-----------------------------------------------------------------------------
ClientTypeOK ==
  /\ clients \in [ClientIds -> SUBSET Redirects]
  /\ visits \in [Calls -> VisitState]
=============================================================================
