---------------------------- MODULE AccessTokens ----------------------------
(***************************************************************************)
(* What one user holds of one workspace: authorization codes and refresh   *)
(* tokens, each through a client, sessions (API and human) and stream      *)
(* tickets.  src/services/oauth.ts, src/services/auth.ts,                  *)
(* src/services/human-session.ts, the routes of src/http/routes/oauth.ts,  *)
(* and the removal of the member in src/services/organizations.ts.         *)
(*                                                                         *)
(* An access token is a signed statement, and its row in the sessions      *)
(* table is what can be taken back.  As everywhere in Cloud, a call is a   *)
(* record whose pc names the statement it runs next.  Signatures, hashes,  *)
(* PKCE, resources and scopes are checks a call passes or never begins.    *)
(* Refresh tokens and sessions last for days and do not expire here: an    *)
(* expired one is as if it had been revoked.                               *)
(***************************************************************************)
EXTENDS OAuthClients

CONSTANTS
  Codes, Refreshes, Sessions, Tickets,   \* ids each table may hand out
  MaxEra,     \* bound: times the user is a member
  MaxRaces    \* bound: calls begun while another is in flight, and faults

Grants == Codes \union Refreshes         \* what a token can be got for
Ids == Grants \union Sessions \union Tickets
ASSUME AccessAssumption == None \notin Ids /\ MaxEra \in Nat \ {0} /\ MaxRaces \in Nat
ASSUME TablesAssumption == Codes \intersect Refreshes = {} /\ Grants \intersect Tickets = {}

VARIABLES
  scene,      \* bound: what a behaviour explores, "arrivals" or "tokens"
  member,     \* the row of table memberships is there
  era,        \* memberships so far
  codes,      \* table oauth_codes
  refreshes,  \* table oauth_tokens
  sessions,   \* table sessions
  tickets,    \* table stream_tickets
  calls,      \* the calls in flight
  honoured,   \* history: how often each code, refresh token and ticket was
  caught,     \* history: clients of a caught reuse, until a code is exchanged
  raced       \* history: calls begun while another was in flight, and faults

tables == <<codes, refreshes, sessions, tickets>>
accessVars == <<scene, clientVars, member, era, tables, calls, honoured, caught, raced>>

-----------------------------------------------------------------------------
(* Rows.  Every row carries the era it was made in, a history. *)
Era == 1..MaxEra
CodeRow == [client : ClientIds, redirect : Redirects, era : Era, used : BOOLEAN, late : BOOLEAN]
RefreshRow == [client : ClientIds, era : Era, used : BOOLEAN, revoked : BOOLEAN]
SessionRow == [kind : {"api", "human"}, era : Era]
TicketRow == [era : Era, consumed : BOOLEAN, late : BOOLEAN]
ASSUME RowAssumption == None \notin CodeRow \union RefreshRow \union SessionRow \union TicketRow

Login == "login"                          \* a session nothing was spent for
ASSUME LoginAssumption == Login \notin Grants
CallState == [pc : {"idle", "page", "visit", "check", "code", "prior", "human", "claim", "member",
                    "recheck", "session", "refresh", "reuse",
                    "removeSessions", "removeTokens"},
              grant : Grants \union {Login, None}, prior : Sessions \union {None}, era : Era,
              client : ClientIds \union {None}]
IdleCall == [pc |-> "idle", grant |-> None, prior |-> None, era |-> 1, client |-> None]

(* Bound: a behaviour is about how clients and visits arrive, from an empty *)
(* table to the first token, or about what becomes of the tokens of        *)
(* clients that are registered and visit with what they registered.        *)
Arrivals == scene = "arrivals"
Tokens == scene = "tokens"

AccessInit ==
  /\ \/ Arrivals /\ clients = [k \in ClientIds |-> {}]
     \/ Tokens /\ clients = [k \in ClientIds |-> ChatGPT]
  /\ visits = [c \in Calls |-> Nowhere]
  /\ member = TRUE
  /\ era = 1
  /\ codes = [x \in Codes |-> None]
  /\ refreshes = [x \in Refreshes |-> None]
  /\ sessions = [x \in Sessions |-> None]
  /\ tickets = [x \in Tickets |-> None]
  /\ calls = [c \in Calls |-> IdleCall]
  /\ honoured = [x \in Grants \union Tickets |-> 0]
  /\ caught = {}
  /\ raced = 0

At(c, pc) == calls[c].pc = pc
Goto(c, pc) == calls' = [calls EXCEPT ![c].pc = pc]
End(c) == calls' = [calls EXCEPT ![c] = IdleCall]
Quiet == \A c \in Calls : At(c, "idle")
CountRace == IF Quiet THEN UNCHANGED raced ELSE raced < MaxRaces /\ raced' = raced + 1
Begin(c, call) == At(c, "idle") /\ calls' = [calls EXCEPT ![c] = call] /\ CountRace

(* Bound: a row is inserted while the table has an id left. *)
Insert(table, row) == \E x \in DOMAIN table : table[x] = None /\ table' = [table EXCEPT ![x] = row]
Honour(x) == honoured' = [honoured EXCEPT ![x] = @ + 1]
Membership == UNCHANGED <<scene, member, era>>
History == UNCHANGED <<honoured, caught>>
Elsewhere == UNCHANGED <<scene, member, era, clientVars>>

ClientOf(x) == IF x \in Codes THEN codes[x].client ELSE refreshes[x].client
UsableCode(x) == codes[x] # None /\ ~codes[x].used /\ ~codes[x].late
UsableRefresh(x) == refreshes[x] # None /\ ~refreshes[x].used /\ ~refreshes[x].revoked
(* verifyToken and HumanSessionService.verify tell the two kinds of token  *)
(* apart, and look at the session's row and at the membership of the       *)
(* moment.                                                                 *)
UsableApi(x) == sessions[x] # None /\ sessions[x].kind = "api" /\ member
UsableHuman(x) == sessions[x] # None /\ sessions[x].kind = "human" /\ member
UsableSession(x) == UsableApi(x) \/ UsableHuman(x)

-----------------------------------------------------------------------------
(* GET /oauth/authorize shows a page to a visit that was let in; POST      *)
(* goes on: the user (who signs in, whose cookie it is, or the only one    *)
(* there is), the membership, which createAuthorizationCode checks again,  *)
(* then the code is inserted, the browser's old human session revoked and  *)
(* a new one minted.                                                       *)
BeginPage(c, k, r) ==
  /\ Arrivals
  /\ Begin(c, [IdleCall EXCEPT !.pc = "page"])
  /\ visits' = [visits EXCEPT ![c] = Visit(k, r)]
  /\ Membership /\ History /\ UNCHANGED <<clients, tables>>

BeginAuthorize(c, k, r, prior) ==
  /\ Tokens => r \in clients[k]
  /\ prior # None => UsableHuman(prior)
  /\ Begin(c, [IdleCall EXCEPT !.pc = "visit", !.prior = prior])
  /\ visits' = [visits EXCEPT ![c] = Visit(k, r)]
  /\ Membership /\ History /\ UNCHANGED <<clients, tables>>

Gone(c) == visits' = [visits EXCEPT ![c] = Nowhere] /\ UNCHANGED clients

Arriving(c) ==
  /\ VisitStep(c)
  /\ IF visits'[c] = Nowhere THEN End(c) ELSE UNCHANGED calls
  /\ Membership /\ History /\ UNCHANGED <<tables, raced>>

ShowPage(c) ==
  /\ At(c, "page") /\ VisitAt(c, "valid")
  /\ End(c) /\ Gone(c)
  /\ Membership /\ History /\ UNCHANGED <<tables, raced>>

SignIn(c) ==
  /\ At(c, "visit") /\ VisitAt(c, "valid")
  /\ \/ /\ member
        /\ calls' = [calls EXCEPT ![c].pc = "check", ![c].era = era]
        /\ UNCHANGED clientVars
     \/ End(c) /\ Gone(c)
  /\ Membership /\ History /\ UNCHANGED <<tables, raced>>

AuthorizeCheck(c) ==
  /\ At(c, "check")
  /\ IF member THEN Goto(c, "code") /\ UNCHANGED clientVars ELSE End(c) /\ Gone(c)
  /\ Membership /\ History /\ UNCHANGED <<tables, raced>>

InsertCode(c) ==
  /\ At(c, "code")
  /\ Insert(codes, [client |-> Client(c), redirect |-> Redirect(c),
                    era |-> calls[c].era, used |-> FALSE, late |-> FALSE])
  /\ Goto(c, "prior") /\ Gone(c)
  /\ Membership /\ History /\ UNCHANGED <<refreshes, sessions, tickets, raced>>

Without(x) == [sessions EXCEPT ![x] = None]
(* The sign-in on an approval's page rotates the human session too (bound: *)
(* among the arrivals).                                                    *)
BeginReviewSignIn(c, prior) ==
  /\ Arrivals
  /\ member
  /\ prior # None => UsableHuman(prior)
  /\ Begin(c, [IdleCall EXCEPT !.pc = "prior", !.prior = prior, !.era = era])
  /\ Elsewhere /\ History /\ UNCHANGED tables

RevokePrior(c) ==
  /\ At(c, "prior")
  /\ sessions' = IF calls[c].prior # None /\ UsableHuman(calls[c].prior)
                   THEN Without(calls[c].prior) ELSE sessions
  /\ Goto(c, "human")
  /\ Elsewhere /\ History /\ UNCHANGED <<codes, refreshes, tickets, raced>>

MintHuman(c) ==
  /\ At(c, "human")
  /\ Insert(sessions, [kind |-> "human", era |-> calls[c].era])
  /\ End(c)
  /\ Elsewhere /\ History /\ UNCHANGED <<codes, refreshes, tickets, raced>>

-----------------------------------------------------------------------------
(* exchangeCodeForToken, and refreshAccessToken of a usable token: the     *)
(* claim, the membership, createToken with a look of its own at the        *)
(* membership, and the successor.  What fails after the claim leaves the   *)
(* grant spent.                                                            *)
BeginExchange(c, x) ==
  /\ UsableCode(x)
  /\ Begin(c, [IdleCall EXCEPT !.pc = "claim", !.grant = x])
  /\ Elsewhere /\ History /\ UNCHANGED tables

BeginRefresh(c, x) ==
  /\ Tokens
  /\ UsableRefresh(x)
  /\ Begin(c, [IdleCall EXCEPT !.pc = "claim", !.grant = x])
  /\ Elsewhere /\ History /\ UNCHANGED tables

UnspentOrNot(x) == TRUE                    \* the updates without isNull(usedAt)
Unspent(x) == IF x \in Codes THEN ~codes[x].used ELSE UsableRefresh(x)

Spend(x) ==
  IF x \in Codes
    THEN codes' = [codes EXCEPT ![x].used = TRUE] /\ UNCHANGED refreshes
    ELSE /\ refreshes' = [refreshes EXCEPT ![x].used = TRUE, ![x].revoked = TRUE]
         /\ UNCHANGED codes

Claim(c) ==
  /\ At(c, "claim")
  /\ IF Unspent(calls[c].grant)
       THEN Spend(calls[c].grant) /\ Goto(c, "member")
       ELSE End(c) /\ UNCHANGED <<codes, refreshes>>
  /\ Elsewhere /\ History /\ UNCHANGED <<sessions, tickets, raced>>

CheckMember(c) ==
  /\ At(c, "member")
  /\ IF member THEN Goto(c, "recheck") ELSE End(c)
  /\ Elsewhere /\ History /\ UNCHANGED <<tables, raced>>

(* createToken, also of a login and of the choice of a workspace by who    *)
(* holds a session.                                                        *)
BeginLogin(c) ==
  /\ Tokens
  /\ Begin(c, [IdleCall EXCEPT !.pc = "recheck", !.grant = Login])
  /\ Elsewhere /\ History /\ UNCHANGED tables

BeginSelect(c, x) ==
  /\ Tokens
  /\ UsableApi(x)
  /\ Begin(c, [IdleCall EXCEPT !.pc = "recheck", !.grant = Login])
  /\ Elsewhere /\ History /\ UNCHANGED tables

Recheck(c) ==
  /\ At(c, "recheck")
  /\ IF member THEN calls' = [calls EXCEPT ![c].pc = "session", ![c].era = era] ELSE End(c)
  /\ Elsewhere /\ History /\ UNCHANGED <<tables, raced>>

InsertSession(c) ==
  /\ At(c, "session")
  /\ Insert(sessions, [kind |-> "api", era |-> calls[c].era])
  /\ IF calls[c].grant = Login THEN End(c) ELSE Goto(c, "refresh")
  /\ Elsewhere /\ History /\ UNCHANGED <<codes, refreshes, tickets, raced>>

InsertRefresh(c) ==
  /\ At(c, "refresh")
  /\ Insert(refreshes, [client |-> ClientOf(calls[c].grant), era |-> calls[c].era, used |-> FALSE, revoked |-> FALSE])
  /\ Honour(calls[c].grant)
  /\ caught' = caught \ {codes[x].client : x \in Codes \intersect {calls[c].grant}}
  /\ End(c)
  /\ Elsewhere /\ UNCHANGED <<codes, sessions, tickets, raced>>

(* refreshAccessToken of a token that was used or revoked: everything the  *)
(* user holds through the client that the request names is revoked, before *)
(* anybody asks whether the token is that client's.                        *)
BeginReuse(c, x, k) ==
  /\ Tokens
  /\ refreshes[x] # None
  /\ ~UsableRefresh(x)
  /\ Begin(c, [IdleCall EXCEPT !.pc = "reuse", !.grant = x, !.client = k])
  /\ Elsewhere /\ History /\ UNCHANGED tables

Revoked(X) == [y \in Refreshes |->
  IF y \in X THEN [refreshes[y] EXCEPT !.revoked = TRUE] ELSE refreshes[y]]
RevokeOne(x, k) == Revoked({x})            \* the reused token alone
Family(k) == {y \in Refreshes : refreshes[y] # None /\ refreshes[y].client = k}
RevokeFamily(x, k) == Revoked(Family(k))   \* whatever the token reused

Reuse(c) ==
  /\ At(c, "reuse")
  /\ refreshes' = RevokeFamily(calls[c].grant, calls[c].client)
  /\ caught' = caught \union {calls[c].client}
  /\ End(c)
  /\ Elsewhere /\ UNCHANGED <<codes, sessions, tickets, honoured, raced>>

(* revokeToken: the update on oauth_tokens and the delete on sessions, of  *)
(* which one finds the token; HumanSessionService.revoke is the delete.    *)
RevokeRefresh(x) ==
  /\ Tokens
  /\ refreshes[x] # None
  /\ refreshes' = [refreshes EXCEPT ![x].revoked = TRUE]
  /\ Elsewhere /\ History /\ UNCHANGED <<codes, sessions, tickets, calls, raced>>
RevokeSession(x) ==
  /\ Tokens
  /\ sessions[x] # None
  /\ sessions' = Without(x)
  /\ Elsewhere /\ History /\ UNCHANGED <<codes, refreshes, tickets, calls, raced>>

-----------------------------------------------------------------------------
(* createEphemeralStreamTicket and consumeEphemeralStreamTicket, whose     *)
(* look at the membership after the claim only decides the answer.         *)
CreateTicket(x) ==
  /\ Tokens
  /\ UsableApi(x)
  /\ Insert(tickets, [era |-> sessions[x].era, consumed |-> FALSE, late |-> FALSE])
  /\ Elsewhere /\ History /\ UNCHANGED <<codes, refreshes, sessions, calls, raced>>

ConsumeTicket(x) ==
  /\ tickets[x] # None /\ ~tickets[x].consumed /\ ~tickets[x].late
  /\ tickets' = [tickets EXCEPT ![x].consumed = TRUE]
  /\ Honour(x)
  /\ Elsewhere /\ UNCHANGED <<caught, codes, refreshes, sessions, calls, raced>>

(* Five minutes for a code, one for a ticket. *)
ExpireCode(x) ==
  /\ UsableCode(x)
  /\ codes' = [codes EXCEPT ![x].late = TRUE]
  /\ Elsewhere /\ History /\ UNCHANGED <<refreshes, sessions, tickets, calls, raced>>
ExpireTicket(x) ==
  /\ tickets[x] # None /\ ~tickets[x].consumed /\ ~tickets[x].late
  /\ tickets' = [tickets EXCEPT ![x].late = TRUE]
  /\ Elsewhere /\ History /\ UNCHANGED <<codes, refreshes, sessions, calls, raced>>

(* POST /oauth/register. *)
NewClient(k, list) ==
  /\ Arrivals
  /\ RegisterClient(k, list)
  /\ Membership /\ History /\ UNCHANGED <<tables, calls, raced>>

-----------------------------------------------------------------------------
(* removeMember: the membership, the sessions, the refresh tokens; and the *)
(* invitation that lets the user in again.                                 *)
BeginRemove(c) ==
  /\ Tokens
  /\ member
  /\ member' = FALSE
  /\ Begin(c, [IdleCall EXCEPT !.pc = "removeSessions"])
  /\ History /\ UNCHANGED <<scene, era, clientVars, tables>>

RemoveSessions(c) ==
  /\ At(c, "removeSessions")
  /\ sessions' = [x \in Sessions |-> None]
  /\ Goto(c, "removeTokens")
  /\ Elsewhere /\ History /\ UNCHANGED <<codes, refreshes, tickets, raced>>

KeepTokens == refreshes                    \* removeMember without its last statement
RevokedTokens == Revoked({y \in Refreshes : refreshes[y] # None})
RemoveTokens(c) ==
  /\ At(c, "removeTokens")
  /\ refreshes' = RevokedTokens
  /\ End(c)
  /\ Elsewhere /\ History /\ UNCHANGED <<codes, sessions, tickets, raced>>

Rejoin ==
  /\ ~member
  /\ era < MaxEra
  /\ member' = TRUE
  /\ era' = era + 1
  /\ CountRace
  /\ History /\ UNCHANGED <<scene, clientVars, tables, calls>>

(* A statement throws or the worker is gone. *)
Fail(c) ==
  /\ ~At(c, "idle")
  /\ raced < MaxRaces
  /\ raced' = raced + 1
  /\ End(c) /\ Gone(c)
  /\ Membership /\ History /\ UNCHANGED tables

-----------------------------------------------------------------------------
(* The routes: /oauth/authorize, /oauth/token and /oauth/revoke, the       *)
(* logins, the choice of a workspace, the approval's page, and what shows a *)
(* ticket in place of a session.                                           *)
AuthorizeRoute(c) ==
  \E k \in ClientIds, r \in Redirects :
     BeginPage(c, k, r) \/ \E p \in Sessions \union {None} : BeginAuthorize(c, k, r, p)
TokenRoute(c) ==
  \/ \E x \in Codes : BeginExchange(c, x)
  \/ \E x \in Refreshes : BeginRefresh(c, x) \/ \E k \in ClientIds : BeginReuse(c, x, k)
RevokeRoute ==
  \/ \E x \in Refreshes : RevokeRefresh(x)
  \/ \E x \in Sessions : RevokeSession(x)
SelectRoute(c) == \E x \in Sessions : BeginSelect(c, x)
ReviewRoute(c) == \E p \in Sessions \union {None} : BeginReviewSignIn(c, p)
TicketRoute == \E x \in Sessions : CreateTicket(x)
StreamRoute == \E x \in Tickets : ConsumeTicket(x)

AccessNext ==
  \/ \E c \in Calls :
       \/ AuthorizeRoute(c) \/ Arriving(c) \/ ShowPage(c) \/ SignIn(c)
       \/ AuthorizeCheck(c) \/ InsertCode(c) \/ RevokePrior(c) \/ MintHuman(c)
       \/ TokenRoute(c) \/ BeginLogin(c) \/ SelectRoute(c) \/ ReviewRoute(c)
       \/ Claim(c) \/ CheckMember(c) \/ Recheck(c) \/ InsertSession(c) \/ InsertRefresh(c)
       \/ Reuse(c)
       \/ BeginRemove(c) \/ RemoveSessions(c) \/ RemoveTokens(c)
       \/ Fail(c)
  \/ RevokeRoute \/ TicketRoute \/ StreamRoute
  \/ \E x \in Tickets : ExpireTicket(x)
  \/ \E x \in Codes : ExpireCode(x)
  \/ \E k \in ClientIds, list \in SUBSET Redirects : NewClient(k, list)
  \/ Rejoin

AccessSpec == AccessInit /\ [][AccessNext]_accessVars

-----------------------------------------------------------------------------
(* Rows are of their tables' types: a session is an API's or a human's.    *)
AccessTypeOK ==
  /\ scene \in {"arrivals", "tokens"} /\ member \in BOOLEAN /\ era \in Era
  /\ codes \in [Codes -> CodeRow \union {None}]
  /\ refreshes \in [Refreshes -> RefreshRow \union {None}]
  /\ sessions \in [Sessions -> SessionRow \union {None}]
  /\ tickets \in [Tickets -> TicketRow \union {None}]
  /\ calls \in [Calls -> CallState]
  /\ honoured \in [Grants \union Tickets -> Nat]
  /\ caught \subseteq ClientIds /\ raced \in 0..MaxRaces

(* A code, a refresh token and a ticket are each honoured once: however    *)
(* many exchanges and refreshes overlap, a grant has one successor.        *)
HonouredOnce == \A x \in DOMAIN honoured : honoured[x] <= 1

(* A member who was removed and is let in again starts from nothing: no    *)
(* session and no refresh token of the earlier membership is usable.  (A   *)
(* token being issued while the member is removed, or a removal that fails *)
(* half way, leaves one that is.)                                          *)
RemovalEndsAccess ==
  raced = 0 =>
    /\ \A x \in Sessions : UsableSession(x) => sessions[x].era = era
    /\ \A x \in Refreshes : UsableRefresh(x) /\ member => refreshes[x].era = era

(* When the reuse of a refresh token is caught, nothing of the client's is *)
(* left to refresh with until the user authorizes it again.                *)
ReuseEndsFamily ==
  raced = 0 => \A k \in caught, x \in Refreshes : UsableRefresh(x) => refreshes[x].client # k

(* A code is for a redirect its client still has: what a later visit adds  *)
(* to the client's list takes nothing out of it.  (Two first arrivals at   *)
(* once overwrite each other's list, and two additions lose one.)          *)
CodesGoHome ==
  raced = 0 => \A x \in Codes : UsableCode(x) => codes[x].redirect \in clients[codes[x].client]
=============================================================================
