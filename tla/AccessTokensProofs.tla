--------------------------- MODULE AccessTokensProofs ---------------------------
(***************************************************************************)
(* Proofs about AccessTokens, for any number of clients, redirects, codes, *)
(* refresh tokens, sessions, tickets, memberships and calls in flight.     *)
(***************************************************************************)
EXTENDS AccessTokens, TLAPS

(* A call knows what the statement it is at works on: a visit its client   *)
(* and redirect, a claim its grant, whose row is never taken away.         *)
Visiting == {"page", "visit", "check", "code"}
PastClaim == {"member", "recheck", "session", "refresh"}
HasGrant(x) == IF x \in Codes THEN codes[x] # None ELSE refreshes[x] # None
Spent(x) == IF x \in Codes THEN codes[x] # None /\ codes[x].used
                           ELSE refreshes[x] # None /\ refreshes[x].used
CallInStep(call) ==
  /\ call.pc = "claim" => call.grant \in Grants /\ HasGrant(call.grant)
  /\ call.pc \in PastClaim => /\ call.grant \in Grants \union {Login}
                              /\ (call.grant \in Grants => Spent(call.grant))
  /\ call.pc = "refresh" => call.grant # Login
  /\ call.pc = "reuse" => call.client \in ClientIds
VisitInStep(visit) ==
  /\ visit.pc # "idle" => visit.client \in ClientIds /\ visit.redirect \in Redirects
  /\ visit.pc = "fetch" => visit.client \in DOMAIN Documents
InStep(c) ==
  /\ CallInStep(calls[c]) /\ VisitInStep(visits[c])
  /\ calls[c].pc \in {"check", "code"} => visits[c].pc = "valid"
  /\ visits[c].pc # "idle" => calls[c].pc \in Visiting
StepInv == AccessTypeOK /\ ClientTypeOK /\ \A c \in Calls : InStep(c)

(* A grant is spent by one call, which honours it once, and a ticket is    *)
(* honoured when it is consumed.                                           *)
Spender(c) == calls[c].pc \in PastClaim /\ calls[c].grant \in Grants
SpentInv ==
  /\ \A x \in Grants : honoured[x] <= 1 /\ (honoured[x] > 0 => Spent(x))
  /\ \A c \in Calls : Spender(c) => honoured[calls[c].grant] = 0
  /\ \A c1, c2 \in Calls : Spender(c1) /\ Spender(c2) /\ calls[c1].grant = calls[c2].grant => c1 = c2
  /\ \A x \in Tickets : honoured[x] <= 1 /\ (honoured[x] > 0 => tickets[x] # None /\ tickets[x].consumed)

(* As long as calls come one at a time there is one in flight, what it has *)
(* read is still so, and whoever was removed has left nothing behind.      *)
OneCall == \A c1, c2 \in Calls : ~At(c1, "idle") /\ ~At(c2, "idle") => c1 = c2
Current == {"check", "code", "prior", "human", "session", "refresh"}
NoSessions == \A x \in Sessions : sessions[x] = None
NoRefreshes == \A x \in Refreshes : ~UsableRefresh(x)
OfThisEra ==
  /\ \A x \in Sessions : sessions[x] # None => sessions[x].era = era
  /\ \A x \in Refreshes : UsableRefresh(x) => refreshes[x].era = era
RemovalInv ==
  /\ \A c \in Calls : calls[c].pc \in Current => member /\ calls[c].era = era
  /\ member => OfThisEra
  /\ ~member => \/ \E c \in Calls : At(c, "removeSessions")
                \/ NoSessions /\ ((\E c \in Calls : At(c, "removeTokens")) \/ NoRefreshes)

NoFamily(k) == \A x \in Refreshes : UsableRefresh(x) => refreshes[x].client # k
FamilyInv ==
  /\ \A k \in caught : NoFamily(k)
  /\ \A c \in Calls : Spender(c) /\ calls[c].grant \in Refreshes
                        => refreshes[calls[c].grant].client \notin caught

(* What a visit has read of its client's list is still so, and a client    *)
(* whose list is written anew has no codes it could take a redirect from.  *)
NoCodes(k) == \A x \in Codes : UsableCode(x) => codes[x].client # k
Writing == {"fetch", "look", "overwrite", "insert"}
VisitReads(c) ==
  /\ VisitAt(c, "valid") => Redirect(c) \in clients[Client(c)]
  /\ VisitAt(c, "append") => /\ HasRow(Client(c))
                             /\ visits[c].list = clients[Client(c)] \union {Redirect(c)}
  /\ visits[c].pc \in Writing \ {"fetch"} => Redirect(c) \in visits[c].list
  /\ visits[c].pc \in Writing => NoCodes(Client(c))
VisitInv == (\A x \in Codes : UsableCode(x) => codes[x].redirect \in clients[codes[x].client])
            /\ \A c \in Calls : VisitReads(c)
AloneInv == raced = 0 => OneCall /\ RemovalInv /\ FamilyInv /\ VisitInv

(* What a step may do to rows that calls rely on.                          *)
TablesAdvance ==
  /\ \A x \in Codes : codes[x] # None =>
       /\ codes'[x] # None
       /\ codes'[x].client = codes[x].client /\ codes'[x].redirect = codes[x].redirect
       /\ codes[x].used => codes'[x].used
       /\ codes[x].late => codes'[x].late
  /\ \A x \in Refreshes : refreshes[x] # None =>
       /\ refreshes'[x] # None
       /\ refreshes'[x].client = refreshes[x].client /\ refreshes'[x].era = refreshes[x].era
       /\ refreshes[x].used => refreshes'[x].used
       /\ refreshes[x].revoked => refreshes'[x].revoked
  /\ \A x \in Tickets : tickets[x] # None =>
       tickets'[x] # None /\ (tickets[x].consumed => tickets'[x].consumed)

-----------------------------------------------------------------------------
(* The records a step writes, field by field.                              *)
CallPcs == {"page", "visit", "check", "code", "prior", "human", "claim", "member", "recheck",
            "session", "refresh", "reuse", "removeSessions", "removeTokens"}
OthersStand(c) == \A x \in Calls : x # c => calls'[x] = calls[x]
Kept(c) == /\ calls'[c].grant = calls[c].grant /\ calls'[c].prior = calls[c].prior
           /\ calls'[c].client = calls[c].client

LEMMA GotoFields ==
  ASSUME calls \in [Calls -> CallState], NEW c \in Calls, NEW pc \in CallPcs, Goto(c, pc)
  PROVE  /\ calls' \in [Calls -> CallState]
         /\ OthersStand(c) /\ Kept(c)
         /\ calls'[c].pc = pc /\ calls'[c].era = calls[c].era
<1> DEFINE new == [calls[c] EXCEPT !.pc = pc]
<1>1. calls[c] \in CallState
  OBVIOUS
<1>2. new \in CallState
  BY <1>1 DEF CallState, CallPcs
<1>3. /\ new.pc = pc /\ new.grant = calls[c].grant /\ new.prior = calls[c].prior
      /\ new.era = calls[c].era /\ new.client = calls[c].client
  BY <1>1 DEF CallState
<1>4. calls' = [calls EXCEPT ![c] = new]
  BY DEF Goto
<1> HIDE DEF new
<1> QED  BY <1>2, <1>3, <1>4 DEF OthersStand, Kept

LEMMA DatedFields ==
  ASSUME calls \in [Calls -> CallState], NEW c \in Calls, NEW pc \in CallPcs, NEW e \in Era,
         calls' = [calls EXCEPT ![c].pc = pc, ![c].era = e]
  PROVE  /\ calls' \in [Calls -> CallState]
         /\ OthersStand(c) /\ Kept(c)
         /\ calls'[c].pc = pc /\ calls'[c].era = e
<1> DEFINE new == [calls[c] EXCEPT !.pc = pc, !.era = e]
<1>1. calls[c] \in CallState
  OBVIOUS
<1>2. new \in CallState
  BY <1>1 DEF CallState, CallPcs
<1>3. /\ new.pc = pc /\ new.grant = calls[c].grant /\ new.prior = calls[c].prior
      /\ new.era = e /\ new.client = calls[c].client
  BY <1>1 DEF CallState
<1>4. calls' = [calls EXCEPT ![c] = new]
  BY <1>1 DEF CallState
<1> HIDE DEF new
<1> QED  BY <1>2, <1>3, <1>4 DEF OthersStand, Kept

LEMMA IdleFields ==
  /\ IdleCall \in CallState /\ IdleCall.pc = "idle"
  /\ Nowhere \in VisitState /\ Nowhere.pc = "idle"
BY AccessAssumption DEF IdleCall, CallState, Era, Nowhere, VisitState

LEMMA EndFields ==
  ASSUME calls \in [Calls -> CallState], NEW c \in Calls, End(c)
  PROVE  /\ calls' \in [Calls -> CallState]
         /\ OthersStand(c) /\ calls'[c] = IdleCall /\ calls'[c].pc = "idle"
BY IdleFields DEF End, OthersStand

LEMMA BeginFields ==
  ASSUME calls \in [Calls -> CallState], raced \in 0..MaxRaces,
         NEW c \in Calls, NEW call \in CallState, Begin(c, call)
  PROVE  /\ calls' \in [Calls -> CallState]
         /\ OthersStand(c) /\ calls'[c] = call /\ calls[c].pc = "idle"
         /\ raced' \in 0..MaxRaces
         /\ raced' = 0 => raced = 0 /\ Quiet
<1>1. MaxRaces \in Nat
  BY AccessAssumption
<1> QED  BY <1>1 DEF Begin, At, OthersStand, CountRace

OtherVisits(c) == \A x \in Calls : x # c => visits'[x] = visits[x]

LEMMA VisitFields ==
  ASSUME visits \in [Calls -> VisitState], NEW c \in Calls, NEW row \in VisitState,
         visits' = [visits EXCEPT ![c] = row]
  PROVE  visits' \in [Calls -> VisitState] /\ OtherVisits(c) /\ visits'[c] = row
BY DEF OtherVisits

LEMMA GoneFields ==
  ASSUME visits \in [Calls -> VisitState], NEW c \in Calls, Gone(c)
  PROVE  /\ visits' \in [Calls -> VisitState] /\ OtherVisits(c)
         /\ visits'[c].pc = "idle" /\ UNCHANGED clients
BY IdleFields, VisitFields DEF Gone

(* The client and the redirect of a visit stay what they were.             *)
SameVisit(c) == visits'[c].client = visits[c].client /\ visits'[c].redirect = visits[c].redirect
VisitPcs == {"read", "append", "fetch", "look", "overwrite", "insert", "valid"}

LEMMA GoesFields ==
  ASSUME visits \in [Calls -> VisitState], NEW c \in Calls, NEW pc \in VisitPcs, Goes(c, pc)
  PROVE  /\ visits' \in [Calls -> VisitState] /\ OtherVisits(c) /\ SameVisit(c)
         /\ visits'[c].pc = pc /\ visits'[c].list = visits[c].list
<1> DEFINE new == [visits[c] EXCEPT !.pc = pc]
<1>1. visits[c] \in VisitState
  OBVIOUS
<1>2. /\ new \in VisitState /\ new.pc = pc /\ new.list = visits[c].list
      /\ new.client = visits[c].client /\ new.redirect = visits[c].redirect
  BY <1>1 DEF VisitState, VisitPcs
<1>3. visits' = [visits EXCEPT ![c] = new]
  BY DEF Goes
<1> HIDE DEF new
<1> QED  BY <1>2, <1>3 DEF OtherVisits, SameVisit

Listed(c, pc, list, document) ==
  visits' = [visits EXCEPT ![c].pc = pc, ![c].list = list, ![c].document = document]

LEMMA ListedFields ==
  ASSUME visits \in [Calls -> VisitState], NEW c \in Calls, NEW pc \in VisitPcs,
         NEW list \in SUBSET Redirects, NEW document \in BOOLEAN,
         Listed(c, pc, list, document)
  PROVE  /\ visits' \in [Calls -> VisitState] /\ OtherVisits(c) /\ SameVisit(c)
         /\ visits'[c].pc = pc /\ visits'[c].list = list
<1> DEFINE new == [visits[c] EXCEPT !.pc = pc, !.list = list, !.document = document]
<1>1. visits[c] \in VisitState
  OBVIOUS
<1>2. /\ new \in VisitState /\ new.pc = pc /\ new.list = list
      /\ new.client = visits[c].client /\ new.redirect = visits[c].redirect
  BY <1>1 DEF VisitState, VisitPcs
<1>3. visits' = [visits EXCEPT ![c] = new]
  BY <1>1 DEF VisitState, Listed
<1> HIDE DEF new
<1> QED  BY <1>2, <1>3 DEF OtherVisits, SameVisit

Appending(c, list) == visits' = [visits EXCEPT ![c].pc = "append", ![c].list = list]

LEMMA AppendFields ==
  ASSUME visits \in [Calls -> VisitState], NEW c \in Calls, NEW list \in SUBSET Redirects,
         Appending(c, list)
  PROVE  /\ visits' \in [Calls -> VisitState] /\ OtherVisits(c) /\ SameVisit(c)
         /\ visits'[c].pc = "append" /\ visits'[c].list = list
<1> DEFINE new == [visits[c] EXCEPT !.pc = "append", !.list = list]
<1>1. visits[c] \in VisitState
  OBVIOUS
<1>2. /\ new \in VisitState /\ new.pc = "append" /\ new.list = list
      /\ new.client = visits[c].client /\ new.redirect = visits[c].redirect
  BY <1>1 DEF VisitState
<1>3. visits' = [visits EXCEPT ![c] = new]
  BY <1>1 DEF VisitState, Appending
<1> HIDE DEF new
<1> QED  BY <1>2, <1>3 DEF OtherVisits, SameVisit

(* What VisitStep does to a visit: it is refused, or goes on for the same  *)
(* client and redirect with what it has read of them.                      *)
LEMMA FallbackFields ==
  ASSUME StepInv, NEW c \in Calls, visits[c].pc # "idle", Fallback(c)
  PROVE  /\ visits' \in [Calls -> VisitState] /\ OtherVisits(c)
         /\ \/ visits'[c] = Nowhere
            \/ /\ SameVisit(c) /\ visits'[c].pc = "look"
               /\ visits'[c].list = {visits[c].redirect}
<1>0. visits \in [Calls -> VisitState] /\ visits[c].redirect \in Redirects
  BY DEF StepInv, ClientTypeOK, InStep, VisitInStep
<1>1. CASE Compatible(Client(c), Redirect(c))
  <2>1. Listed(c, "look", {Redirect(c)}, FALSE)
    BY <1>1 DEF Fallback, Register, Listed
  <2>2. {Redirect(c)} \in SUBSET Redirects /\ "look" \in VisitPcs
    BY <1>0 DEF Redirect, VisitPcs
  <2> QED  BY <1>0, <2>1, <2>2, ListedFields DEF Redirect
<1>2. CASE ~Compatible(Client(c), Redirect(c))
  BY <1>0, <1>2, IdleFields, VisitFields DEF Fallback, Refused
<1> QED  BY <1>1, <1>2

VisitGoesOn(c) ==
  /\ visits' \in [Calls -> VisitState] /\ OtherVisits(c)
  /\ clients' \in [ClientIds -> SUBSET Redirects]
  /\ \/ visits'[c] = Nowhere
     \/ /\ SameVisit(c) /\ visits'[c].pc \in VisitPcs
        /\ visits'[c].pc = "fetch" => visits[c].client \in DOMAIN Documents

LEMMA VisitStepFields ==
  ASSUME StepInv, NEW c \in Calls, VisitStep(c)
  PROVE  VisitGoesOn(c) /\ visits[c].pc \in VisitPcs \ {"valid"}
<1>0. /\ clients \in [ClientIds -> SUBSET Redirects] /\ visits \in [Calls -> VisitState]
      /\ visits[c] \in VisitState /\ VisitInStep(visits[c])
  BY DEF StepInv, ClientTypeOK, InStep
<1>1. visits[c].pc \in VisitPcs \ {"valid"}
  BY DEF VisitStep, ReadClient, Append, FetchDocument, FetchNothing, LookForRow, Overwrite,
         InsertClient, VisitAt, VisitPcs
<1> SUFFICES VisitGoesOn(c)
  BY <1>1
<1>2. /\ visits[c].client \in ClientIds /\ visits[c].redirect \in Redirects
      /\ visits[c].list \in SUBSET Redirects
  BY <1>0, <1>1 DEF VisitInStep, VisitPcs, VisitState
<1>3. ASSUME Fallback(c), UNCHANGED clients  PROVE VisitGoesOn(c)
  BY <1>0, <1>1, <1>3, FallbackFields DEF VisitGoesOn, VisitPcs
<1>4. ASSUME Refused(c), UNCHANGED clients  PROVE VisitGoesOn(c)
  BY <1>0, <1>4, IdleFields, VisitFields DEF VisitGoesOn, Refused
<1>5. ASSUME Valid(c), clients' \in [ClientIds -> SUBSET Redirects]  PROVE VisitGoesOn(c)
  <2>1. {} \in SUBSET Redirects /\ FALSE \in BOOLEAN /\ "valid" \in VisitPcs
    BY DEF VisitPcs
  <2>2. Listed(c, "valid", {}, FALSE)
    BY <1>5 DEF Valid, Listed
  <2> QED  BY <1>0, <1>5, <2>1, <2>2, ListedFields DEF VisitGoesOn
<1>6. CASE ReadClient(c)
  <2> DEFINE list == clients[Client(c)] \union {Redirect(c)}
  <2>1. list \in SUBSET Redirects
    BY <1>0, <1>2 DEF Client, Redirect
  <2>2. /\ UNCHANGED clients
        /\ \/ Valid(c) \/ Refused(c) \/ Fallback(c)
           \/ visits' = [visits EXCEPT ![c].pc = "append", ![c].list = list]
           \/ Client(c) \in DOMAIN Documents /\ Goes(c, "fetch")
    BY <1>6 DEF ReadClient
  <2> HIDE DEF list
  <2>3. ASSUME visits' = [visits EXCEPT ![c].pc = "append", ![c].list = list]  PROVE VisitGoesOn(c)
    BY <1>0, <2>1, <2>2, <2>3, AppendFields DEF VisitGoesOn, VisitPcs, Appending
  <2>4. ASSUME Client(c) \in DOMAIN Documents, Goes(c, "fetch")  PROVE VisitGoesOn(c)
    <3>1. "fetch" \in VisitPcs
      BY DEF VisitPcs
    <3> QED  BY <1>0, <2>2, <2>4, <3>1, GoesFields DEF VisitGoesOn, Client
  <2> QED  BY <1>0, <1>3, <1>4, <1>5, <2>2, <2>3, <2>4
<1>7. CASE Append(c)
  BY <1>0, <1>2, <1>5, <1>7 DEF Append, Appended, Client
<1>8. CASE FetchDocument(c)
  <2>1. visits[c].client \in DOMAIN Documents
    BY <1>0, <1>8 DEF FetchDocument, VisitAt, VisitInStep
  <2>2. Documents[Client(c)] \in SUBSET Redirects /\ TRUE \in BOOLEAN /\ "look" \in VisitPcs
    BY <2>1, ClientAssumption DEF Client, VisitPcs
  <2>3. ASSUME Register(c, Documents[Client(c)], TRUE), UNCHANGED clients  PROVE VisitGoesOn(c)
    <3>1. Listed(c, "look", Documents[Client(c)], TRUE)
      BY <2>3 DEF Register, Listed
    <3> QED  BY <1>0, <2>2, <2>3, <3>1, ListedFields DEF VisitGoesOn
  <2> QED  BY <1>4, <1>8, <2>3 DEF FetchDocument
<1>9. CASE FetchNothing(c)
  BY <1>3, <1>9 DEF FetchNothing
<1>10. CASE LookForRow(c)
  <2>1. PICK pc \in VisitPcs \ {"fetch"} : Goes(c, pc)
    BY <1>10 DEF LookForRow, VisitPcs
  <2> QED  BY <1>0, <1>10, <2>1, GoesFields DEF VisitGoesOn, LookForRow
<1>11. CASE Overwrite(c)
  BY <1>0, <1>2, <1>5, <1>11 DEF Overwrite, Client
<1>12. CASE InsertClient(c)
  BY <1>0, <1>2, <1>3, <1>4, <1>5, <1>12 DEF InsertClient, Client
<1> QED  BY <1>1, <1>6, <1>7, <1>8, <1>9, <1>10, <1>11, <1>12 DEF VisitStep

-----------------------------------------------------------------------------
(* Calls that a step leaves alone stay in step.                            *)
LEMMA OthersKeep ==
  ASSUME StepInv, TablesAdvance, NEW x \in Calls, calls'[x] = calls[x], visits'[x] = visits[x]
  PROVE  InStep(x)'
<1>1. PICK call \in CallState : call = calls[x]
  BY DEF StepInv, AccessTypeOK
<1>2. CallInStep(call)
  BY <1>1 DEF StepInv, InStep
<1>3. CallInStep(call)'
  BY <1>2 DEF CallInStep, TablesAdvance, HasGrant, Spent, Grants
<1>4. calls'[x] = call
  BY <1>1
<1> QED  BY <1>3, <1>4 DEF StepInv, InStep, VisitInStep

LEMMA StepKeeps ==
  ASSUME StepInv, AccessTypeOK', ClientTypeOK', TablesAdvance,
         NEW c \in Calls, OthersStand(c), OtherVisits(c), InStep(c)'
  PROVE  StepInv'
<1>1. ASSUME NEW x \in Calls  PROVE InStep(x)'
  <2>1. CASE x = c
    BY <2>1
  <2>2. CASE x # c
    BY <2>2, OthersKeep DEF OthersStand, OtherVisits
  <2> QED  BY <2>1, <2>2
<1> QED  BY <1>1 DEF StepInv

LEMMA EnvironmentKeeps ==
  ASSUME StepInv, AccessTypeOK', ClientTypeOK', TablesAdvance, UNCHANGED <<calls, visits>>
  PROVE  StepInv'
<1>1. ASSUME NEW x \in Calls  PROVE InStep(x)'
  BY OthersKeep
<1> QED  BY <1>1 DEF StepInv

LEMMA TablesStand ==
  ASSUME StepInv, UNCHANGED tables
  PROVE  TablesAdvance
BY DEF tables, TablesAdvance
(* A call without a visit goes on, ends or begins without one.             *)
LEMMA CallKeeps ==
  ASSUME StepInv, AccessTypeOK', UNCHANGED clientVars, TablesAdvance, NEW c \in Calls,
         OthersStand(c), calls[c].pc \notin Visiting, calls'[c].pc \notin Visiting,
         CallInStep(calls[c])'
  PROVE  StepInv' /\ TablesAdvance
<1>1. ClientTypeOK' /\ OtherVisits(c)
  BY DEF StepInv, ClientTypeOK, clientVars, OtherVisits
<1>2. VisitInStep(visits[c]) /\ visits[c].pc = "idle" /\ UNCHANGED visits
  BY DEF StepInv, InStep, clientVars
<1>3. InStep(c)'
  BY <1>2 DEF InStep, VisitInStep, Visiting
<1> QED  BY <1>1, <1>3, StepKeeps

(* The tables and the history, when only calls and their count change.     *)
LEMMA CallsTypeOK ==
  ASSUME StepInv, UNCHANGED <<scene, member, era, tables, honoured, caught>>,
         calls' \in [Calls -> CallState], raced' \in 0..MaxRaces
  PROVE  AccessTypeOK' /\ TablesAdvance
<1>1. AccessTypeOK'
  BY DEF StepInv, AccessTypeOK, tables
<1>2. TablesAdvance
  BY TablesStand
<1> QED  BY <1>1, <1>2

LEMMA BeginKeeps ==
  ASSUME StepInv, NEW c \in Calls, NEW call \in CallState, Begin(c, call),
         Elsewhere, History, UNCHANGED tables, call.pc \notin Visiting, CallInStep(call)
  PROVE  StepInv' /\ TablesAdvance
<1>0. calls \in [Calls -> CallState] /\ raced \in 0..MaxRaces
  BY DEF StepInv, AccessTypeOK
<1>1. /\ calls' \in [Calls -> CallState] /\ OthersStand(c) /\ calls'[c] = call
      /\ calls[c].pc = "idle" /\ raced' \in 0..MaxRaces
  BY <1>0, BeginFields
<1>2. AccessTypeOK' /\ TablesAdvance
  BY <1>1, CallsTypeOK DEF Elsewhere, History
<1>3. CallInStep(calls[c])'
  BY <1>1 DEF CallInStep, HasGrant, Spent, tables
<1>4. UNCHANGED clientVars /\ calls[c].pc \notin Visiting
  BY <1>1 DEF Elsewhere, Visiting
<1> QED  BY <1>1, <1>2, <1>3, <1>4, CallKeeps

LEMMA EndKeeps ==
  ASSUME StepInv, NEW c \in Calls, End(c), calls[c].pc \notin Visiting,
         Elsewhere, History, UNCHANGED <<tables, raced>>
  PROVE  StepInv' /\ TablesAdvance
<1>0. calls \in [Calls -> CallState] /\ raced \in 0..MaxRaces
  BY DEF StepInv, AccessTypeOK
<1>1. /\ calls' \in [Calls -> CallState] /\ OthersStand(c) /\ calls'[c].pc = "idle"
  BY <1>0, EndFields
<1>2. AccessTypeOK' /\ TablesAdvance
  BY <1>0, <1>1, CallsTypeOK DEF Elsewhere, History
<1>3. CallInStep(calls[c])' /\ UNCHANGED clientVars /\ calls'[c].pc \notin Visiting
  BY <1>1 DEF CallInStep, Elsewhere, PastClaim, Visiting
<1> QED  BY <1>1, <1>2, <1>3, CallKeeps

LEMMA BeginsInStep ==
  ASSUME StepInv, NEW c \in Calls,
         TokenRoute(c) \/ BeginLogin(c) \/ SelectRoute(c) \/ ReviewRoute(c)
  PROVE  StepInv' /\ TablesAdvance
<1>1. ASSUME NEW x \in Grants, HasGrant(x), Elsewhere, History, UNCHANGED tables,
             Begin(c, [IdleCall EXCEPT !.pc = "claim", !.grant = x])
      PROVE  StepInv' /\ TablesAdvance
  <2> DEFINE call == [IdleCall EXCEPT !.pc = "claim", !.grant = x]
  <2>1. call \in CallState /\ call.pc = "claim" /\ call.grant = x
    BY IdleFields DEF CallState
  <2>2. Begin(c, call)
    BY <1>1
  <2> HIDE DEF call
  <2>3. CallInStep(call) /\ call.pc \notin Visiting
    BY <1>1, <2>1 DEF CallInStep, PastClaim, Visiting
  <2> QED  BY <1>1, <2>1, <2>2, <2>3, BeginKeeps
<1>2. ASSUME NEW x \in Codes, BeginExchange(c, x)  PROVE StepInv' /\ TablesAdvance
  BY <1>1, <1>2 DEF BeginExchange, UsableCode, HasGrant, Grants
<1>3. ASSUME NEW x \in Refreshes, BeginRefresh(c, x)  PROVE StepInv' /\ TablesAdvance
  BY <1>1, <1>3, TablesAssumption DEF BeginRefresh, UsableRefresh, HasGrant, Grants
<1>4. ASSUME NEW x \in Refreshes, NEW k \in ClientIds, BeginReuse(c, x, k)
      PROVE  StepInv' /\ TablesAdvance
  <2> DEFINE call == [IdleCall EXCEPT !.pc = "reuse", !.grant = x, !.client = k]
  <2>1. call \in CallState /\ call.pc = "reuse" /\ call.client = k
    BY IdleFields DEF CallState, Grants
  <2>2. Begin(c, call)
    BY <1>4 DEF BeginReuse
  <2> HIDE DEF call
  <2>3. CallInStep(call) /\ call.pc \notin Visiting
    BY <2>1 DEF CallInStep, PastClaim, Visiting
  <2> QED  BY <1>4, <2>1, <2>2, <2>3, BeginKeeps DEF BeginReuse
<1>5. ASSUME Elsewhere, History, UNCHANGED tables,
             Begin(c, [IdleCall EXCEPT !.pc = "recheck", !.grant = Login])
      PROVE  StepInv' /\ TablesAdvance
  <2> DEFINE call == [IdleCall EXCEPT !.pc = "recheck", !.grant = Login]
  <2>1. call \in CallState /\ call.pc = "recheck" /\ call.grant = Login
    BY IdleFields DEF CallState
  <2>2. Begin(c, call)
    BY <1>5
  <2> HIDE DEF call
  <2>3. CallInStep(call) /\ call.pc \notin Visiting
    BY <2>1, LoginAssumption DEF CallInStep, PastClaim, Visiting
  <2> QED  BY <1>5, <2>1, <2>2, <2>3, BeginKeeps
<1>6. ASSUME NEW p \in Sessions \union {None}, BeginReviewSignIn(c, p)
      PROVE  StepInv' /\ TablesAdvance
  <2> DEFINE call == [IdleCall EXCEPT !.pc = "prior", !.prior = p, !.era = era]
  <2>1. call \in CallState /\ call.pc = "prior"
    BY DEF CallState, IdleCall, StepInv, AccessTypeOK
  <2>2. Begin(c, call)
    BY <1>6 DEF BeginReviewSignIn
  <2> HIDE DEF call
  <2>3. CallInStep(call) /\ call.pc \notin Visiting
    BY <2>1 DEF CallInStep, PastClaim, Visiting
  <2> QED  BY <1>6, <2>1, <2>2, <2>3, BeginKeeps DEF BeginReviewSignIn
<1>7. BeginLogin(c) => StepInv' /\ TablesAdvance
  BY <1>5 DEF BeginLogin
<1>8. SelectRoute(c) => StepInv' /\ TablesAdvance
  BY <1>5 DEF SelectRoute, BeginSelect
<1> QED  BY <1>2, <1>3, <1>4, <1>6, <1>7, <1>8 DEF TokenRoute, ReviewRoute

(* A grant that is spent, refresh tokens that are revoked.                 *)
LEMMA SpendFields ==
  ASSUME StepInv, NEW x \in Grants, HasGrant(x), Spend(x), UNCHANGED tickets
  PROVE  /\ codes' \in [Codes -> CodeRow \union {None}]
         /\ refreshes' \in [Refreshes -> RefreshRow \union {None}]
         /\ TablesAdvance /\ Spent(x)'
         /\ \A y \in Codes : codes'[y] # codes[y] => y = x
         /\ \A y \in Refreshes : refreshes'[y] # refreshes[y] => y = x /\ x \notin Codes
<1>0. codes \in [Codes -> CodeRow \union {None}] /\ refreshes \in [Refreshes -> RefreshRow \union {None}]
  BY DEF StepInv, AccessTypeOK
<1>1. CASE x \in Codes
  <2> DEFINE row == [codes[x] EXCEPT !.used = TRUE]
  <2>1. codes[x] \in CodeRow /\ codes[x] # None
    BY <1>0, <1>1 DEF HasGrant
  <2>2. /\ row \in CodeRow /\ row.used = TRUE /\ row.late = codes[x].late
        /\ row.client = codes[x].client /\ row.redirect = codes[x].redirect
    BY <2>1 DEF CodeRow
  <2>3. codes' = [codes EXCEPT ![x] = row] /\ UNCHANGED refreshes
    BY <1>1 DEF Spend
  <2> HIDE DEF row
  <2> QED  BY <1>0, <1>1, <2>2, <2>3, RowAssumption DEF TablesAdvance, Spent
<1>2. CASE x \notin Codes
  <2> DEFINE row == [refreshes[x] EXCEPT !.used = TRUE, !.revoked = TRUE]
  <2>1. x \in Refreshes /\ refreshes[x] \in RefreshRow /\ refreshes[x] # None
    BY <1>0, <1>2 DEF HasGrant, Grants
  <2>2. /\ row \in RefreshRow /\ row.used = TRUE /\ row.revoked = TRUE
        /\ row.client = refreshes[x].client /\ row.era = refreshes[x].era
    BY <2>1 DEF RefreshRow
  <2>3. refreshes' = [refreshes EXCEPT ![x] = row] /\ UNCHANGED codes
    BY <1>2, <2>1 DEF Spend, RefreshRow
  <2> HIDE DEF row
  <2> QED  BY <1>0, <1>2, <2>1, <2>2, <2>3, RowAssumption DEF TablesAdvance, Spent
<1> QED  BY <1>1, <1>2

LEMMA RevokedFields ==
  ASSUME StepInv, NEW X, \A y \in X : y \in Refreshes /\ refreshes[y] # None,
         refreshes' = Revoked(X), UNCHANGED <<codes, tickets>>
  PROVE  /\ refreshes' \in [Refreshes -> RefreshRow \union {None}]
         /\ TablesAdvance
         /\ \A y \in Refreshes : refreshes'[y] # None => refreshes[y] # None
         /\ \A y \in Refreshes : UsableRefresh(y)' => UsableRefresh(y) /\ y \notin X
<1>0. refreshes \in [Refreshes -> RefreshRow \union {None}]
  BY DEF StepInv, AccessTypeOK
<1>1. ASSUME NEW y \in Refreshes
      PROVE  /\ refreshes'[y] \in RefreshRow \union {None}
             /\ refreshes'[y] # None <=> refreshes[y] # None
             /\ refreshes[y] # None =>
                  /\ refreshes'[y].client = refreshes[y].client
                  /\ refreshes'[y].era = refreshes[y].era
                  /\ refreshes'[y].used = refreshes[y].used
                  /\ refreshes[y].revoked => refreshes'[y].revoked
                  /\ y \in X => refreshes'[y].revoked
  <2>1. CASE y \in X
    <3> DEFINE row == [refreshes[y] EXCEPT !.revoked = TRUE]
    <3>1. refreshes[y] \in RefreshRow
      BY <1>0, <2>1
    <3>2. /\ row \in RefreshRow /\ row.revoked = TRUE /\ row.used = refreshes[y].used
          /\ row.client = refreshes[y].client /\ row.era = refreshes[y].era
      BY <3>1 DEF RefreshRow
    <3>3. refreshes'[y] = row
      BY <2>1 DEF Revoked
    <3> HIDE DEF row
    <3> QED  BY <2>1, <3>1, <3>2, <3>3, RowAssumption
  <2>2. CASE y \notin X
    BY <1>0, <2>2 DEF Revoked
  <2> QED  BY <2>1, <2>2
<1>2. refreshes' = [y \in Refreshes |-> refreshes'[y]]
  BY DEF Revoked
<1>3. refreshes' \in [Refreshes -> RefreshRow \union {None}]
  BY <1>1, <1>2
<1>4. TablesAdvance
  BY <1>1 DEF TablesAdvance
<1>5. \A y \in Refreshes : UsableRefresh(y)' => UsableRefresh(y) /\ y \notin X
  BY <1>1 DEF UsableRefresh
<1> QED  BY <1>1, <1>3, <1>4, <1>5

LEMMA ClaimInStep ==
  ASSUME StepInv, NEW c \in Calls, Claim(c)
  PROVE  StepInv' /\ TablesAdvance
<1>0. /\ calls \in [Calls -> CallState] /\ raced \in 0..MaxRaces /\ calls[c].pc = "claim"
      /\ CallInStep(calls[c])
  BY DEF StepInv, AccessTypeOK, InStep, Claim, At
<1>1. CASE Unspent(calls[c].grant)
  <2>1. PICK x \in Grants : x = calls[c].grant
    BY <1>0 DEF CallInStep
  <2>2. HasGrant(x) /\ Spend(x) /\ Goto(c, "member") /\ UNCHANGED tickets
    BY <1>0, <1>1, <2>1 DEF Claim, CallInStep
  <2>3. /\ codes' \in [Codes -> CodeRow \union {None}]
        /\ refreshes' \in [Refreshes -> RefreshRow \union {None}]
        /\ TablesAdvance /\ Spent(x)'
    BY <2>2, SpendFields
  <2>4. /\ calls' \in [Calls -> CallState] /\ OthersStand(c) /\ calls'[c].pc = "member"
        /\ calls'[c].grant = x
    BY <1>0, <2>1, <2>2, GotoFields DEF CallPcs, Kept
  <2>5. AccessTypeOK'
    BY <2>3, <2>4 DEF Claim, StepInv, AccessTypeOK, Elsewhere, History
  <2>6. CallInStep(calls[c])'
    BY <2>3, <2>4 DEF CallInStep, PastClaim
  <2>7. UNCHANGED clientVars /\ calls[c].pc \notin Visiting /\ calls'[c].pc \notin Visiting
    BY <1>0, <2>4 DEF Claim, Elsewhere, Visiting
  <2> QED  BY <2>3, <2>4, <2>5, <2>6, <2>7, CallKeeps
<1>2. CASE ~Unspent(calls[c].grant)
  BY <1>0, <1>2, EndKeeps DEF Claim, tables, Visiting
<1> QED  BY <1>1, <1>2

LEMMA ChecksInStep ==
  ASSUME StepInv, NEW c \in Calls, CheckMember(c) \/ Recheck(c)
  PROVE  StepInv' /\ TablesAdvance
<1>0. /\ calls \in [Calls -> CallState] /\ raced \in 0..MaxRaces
      /\ CallInStep(calls[c]) /\ era \in Era
      /\ calls[c].pc \in {"member", "recheck"}
      /\ Elsewhere /\ History /\ UNCHANGED <<tables, raced>>
  BY DEF StepInv, AccessTypeOK, InStep, CheckMember, Recheck, At
<1>1. CASE End(c)
  BY <1>0, <1>1, EndKeeps DEF Visiting
<1>2. CASE Goto(c, "recheck") \/ calls' = [calls EXCEPT ![c].pc = "session", ![c].era = era]
  <2>1. /\ calls' \in [Calls -> CallState] /\ OthersStand(c) /\ calls'[c].pc \in {"recheck", "session"}
        /\ calls'[c].grant = calls[c].grant
    BY <1>0, <1>2, GotoFields, DatedFields DEF CallPcs, Kept
  <2>2. AccessTypeOK' /\ TablesAdvance
    BY <1>0, <2>1, CallsTypeOK DEF Elsewhere, History
  <2>3. CallInStep(calls[c])'
    BY <1>0, <2>1 DEF CallInStep, PastClaim, Spent, tables
  <2>4. UNCHANGED clientVars /\ calls[c].pc \notin Visiting /\ calls'[c].pc \notin Visiting
    BY <1>0, <2>1 DEF Elsewhere, Visiting
  <2> QED  BY <2>1, <2>2, <2>3, <2>4, CallKeeps
<1> QED  BY <1>1, <1>2 DEF CheckMember, Recheck

(* The statements that write sessions.                                     *)
LEMMA SessionsKeep ==
  ASSUME StepInv, NEW c \in Calls, sessions' \in [Sessions -> SessionRow \union {None}],
         UNCHANGED <<codes, refreshes, tickets, raced>>, Elsewhere, History,
         calls[c].pc \notin Visiting,
         \/ End(c)
         \/ Goto(c, "human") \/ Goto(c, "removeTokens")
         \/ Goto(c, "refresh") /\ calls[c].pc = "session" /\ calls[c].grant # Login
  PROVE  StepInv' /\ TablesAdvance
<1>0. calls \in [Calls -> CallState] /\ CallInStep(calls[c])
  BY DEF StepInv, AccessTypeOK, InStep
<1>1. /\ calls' \in [Calls -> CallState] /\ OthersStand(c)
      /\ \/ calls'[c].pc \in {"idle", "human", "removeTokens"}
         \/ calls'[c].pc = "refresh" /\ calls'[c].grant = calls[c].grant
            /\ calls[c].pc = "session" /\ calls[c].grant # Login
  BY <1>0, EndFields, GotoFields DEF CallPcs, Kept
<1>2. AccessTypeOK' /\ TablesAdvance
  BY <1>1 DEF StepInv, AccessTypeOK, Elsewhere, History, TablesAdvance
<1>3. CallInStep(calls[c])'
  BY <1>0, <1>1 DEF CallInStep, PastClaim, Spent
<1>4. UNCHANGED clientVars /\ calls'[c].pc \notin Visiting
  BY <1>1 DEF Elsewhere, Visiting
<1> QED  BY <1>1, <1>2, <1>3, <1>4, CallKeeps

LEMMA SessionsInStep ==
  ASSUME StepInv, NEW c \in Calls,
         RevokePrior(c) \/ MintHuman(c) \/ InsertSession(c) \/ RemoveSessions(c)
  PROVE  StepInv' /\ TablesAdvance
<1>0. /\ sessions \in [Sessions -> SessionRow \union {None}] /\ calls[c] \in CallState
      /\ calls[c].pc \notin Visiting
  BY DEF StepInv, AccessTypeOK, RevokePrior, MintHuman, InsertSession, RemoveSessions, At, Visiting
<1>1. ASSUME NEW kind \in {"api", "human"}, Insert(sessions, [kind |-> kind, era |-> calls[c].era])
      PROVE  sessions' \in [Sessions -> SessionRow \union {None}]
  <2>1. [kind |-> kind, era |-> calls[c].era] \in SessionRow
    BY <1>0 DEF SessionRow, CallState
  <2> QED  BY <1>0, <1>1, <2>1 DEF Insert
<1>2. sessions' \in [Sessions -> SessionRow \union {None}]
  BY <1>0, <1>1 DEF RevokePrior, MintHuman, InsertSession, RemoveSessions, Without
<1> QED  BY <1>0, <1>2, SessionsKeep DEF RevokePrior, MintHuman, InsertSession, RemoveSessions, At

LEMMA RemoveInStep ==
  ASSUME StepInv, NEW c \in Calls, BeginRemove(c)
  PROVE  StepInv' /\ TablesAdvance
<1> DEFINE call == [IdleCall EXCEPT !.pc = "removeSessions"]
<1>0. calls \in [Calls -> CallState] /\ raced \in 0..MaxRaces
  BY DEF StepInv, AccessTypeOK
<1>1. call \in CallState /\ call.pc = "removeSessions" /\ Begin(c, call)
  BY IdleFields DEF CallState, BeginRemove
<1> HIDE DEF call
<1>2. /\ calls' \in [Calls -> CallState] /\ OthersStand(c) /\ calls'[c].pc = "removeSessions"
      /\ calls[c].pc = "idle" /\ raced' \in 0..MaxRaces
  BY <1>0, <1>1, BeginFields
<1>3. AccessTypeOK' /\ TablesAdvance
  BY <1>2, TablesStand DEF BeginRemove, StepInv, AccessTypeOK, History, tables
<1>4. CallInStep(calls[c])' /\ UNCHANGED clientVars
  BY <1>2 DEF CallInStep, PastClaim, BeginRemove
<1> QED  BY <1>2, <1>3, <1>4, CallKeeps DEF Visiting

(* The statements that write refresh tokens.                               *)
LEMMA RefreshesKeep ==
  ASSUME StepInv, NEW c \in Calls, End(c), calls[c].pc \notin Visiting, Elsewhere,
         refreshes' \in [Refreshes -> RefreshRow \union {None}], TablesAdvance,
         honoured' \in [Grants \union Tickets -> Nat], caught' \subseteq ClientIds,
         UNCHANGED <<codes, sessions, tickets, raced>>
  PROVE  StepInv' /\ TablesAdvance
<1>0. calls \in [Calls -> CallState]
  BY DEF StepInv, AccessTypeOK
<1>1. calls' \in [Calls -> CallState] /\ OthersStand(c) /\ calls'[c].pc = "idle"
  BY <1>0, EndFields
<1>2. AccessTypeOK'
  BY <1>1 DEF StepInv, AccessTypeOK, Elsewhere
<1>3. CallInStep(calls[c])' /\ UNCHANGED clientVars /\ calls'[c].pc \notin Visiting
  BY <1>1 DEF CallInStep, PastClaim, Visiting, Elsewhere
<1> QED  BY <1>1, <1>2, <1>3, CallKeeps

LEMMA SuccessorFields ==
  ASSUME StepInv, NEW c \in Calls, InsertRefresh(c)
  PROVE  /\ calls[c].grant \in Grants /\ Spent(calls[c].grant) /\ ClientOf(calls[c].grant) \in ClientIds
         /\ \E x \in Refreshes :
              /\ refreshes[x] = None /\ refreshes'[x] \in RefreshRow
              /\ refreshes'[x].client = ClientOf(calls[c].grant)
              /\ refreshes'[x].era = calls[c].era
              /\ \A y \in Refreshes : y # x => refreshes'[y] = refreshes[y]
         /\ refreshes' \in [Refreshes -> RefreshRow \union {None}]
         /\ TablesAdvance
<1>0. /\ refreshes \in [Refreshes -> RefreshRow \union {None}] /\ codes \in [Codes -> CodeRow \union {None}]
      /\ CallInStep(calls[c]) /\ calls[c] \in CallState /\ calls[c].pc = "refresh"
  BY DEF StepInv, AccessTypeOK, InStep, InsertRefresh, At
<1>1. calls[c].grant \in Grants /\ Spent(calls[c].grant)
  BY <1>0 DEF CallInStep, PastClaim
<1>2. ClientOf(calls[c].grant) \in ClientIds
  BY <1>0, <1>1 DEF Spent, ClientOf, Grants, CodeRow, RefreshRow
<1> DEFINE row == [client |-> ClientOf(calls[c].grant), era |-> calls[c].era, used |-> FALSE, revoked |-> FALSE]
<1>3. row \in RefreshRow /\ row.client = ClientOf(calls[c].grant) /\ row.era = calls[c].era
  BY <1>0, <1>2 DEF RefreshRow, CallState
<1>4. PICK x \in Refreshes : refreshes[x] = None /\ refreshes' = [refreshes EXCEPT ![x] = row]
  BY <1>0 DEF InsertRefresh, Insert
<1> HIDE DEF row
<1>5. /\ refreshes' \in [Refreshes -> RefreshRow \union {None}] /\ refreshes'[x] = row
      /\ \A y \in Refreshes : y # x => refreshes'[y] = refreshes[y]
  BY <1>0, <1>3, <1>4
<1>6. TablesAdvance
  BY <1>4, <1>5 DEF TablesAdvance, InsertRefresh
<1> QED  BY <1>1, <1>2, <1>3, <1>4, <1>5, <1>6

LEMMA RefreshesInStep ==
  ASSUME StepInv, NEW c \in Calls, InsertRefresh(c) \/ Reuse(c) \/ RemoveTokens(c)
  PROVE  StepInv' /\ TablesAdvance
<1>0. /\ honoured \in [Grants \union Tickets -> Nat] /\ caught \subseteq ClientIds
      /\ CallInStep(calls[c])
  BY DEF StepInv, AccessTypeOK, InStep
<1>1. CASE InsertRefresh(c)
  <2>1. honoured' \in [Grants \union Tickets -> Nat]
    <3>1. PICK x \in Grants : x = calls[c].grant
      BY <1>1, SuccessorFields
    <3>2. honoured' = [honoured EXCEPT ![x] = @ + 1]
      BY <1>1, <3>1 DEF InsertRefresh, Honour
    <3> QED  BY <1>0, <3>2
  <2>2. caught' \subseteq ClientIds
    BY <1>0, <1>1 DEF InsertRefresh
  <2>3. refreshes' \in [Refreshes -> RefreshRow \union {None}] /\ TablesAdvance
    BY <1>1, SuccessorFields
  <2> QED  BY <1>1, <2>1, <2>2, <2>3, RefreshesKeep DEF InsertRefresh, At, Visiting
<1>2. CASE Reuse(c)
  <2>1. calls[c].client \in ClientIds
    BY <1>0, <1>2 DEF Reuse, At, CallInStep
  <2>2. refreshes' = Revoked(Family(calls[c].client))
    BY <1>2 DEF Reuse, RevokeFamily
  <2>3. refreshes' \in [Refreshes -> RefreshRow \union {None}] /\ TablesAdvance
    BY <1>2, <2>2, RevokedFields DEF Reuse, Family
  <2> QED  BY <1>0, <1>2, <2>1, <2>3, RefreshesKeep DEF Reuse, At, Visiting
<1>3. CASE RemoveTokens(c)
  <2>1. refreshes' \in [Refreshes -> RefreshRow \union {None}] /\ TablesAdvance
    BY <1>3, RevokedFields DEF RemoveTokens, RevokedTokens
  <2> QED  BY <1>0, <1>3, <2>1, RefreshesKeep DEF RemoveTokens, At, Visiting, History
<1> QED  BY <1>1, <1>2, <1>3

(* A visit begins, goes on, or ends with its call.                         *)
LEMMA VisitBegins ==
  ASSUME StepInv, NEW c \in Calls, NEW call \in CallState, call.pc \in {"page", "visit"},
         NEW k \in ClientIds, NEW r \in Redirects, Begin(c, call),
         visits' = [visits EXCEPT ![c] = Visit(k, r)],
         Membership, History, UNCHANGED <<clients, tables>>
  PROVE  StepInv' /\ TablesAdvance
<1> DEFINE visit == Visit(k, r)
<1>0. /\ calls \in [Calls -> CallState] /\ visits \in [Calls -> VisitState]
      /\ raced \in 0..MaxRaces /\ clients \in [ClientIds -> SUBSET Redirects]
  BY DEF StepInv, AccessTypeOK, ClientTypeOK
<1>1. /\ visit \in VisitState /\ visit.pc = "read" /\ visit.client = k /\ visit.redirect = r
  BY DEF Visit, Nowhere, VisitState
<1> HIDE DEF visit
<1>2. /\ visits' \in [Calls -> VisitState] /\ OtherVisits(c) /\ visits'[c] = visit
  BY <1>0, <1>1, VisitFields DEF visit
<1>3. /\ calls' \in [Calls -> CallState] /\ OthersStand(c) /\ calls'[c] = call
      /\ raced' \in 0..MaxRaces
  BY <1>0, BeginFields
<1>4. AccessTypeOK' /\ ClientTypeOK' /\ TablesAdvance
  BY <1>0, <1>2, <1>3, CallsTypeOK DEF ClientTypeOK, Membership, History
<1>5. InStep(c)'
  BY <1>1, <1>2, <1>3 DEF InStep, CallInStep, VisitInStep, Visiting, PastClaim
<1> QED  BY <1>2, <1>3, <1>4, <1>5, StepKeeps

LEMMA LeaveKeeps ==
  ASSUME StepInv, NEW c \in Calls, End(c), Gone(c), Membership, History,
         UNCHANGED tables, raced' \in 0..MaxRaces
  PROVE  StepInv' /\ TablesAdvance
<1>0. /\ calls \in [Calls -> CallState] /\ visits \in [Calls -> VisitState]
      /\ clients \in [ClientIds -> SUBSET Redirects]
  BY DEF StepInv, AccessTypeOK, ClientTypeOK
<1>1. /\ visits' \in [Calls -> VisitState] /\ OtherVisits(c) /\ visits'[c].pc = "idle"
      /\ UNCHANGED clients
  BY <1>0, GoneFields
<1>2. calls' \in [Calls -> CallState] /\ OthersStand(c) /\ calls'[c].pc = "idle"
  BY <1>0, EndFields
<1>3. AccessTypeOK' /\ ClientTypeOK' /\ TablesAdvance
  BY <1>0, <1>1, <1>2, CallsTypeOK DEF ClientTypeOK, Membership, History
<1>4. InStep(c)'
  BY <1>1, <1>2 DEF InStep, CallInStep, VisitInStep, Visiting, PastClaim
<1> QED  BY <1>1, <1>2, <1>3, <1>4, StepKeeps

LEMMA ArrivingInStep ==
  ASSUME StepInv, NEW c \in Calls, Arriving(c)
  PROVE  StepInv' /\ TablesAdvance
<1>0. /\ calls \in [Calls -> CallState] /\ raced \in 0..MaxRaces /\ InStep(c)
      /\ Membership /\ History /\ UNCHANGED <<tables, raced>>
  BY DEF StepInv, AccessTypeOK, Arriving
<1>1. VisitGoesOn(c) /\ visits[c].pc \in VisitPcs \ {"valid"}
  BY VisitStepFields DEF Arriving
<1>2. /\ calls[c].pc \in {"page", "visit"}
      /\ visits[c].client \in ClientIds /\ visits[c].redirect \in Redirects
  BY <1>0, <1>1 DEF InStep, VisitInStep, VisitPcs, Visiting
<1>3. /\ calls' \in [Calls -> CallState] /\ OthersStand(c)
      /\ \/ visits'[c] = Nowhere /\ calls'[c].pc = "idle"
         \/ visits'[c] # Nowhere /\ calls'[c] = calls[c]
  BY <1>0, EndFields DEF Arriving, OthersStand
<1>4. AccessTypeOK' /\ ClientTypeOK' /\ TablesAdvance
  BY <1>0, <1>1, <1>3, CallsTypeOK DEF ClientTypeOK, Membership, History, VisitGoesOn
<1>5. CASE visits'[c] = Nowhere
  <2>1. InStep(c)'
    BY <1>3, <1>5, IdleFields DEF InStep, CallInStep, VisitInStep, Visiting, PastClaim
  <2> QED  BY <1>1, <1>3, <1>4, <2>1, StepKeeps DEF VisitGoesOn
<1>6. CASE visits'[c] # Nowhere
  <2>1. calls'[c] = calls[c] /\ SameVisit(c)
        /\ (visits'[c].pc = "fetch" => visits[c].client \in DOMAIN Documents)
    BY <1>1, <1>3, <1>6 DEF VisitGoesOn
  <2>2. VisitInStep(visits[c])'
    BY <1>2, <2>1 DEF VisitInStep, SameVisit
  <2>3. CallInStep(calls[c])'
    BY <1>2, <2>1 DEF CallInStep, PastClaim
  <2>4. InStep(c)'
    BY <1>2, <2>1, <2>2, <2>3 DEF InStep, Visiting
  <2> QED  BY <1>1, <1>3, <1>4, <2>4, StepKeeps DEF VisitGoesOn
<1> QED  BY <1>5, <1>6

(* The rest of POST /oauth/authorize, up to the code.                      *)
LEMMA AuthorizingInStep ==
  ASSUME StepInv, NEW c \in Calls, SignIn(c) \/ AuthorizeCheck(c)
  PROVE  StepInv' /\ TablesAdvance
<1>0. /\ calls \in [Calls -> CallState] /\ raced \in 0..MaxRaces /\ InStep(c) /\ era \in Era
      /\ Membership /\ History /\ UNCHANGED <<tables, raced>>
  BY DEF StepInv, AccessTypeOK, SignIn, AuthorizeCheck
<1>1. CASE End(c) /\ Gone(c)
  BY <1>0, <1>1, LeaveKeeps
<1>2. CASE /\ \/ calls' = [calls EXCEPT ![c].pc = "check", ![c].era = era]
              \/ Goto(c, "code")
           /\ UNCHANGED clientVars
  <2>1. /\ calls' \in [Calls -> CallState] /\ OthersStand(c) /\ calls'[c].pc \in {"check", "code"}
    BY <1>0, <1>2, GotoFields, DatedFields DEF CallPcs
  <2>2. visits[c].pc = "valid"
    BY <1>0 DEF SignIn, AuthorizeCheck, InStep, VisitAt, At
  <2>3. AccessTypeOK' /\ ClientTypeOK' /\ TablesAdvance
    BY <1>0, <1>2, <2>1, CallsTypeOK DEF StepInv, ClientTypeOK, clientVars, Membership, History
  <2>4. InStep(c)'
    BY <1>0, <1>2, <2>1, <2>2 DEF InStep, CallInStep, VisitInStep, Visiting, PastClaim, clientVars
  <2>5. OtherVisits(c)
    BY <1>2 DEF OtherVisits, clientVars
  <2> QED  BY <2>1, <2>3, <2>4, <2>5, StepKeeps
<1> QED  BY <1>1, <1>2 DEF SignIn, AuthorizeCheck

LEMMA NewCodeFields ==
  ASSUME StepInv, NEW c \in Calls, InsertCode(c)
  PROVE  /\ visits[c].pc = "valid"
         /\ \E x \in Codes :
              /\ codes[x] = None /\ codes'[x].client = Client(c) /\ codes'[x].redirect = Redirect(c)
              /\ \A y \in Codes : y # x => codes'[y] = codes[y]
         /\ codes' \in [Codes -> CodeRow \union {None}]
         /\ TablesAdvance
<1>0. /\ codes \in [Codes -> CodeRow \union {None}] /\ calls[c] \in CallState
      /\ visits[c].pc = "valid" /\ visits[c].client \in ClientIds /\ visits[c].redirect \in Redirects
  BY DEF StepInv, AccessTypeOK, InStep, InsertCode, At, VisitInStep
<1> DEFINE row == [client |-> Client(c), redirect |-> Redirect(c),
                   era |-> calls[c].era, used |-> FALSE, late |-> FALSE]
<1>1. row \in CodeRow /\ row.client = Client(c) /\ row.redirect = Redirect(c)
  BY <1>0 DEF CodeRow, CallState, Client, Redirect
<1>2. PICK x \in Codes : codes[x] = None /\ codes' = [codes EXCEPT ![x] = row]
  BY <1>0 DEF InsertCode, Insert
<1> HIDE DEF row
<1>3. /\ codes' \in [Codes -> CodeRow \union {None}] /\ codes'[x] = row
      /\ \A y \in Codes : y # x => codes'[y] = codes[y]
  BY <1>0, <1>1, <1>2
<1>4. TablesAdvance
  BY <1>2, <1>3 DEF TablesAdvance, InsertCode
<1> QED  BY <1>0, <1>1, <1>2, <1>3, <1>4

LEMMA CodeInStep ==
  ASSUME StepInv, NEW c \in Calls, InsertCode(c)
  PROVE  StepInv' /\ TablesAdvance
<1>0. calls \in [Calls -> CallState] /\ visits \in [Calls -> VisitState]
  BY DEF StepInv, AccessTypeOK, ClientTypeOK
<1>1. calls' \in [Calls -> CallState] /\ OthersStand(c) /\ calls'[c].pc = "prior"
  BY <1>0, GotoFields DEF CallPcs, InsertCode
<1>2. /\ visits' \in [Calls -> VisitState] /\ OtherVisits(c) /\ visits'[c].pc = "idle"
      /\ UNCHANGED clients
  BY <1>0, GoneFields DEF InsertCode
<1>3. AccessTypeOK' /\ ClientTypeOK' /\ TablesAdvance
  BY <1>1, <1>2, NewCodeFields DEF StepInv, AccessTypeOK, ClientTypeOK, InsertCode, Membership, History
<1>4. InStep(c)'
  BY <1>1, <1>2 DEF InStep, CallInStep, VisitInStep, Visiting, PastClaim
<1> QED  BY <1>1, <1>2, <1>3, <1>4, StepKeeps

LEMMA VisitsInStep ==
  ASSUME StepInv, NEW c \in Calls, AuthorizeRoute(c) \/ ShowPage(c) \/ Fail(c)
  PROVE  StepInv' /\ TablesAdvance
<1>0. calls \in [Calls -> CallState] /\ raced \in 0..MaxRaces /\ MaxRaces \in Nat
  BY AccessAssumption DEF StepInv, AccessTypeOK
<1>1. ASSUME NEW k \in ClientIds, NEW r \in Redirects, BeginPage(c, k, r)
      PROVE  StepInv' /\ TablesAdvance
  <2> DEFINE call == [IdleCall EXCEPT !.pc = "page"]
  <2>1. call \in CallState /\ call.pc = "page" /\ Begin(c, call)
    BY <1>1, IdleFields DEF CallState, BeginPage
  <2> HIDE DEF call
  <2> QED  BY <1>1, <2>1, VisitBegins DEF BeginPage
<1>2. ASSUME NEW k \in ClientIds, NEW r \in Redirects, NEW p \in Sessions \union {None},
             BeginAuthorize(c, k, r, p)
      PROVE  StepInv' /\ TablesAdvance
  <2> DEFINE call == [IdleCall EXCEPT !.pc = "visit", !.prior = p]
  <2>1. call \in CallState /\ call.pc = "visit" /\ Begin(c, call)
    BY <1>2, IdleFields DEF CallState, BeginAuthorize
  <2> HIDE DEF call
  <2> QED  BY <1>2, <2>1, VisitBegins DEF BeginAuthorize
<1>3. CASE ShowPage(c)
  BY <1>0, <1>3, LeaveKeeps DEF ShowPage
<1>4. CASE Fail(c)
  BY <1>0, <1>4, LeaveKeeps DEF Fail
<1> QED  BY <1>1, <1>2, <1>3, <1>4 DEF AuthorizeRoute

-----------------------------------------------------------------------------
(* Steps that are no call's: revocation, tickets, expiry, registration of  *)
(* a client, and the user's return.                                        *)
LEMMA RevocationInStep ==
  ASSUME StepInv, RevokeRoute
  PROVE  StepInv' /\ TablesAdvance
<1>1. ASSUME NEW x \in Refreshes, RevokeRefresh(x)  PROVE StepInv' /\ TablesAdvance
  <2> DEFINE row == [refreshes[x] EXCEPT !.revoked = TRUE]
  <2>0. refreshes \in [Refreshes -> RefreshRow \union {None}] /\ refreshes[x] \in RefreshRow
    BY <1>1 DEF StepInv, AccessTypeOK, RevokeRefresh
  <2>1. /\ row \in RefreshRow /\ row.client = refreshes[x].client /\ row.era = refreshes[x].era
        /\ row.used = refreshes[x].used /\ row.revoked = TRUE
    BY <2>0 DEF RefreshRow
  <2>2. refreshes' = [refreshes EXCEPT ![x] = row]
    BY <1>1 DEF RevokeRefresh
  <2> HIDE DEF row
  <2>3. refreshes' \in [Refreshes -> RefreshRow \union {None}] /\ TablesAdvance
    BY <1>1, <2>0, <2>1, <2>2, RowAssumption DEF TablesAdvance, RevokeRefresh
  <2>4. AccessTypeOK' /\ ClientTypeOK'
    BY <1>1, <2>3 DEF StepInv, AccessTypeOK, ClientTypeOK, RevokeRefresh, Elsewhere, History, clientVars
  <2> QED  BY <1>1, <2>3, <2>4, EnvironmentKeeps DEF RevokeRefresh, Elsewhere, clientVars
<1>2. ASSUME NEW x \in Sessions, RevokeSession(x)  PROVE StepInv' /\ TablesAdvance
  <2>1. AccessTypeOK' /\ ClientTypeOK' /\ TablesAdvance
    BY <1>2 DEF StepInv, AccessTypeOK, ClientTypeOK, RevokeSession, Without, Elsewhere, History, clientVars, TablesAdvance
  <2> QED  BY <1>2, <2>1, EnvironmentKeeps DEF RevokeSession, Elsewhere, clientVars
<1> QED  BY <1>1, <1>2 DEF RevokeRoute

LEMMA TicketWrite ==
  ASSUME StepInv, NEW x \in Tickets, NEW row \in TicketRow, tickets' = [tickets EXCEPT ![x] = row],
         tickets[x] # None => (tickets[x].consumed => row.consumed),
         UNCHANGED <<codes, refreshes, sessions, calls, raced, caught>>, Elsewhere,
         honoured' \in [Grants \union Tickets -> Nat]
  PROVE  StepInv' /\ TablesAdvance
<1>1. tickets' \in [Tickets -> TicketRow \union {None}] /\ TablesAdvance
  BY RowAssumption DEF StepInv, AccessTypeOK, TablesAdvance
<1>2. AccessTypeOK' /\ ClientTypeOK'
  BY <1>1 DEF StepInv, AccessTypeOK, ClientTypeOK, Elsewhere, clientVars
<1> QED  BY <1>1, <1>2, EnvironmentKeeps DEF Elsewhere, clientVars

LEMMA TicketsInStep ==
  ASSUME StepInv, TicketRoute \/ StreamRoute \/ \E x \in Tickets : ExpireTicket(x)
  PROVE  StepInv' /\ TablesAdvance
<1>0. /\ tickets \in [Tickets -> TicketRow \union {None}]
      /\ sessions \in [Sessions -> SessionRow \union {None}]
      /\ honoured \in [Grants \union Tickets -> Nat]
  BY DEF StepInv, AccessTypeOK
<1>1. ASSUME NEW s \in Sessions, CreateTicket(s)  PROVE StepInv' /\ TablesAdvance
  <2> DEFINE row == [era |-> sessions[s].era, consumed |-> FALSE, late |-> FALSE]
  <2>1. row \in TicketRow
    BY <1>0, <1>1 DEF CreateTicket, UsableApi, TicketRow, SessionRow
  <2>2. PICK x \in Tickets : tickets[x] = None /\ tickets' = [tickets EXCEPT ![x] = row]
    BY <1>0, <1>1 DEF CreateTicket, Insert
  <2> HIDE DEF row
  <2> QED  BY <1>0, <1>1, <2>1, <2>2, TicketWrite DEF CreateTicket, History
<1>2. ASSUME NEW x \in Tickets, ConsumeTicket(x)  PROVE StepInv' /\ TablesAdvance
  <2> DEFINE row == [tickets[x] EXCEPT !.consumed = TRUE]
  <2>1. row \in TicketRow /\ row.consumed = TRUE
    BY <1>0, <1>2 DEF ConsumeTicket, TicketRow
  <2>2. tickets' = [tickets EXCEPT ![x] = row]
    BY <1>2 DEF ConsumeTicket
  <2> HIDE DEF row
  <2>3. honoured' \in [Grants \union Tickets -> Nat]
    BY <1>0, <1>2 DEF ConsumeTicket, Honour
  <2> QED  BY <1>0, <1>2, <2>1, <2>2, <2>3, TicketWrite DEF ConsumeTicket
<1>3. ASSUME NEW x \in Tickets, ExpireTicket(x)  PROVE StepInv' /\ TablesAdvance
  <2> DEFINE row == [tickets[x] EXCEPT !.late = TRUE]
  <2>1. row \in TicketRow
    BY <1>0, <1>3 DEF ExpireTicket, TicketRow
  <2>2. tickets' = [tickets EXCEPT ![x] = row] /\ ~tickets[x].consumed
    BY <1>3 DEF ExpireTicket
  <2> HIDE DEF row
  <2> QED  BY <1>0, <1>3, <2>1, <2>2, TicketWrite DEF ExpireTicket, History
<1> QED  BY <1>1, <1>2, <1>3 DEF TicketRoute, StreamRoute

LEMMA ExpiryInStep ==
  ASSUME StepInv, NEW x \in Codes, ExpireCode(x)
  PROVE  StepInv' /\ TablesAdvance
<1> DEFINE row == [codes[x] EXCEPT !.late = TRUE]
<1>0. codes \in [Codes -> CodeRow \union {None}] /\ codes[x] \in CodeRow
  BY DEF StepInv, AccessTypeOK, ExpireCode, UsableCode
<1>1. /\ row \in CodeRow /\ row.late = TRUE /\ row.used = codes[x].used
      /\ row.client = codes[x].client /\ row.redirect = codes[x].redirect
  BY <1>0 DEF CodeRow
<1>2. codes' = [codes EXCEPT ![x] = row]
  BY DEF ExpireCode
<1> HIDE DEF row
<1>3. codes' \in [Codes -> CodeRow \union {None}] /\ TablesAdvance
  BY <1>0, <1>1, <1>2, RowAssumption DEF TablesAdvance, ExpireCode
<1>4. AccessTypeOK' /\ ClientTypeOK'
  BY <1>3 DEF StepInv, AccessTypeOK, ClientTypeOK, ExpireCode, Elsewhere, History, clientVars
<1> QED  BY <1>3, <1>4, EnvironmentKeeps DEF ExpireCode, Elsewhere, clientVars

LEMMA ClientsInStep ==
  ASSUME StepInv, NEW k \in ClientIds, NEW list \in SUBSET Redirects, NewClient(k, list)
  PROVE  StepInv' /\ TablesAdvance
<1>1. AccessTypeOK' /\ ClientTypeOK' /\ TablesAdvance
  BY TablesStand DEF StepInv, AccessTypeOK, ClientTypeOK, NewClient, RegisterClient, Membership, History, tables
<1> QED  BY <1>1, EnvironmentKeeps DEF NewClient, RegisterClient

LEMMA ReturnInStep ==
  ASSUME StepInv, Rejoin
  PROVE  StepInv' /\ TablesAdvance
<1>0. era \in Nat /\ MaxEra \in Nat /\ MaxRaces \in Nat
  BY AccessAssumption DEF StepInv, AccessTypeOK, Era
<1>1. AccessTypeOK' /\ ClientTypeOK' /\ TablesAdvance
  BY <1>0, TablesStand DEF StepInv, AccessTypeOK, ClientTypeOK, Rejoin, Era, CountRace, History, tables, clientVars
<1> QED  BY <1>1, EnvironmentKeeps DEF Rejoin, clientVars

LEMMA NextStepInv ==
  ASSUME StepInv, AccessNext
  PROVE  StepInv' /\ TablesAdvance
<1>1. ASSUME NEW c \in Calls,
             \/ AuthorizeRoute(c) \/ Arriving(c) \/ ShowPage(c) \/ SignIn(c)
             \/ AuthorizeCheck(c) \/ InsertCode(c) \/ RevokePrior(c) \/ MintHuman(c)
             \/ TokenRoute(c) \/ BeginLogin(c) \/ SelectRoute(c) \/ ReviewRoute(c)
             \/ Claim(c) \/ CheckMember(c) \/ Recheck(c) \/ InsertSession(c) \/ InsertRefresh(c)
             \/ Reuse(c)
             \/ BeginRemove(c) \/ RemoveSessions(c) \/ RemoveTokens(c)
             \/ Fail(c)
      PROVE  StepInv' /\ TablesAdvance
  BY <1>1, VisitsInStep, ArrivingInStep, AuthorizingInStep, CodeInStep, SessionsInStep,
     BeginsInStep, ClaimInStep, ChecksInStep, RefreshesInStep, RemoveInStep
<1> QED  BY <1>1, RevocationInStep, TicketsInStep, ExpiryInStep, ClientsInStep, ReturnInStep
         DEF AccessNext

LEMMA InitStepInv ==
  ASSUME AccessInit
  PROVE  StepInv
<1>0. MaxRaces \in Nat /\ MaxEra \in Nat \ {0}
  BY AccessAssumption
<1>1. ClientTypeOK
  BY IdleFields, ClientAssumption DEF AccessInit, ClientTypeOK
<1>2. AccessTypeOK
  BY <1>0, IdleFields DEF AccessInit, AccessTypeOK, Arrivals, Tokens, Era
<1>3. \A c \in Calls : InStep(c)
  BY IdleFields DEF AccessInit, InStep, CallInStep, VisitInStep, PastClaim
<1> QED  BY <1>1, <1>2, <1>3 DEF StepInv

(* A step that changes nothing.                                            *)
LEMMA StutterStepInv ==
  ASSUME StepInv, UNCHANGED accessVars
  PROVE  StepInv' /\ TablesAdvance
<1>1. AccessTypeOK' /\ ClientTypeOK' /\ TablesAdvance
  BY TablesStand DEF StepInv, AccessTypeOK, ClientTypeOK, accessVars, tables, clientVars
<1> QED  BY <1>1, EnvironmentKeeps DEF accessVars, clientVars

LEMMA StepInvariance == AccessSpec => []StepInv
<1>1. StepInv /\ [AccessNext]_accessVars => StepInv'
  BY NextStepInv, StutterStepInv
<1> QED  BY <1>1, InitStepInv, PTL DEF AccessSpec

(* The tables, the calls in flight and the history keep their types.       *)
THEOREM AccessTypeCorrect == AccessSpec => [](AccessTypeOK /\ ClientTypeOK)
<1>1. StepInv => AccessTypeOK /\ ClientTypeOK
  BY DEF StepInv
<1> QED  BY <1>1, StepInvariance, PTL

-----------------------------------------------------------------------------
(* Most steps make no call a spender, no grant honoured and no token.      *)
SpendersStay == \A x \in Calls : Spender(x)' => Spender(x) /\ calls'[x].grant = calls[x].grant
NoNewToken == \A x \in Refreshes : refreshes'[x] # None => refreshes[x] # None
Calm == History /\ SpendersStay /\ NoNewToken

LEMMA SpendersStayBy ==
  ASSUME StepInv, NEW c \in Calls,
         \/ End(c)
         \/ \E pc \in CallPcs : Goto(c, pc) /\ (pc \in PastClaim => calls[c].pc \in PastClaim)
         \/ \E pc \in CallPcs, e \in Era :
              /\ calls' = [calls EXCEPT ![c].pc = pc, ![c].era = e]
              /\ pc \in PastClaim => calls[c].pc \in PastClaim
         \/ \E call \in CallState : Begin(c, call) /\ (call.pc \in PastClaim => call.grant = Login)
  PROVE  SpendersStay
<1>0. calls \in [Calls -> CallState] /\ raced \in 0..MaxRaces
  BY DEF StepInv, AccessTypeOK
<1>1. CASE End(c)
  BY <1>0, <1>1, EndFields DEF SpendersStay, Spender, OthersStand, PastClaim
<1>2. ASSUME NEW pc \in CallPcs, Goto(c, pc), pc \in PastClaim => calls[c].pc \in PastClaim
      PROVE  SpendersStay
  <2>1. OthersStand(c) /\ Kept(c) /\ calls'[c].pc = pc
    BY <1>0, <1>2, GotoFields
  <2> QED  BY <1>2, <2>1 DEF SpendersStay, Spender, OthersStand, Kept
<1>3. ASSUME NEW pc \in CallPcs, NEW e \in Era, calls' = [calls EXCEPT ![c].pc = pc, ![c].era = e],
             pc \in PastClaim => calls[c].pc \in PastClaim
      PROVE  SpendersStay
  <2>1. OthersStand(c) /\ Kept(c) /\ calls'[c].pc = pc
    BY <1>0, <1>3, DatedFields
  <2> QED  BY <1>3, <2>1 DEF SpendersStay, Spender, OthersStand, Kept
<1>4. ASSUME NEW call \in CallState, Begin(c, call), call.pc \in PastClaim => call.grant = Login
      PROVE  SpendersStay
  <2>1. OthersStand(c) /\ calls'[c] = call
    BY <1>0, <1>4, BeginFields
  <2> QED  BY <1>4, <2>1, LoginAssumption DEF SpendersStay, Spender, OthersStand
<1> QED  BY <1>1, <1>2, <1>3, <1>4

LEMMA CallsCalm ==
  ASSUME StepInv, NEW c \in Calls,
         \/ AuthorizeRoute(c) \/ Arriving(c) \/ ShowPage(c) \/ SignIn(c)
         \/ AuthorizeCheck(c) \/ InsertCode(c) \/ RevokePrior(c) \/ MintHuman(c)
         \/ TokenRoute(c) \/ BeginLogin(c) \/ SelectRoute(c) \/ ReviewRoute(c)
         \/ CheckMember(c) \/ Recheck(c) \/ InsertSession(c)
         \/ BeginRemove(c) \/ RemoveSessions(c) \/ RemoveTokens(c)
         \/ Fail(c)
  PROVE  Calm
<1>0. era \in Era
  BY DEF StepInv, AccessTypeOK
<1>1. CASE RemoveTokens(c)
  <2>1. NoNewToken
    BY <1>1, RevokedFields DEF RemoveTokens, RevokedTokens, NoNewToken
  <2> QED  BY <1>1, <2>1, SpendersStayBy DEF Calm, RemoveTokens
<1>2. ASSUME NEW call \in CallState, Begin(c, call), call.pc \in PastClaim => call.grant = Login,
             History, UNCHANGED refreshes
      PROVE  Calm
  BY <1>2, SpendersStayBy DEF Calm, NoNewToken
<1>3. CASE TokenRoute(c)
  <2>1. ASSUME NEW x \in Grants,
               Begin(c, [IdleCall EXCEPT !.pc = "claim", !.grant = x]), History, UNCHANGED refreshes
        PROVE  Calm
    <3>1. [IdleCall EXCEPT !.pc = "claim", !.grant = x] \in CallState
      BY IdleFields DEF CallState
    <3>2. [IdleCall EXCEPT !.pc = "claim", !.grant = x].pc \notin PastClaim
      BY DEF IdleCall, PastClaim
    <3> QED  BY <1>2, <2>1, <3>1, <3>2
  <2>2. ASSUME NEW x \in Grants, NEW k \in ClientIds,
               Begin(c, [IdleCall EXCEPT !.pc = "reuse", !.grant = x, !.client = k]), History, UNCHANGED refreshes
        PROVE  Calm
    <3>1. [IdleCall EXCEPT !.pc = "reuse", !.grant = x, !.client = k] \in CallState
      BY IdleFields DEF CallState
    <3>2. [IdleCall EXCEPT !.pc = "reuse", !.grant = x, !.client = k].pc \notin PastClaim
      BY DEF IdleCall, PastClaim
    <3> QED  BY <1>2, <2>2, <3>1, <3>2
  <2> QED  BY <1>3, <2>1, <2>2 DEF TokenRoute, BeginExchange, BeginRefresh, BeginReuse, tables, Grants
<1>4. CASE BeginLogin(c) \/ SelectRoute(c)
  <2>1. [IdleCall EXCEPT !.pc = "recheck", !.grant = Login] \in CallState
    BY IdleFields DEF CallState
  <2>2. [IdleCall EXCEPT !.pc = "recheck", !.grant = Login].grant = Login
    BY DEF IdleCall
  <2> QED  BY <1>2, <1>4, <2>1, <2>2 DEF BeginLogin, SelectRoute, BeginSelect, tables
<1>5. CASE ReviewRoute(c)
  <2>1. PICK p \in Sessions \union {None} : BeginReviewSignIn(c, p)
    BY <1>5 DEF ReviewRoute
  <2>2. [IdleCall EXCEPT !.pc = "prior", !.prior = p, !.era = era] \in CallState
    BY <1>0, IdleFields DEF CallState
  <2>3. [IdleCall EXCEPT !.pc = "prior", !.prior = p, !.era = era].pc \notin PastClaim
    BY DEF IdleCall, PastClaim
  <2> QED  BY <1>2, <2>1, <2>2, <2>3 DEF BeginReviewSignIn, tables
<1>6. CASE AuthorizeRoute(c)
  <2>1. ASSUME NEW k \in ClientIds, NEW r \in Redirects, BeginPage(c, k, r)  PROVE Calm
    <3>1. [IdleCall EXCEPT !.pc = "page"] \in CallState
      BY IdleFields DEF CallState
    <3>2. [IdleCall EXCEPT !.pc = "page"].pc \notin PastClaim
      BY DEF IdleCall, PastClaim
    <3> QED  BY <1>2, <2>1, <3>1, <3>2 DEF BeginPage, tables
  <2>2. ASSUME NEW k \in ClientIds, NEW r \in Redirects, NEW p \in Sessions \union {None},
               BeginAuthorize(c, k, r, p)
        PROVE  Calm
    <3>1. [IdleCall EXCEPT !.pc = "visit", !.prior = p] \in CallState
      BY IdleFields DEF CallState
    <3>2. [IdleCall EXCEPT !.pc = "visit", !.prior = p].pc \notin PastClaim
      BY DEF IdleCall, PastClaim
    <3> QED  BY <1>2, <2>2, <3>1, <3>2 DEF BeginAuthorize, tables
  <2> QED  BY <1>6, <2>1, <2>2 DEF AuthorizeRoute
<1>7. CASE BeginRemove(c)
  <2>1. [IdleCall EXCEPT !.pc = "removeSessions"] \in CallState
    BY IdleFields DEF CallState
  <2>2. [IdleCall EXCEPT !.pc = "removeSessions"].pc \notin PastClaim
    BY DEF IdleCall, PastClaim
  <2> QED  BY <1>2, <1>7, <2>1, <2>2 DEF BeginRemove, tables
<1>8. CASE Arriving(c)
  <2>1. SpendersStay
    <3>1. CASE End(c)
      BY <3>1, SpendersStayBy
    <3>2. CASE UNCHANGED calls
      BY <3>2 DEF SpendersStay, Spender
    <3> QED  BY <1>8, <3>1, <3>2 DEF Arriving
  <2> QED  BY <1>8, <2>1 DEF Arriving, Calm, NoNewToken, tables
<1>9. CASE SignIn(c) \/ Recheck(c)
  <2>1. "check" \in CallPcs /\ "session" \in CallPcs /\ "check" \notin PastClaim /\ "recheck" \in PastClaim
    BY DEF CallPcs, PastClaim
  <2>2. \/ End(c)
        \/ calls' = [calls EXCEPT ![c].pc = "check", ![c].era = era]
        \/ calls' = [calls EXCEPT ![c].pc = "session", ![c].era = era] /\ calls[c].pc = "recheck"
    BY <1>9 DEF SignIn, Recheck, At
  <2>3. SpendersStay
    BY <1>0, <2>1, <2>2, SpendersStayBy
  <2> QED  BY <1>9, <2>3 DEF SignIn, Recheck, Calm, NoNewToken, tables
<1>10. CASE ShowPage(c) \/ AuthorizeCheck(c) \/ InsertCode(c) \/ RevokePrior(c) \/ MintHuman(c)
            \/ CheckMember(c) \/ InsertSession(c) \/ RemoveSessions(c) \/ Fail(c)
  <2>1. \/ End(c)
        \/ \E pc \in CallPcs : Goto(c, pc) /\ (pc \in PastClaim => calls[c].pc \in PastClaim)
    BY <1>10 DEF ShowPage, AuthorizeCheck, InsertCode, RevokePrior, MintHuman, CheckMember,
                 InsertSession, RemoveSessions, Fail, At, CallPcs, PastClaim
  <2>2. SpendersStay
    BY <2>1, SpendersStayBy
  <2>3. UNCHANGED refreshes /\ History
    BY <1>10 DEF ShowPage, AuthorizeCheck, InsertCode, RevokePrior, MintHuman, CheckMember,
                 InsertSession, RemoveSessions, Fail, tables
  <2> QED  BY <2>2, <2>3 DEF Calm, NoNewToken
<1> QED  BY <1>1, <1>3, <1>4, <1>5, <1>6, <1>7, <1>8, <1>9, <1>10

LEMMA CalmOrNot ==
  ASSUME StepInv, AccessNext
  PROVE  \/ Calm
         \/ \E c \in Calls : Claim(c) \/ InsertRefresh(c) \/ Reuse(c)
         \/ \E x \in Tickets : ConsumeTicket(x)
<1>0. UNCHANGED calls => SpendersStay
  BY DEF SpendersStay, Spender
<1>1. RevokeRoute => Calm
  <2>1. ASSUME NEW x \in Refreshes, RevokeRefresh(x)  PROVE Calm
    <3>1. NoNewToken
      BY <2>1 DEF RevokeRefresh, NoNewToken, StepInv, AccessTypeOK
    <3> QED  BY <1>0, <2>1, <3>1 DEF RevokeRefresh, Calm
  <2>2. ASSUME NEW x \in Sessions, RevokeSession(x)  PROVE Calm
    BY <1>0, <2>2 DEF RevokeSession, Calm, NoNewToken
  <2> QED  BY <2>1, <2>2 DEF RevokeRoute
<1>2. TicketRoute => Calm
  BY <1>0 DEF TicketRoute, CreateTicket, Calm, NoNewToken
<1>3. ASSUME NEW x \in Tickets, ExpireTicket(x)  PROVE Calm
  BY <1>0, <1>3 DEF ExpireTicket, Calm, NoNewToken
<1>4. ASSUME NEW x \in Codes, ExpireCode(x)  PROVE Calm
  BY <1>0, <1>4 DEF ExpireCode, Calm, NoNewToken
<1>5. ASSUME NEW k \in ClientIds, NEW list \in SUBSET Redirects, NewClient(k, list)  PROVE Calm
  BY <1>0, <1>5 DEF NewClient, Calm, NoNewToken, tables
<1>6. Rejoin => Calm
  BY <1>0 DEF Rejoin, Calm, NoNewToken, tables
<1> QED  BY <1>1, <1>2, <1>3, <1>4, <1>5, <1>6, CallsCalm DEF AccessNext, StreamRoute

-----------------------------------------------------------------------------
(* However many exchanges and refreshes overlap, a grant is honoured once. *)
LEMMA NextSpentInv ==
  ASSUME StepInv, SpentInv, AccessNext
  PROVE  SpentInv'
<1>0. TablesAdvance /\ StepInv'
  BY NextStepInv
<1>t. /\ honoured \in [Grants \union Tickets -> Nat] /\ calls \in [Calls -> CallState]
      /\ refreshes \in [Refreshes -> RefreshRow \union {None}]
  BY DEF StepInv, AccessTypeOK
<1>s. \A x \in Grants : Spent(x) => Spent(x)'
  BY <1>0 DEF TablesAdvance, Spent, Grants
<1>1. ASSUME UNCHANGED honoured, SpendersStay  PROVE SpentInv'
  <2>1. (\A x \in Grants : honoured[x] <= 1 /\ (honoured[x] > 0 => Spent(x)))'
    BY <1>s, <1>1 DEF SpentInv
  <2>2. (\A c \in Calls : Spender(c) => honoured[calls[c].grant] = 0)'
    BY <1>1 DEF SpentInv, SpendersStay
  <2>3. (\A c1, c2 \in Calls : Spender(c1) /\ Spender(c2) /\ calls[c1].grant = calls[c2].grant => c1 = c2)'
    BY <1>1 DEF SpentInv, SpendersStay
  <2>4. (\A x \in Tickets : honoured[x] <= 1 /\ (honoured[x] > 0 => tickets[x] # None /\ tickets[x].consumed))'
    BY <1>0, <1>1 DEF SpentInv, TablesAdvance
  <2> QED  BY <2>1, <2>2, <2>3, <2>4 DEF SpentInv
<1>2. ASSUME NEW c \in Calls, Reuse(c)  PROVE SpentInv'
  BY <1>1, <1>2, SpendersStayBy DEF Reuse
<1>3. ASSUME NEW c \in Calls, Claim(c)  PROVE SpentInv'
  <2>1. CASE ~Unspent(calls[c].grant)
    BY <1>1, <1>3, <2>1, SpendersStayBy DEF Claim, History
  <2>2. CASE Unspent(calls[c].grant)
    <3>1. PICK x \in Grants : x = calls[c].grant
      BY <1>3 DEF Claim, At, StepInv, InStep, CallInStep
    <3>2. OthersStand(c) /\ calls'[c].pc = "member" /\ calls'[c].grant = x
      BY <1>t, <1>3, <2>2, <3>1, GotoFields DEF Claim, CallPcs, Kept
    <3>3. ~Spent(x) /\ UNCHANGED <<honoured, tickets>>
      BY <1>3, <2>2, <3>1 DEF Claim, Unspent, Spent, UsableRefresh, History
    <3>4. honoured[x] = 0
      BY <1>t, <3>3 DEF SpentInv
    <3>5. \A y \in Calls : y # c => (Spender(y)' <=> Spender(y)) /\ calls'[y] = calls[y]
      BY <3>2 DEF OthersStand, Spender
    <3>6. \A y \in Calls : Spender(y) => calls[y].grant # x
      BY <3>3 DEF Spender, StepInv, InStep, CallInStep
    <3>7. (\A y \in Calls : Spender(y) => honoured[calls[y].grant] = 0)'
      BY <3>2, <3>3, <3>4, <3>5 DEF SpentInv
    <3>8. (\A c1, c2 \in Calls : Spender(c1) /\ Spender(c2) /\ calls[c1].grant = calls[c2].grant => c1 = c2)'
      BY <3>2, <3>5, <3>6 DEF SpentInv
    <3>9. (\A y \in Grants : honoured[y] <= 1 /\ (honoured[y] > 0 => Spent(y)))'
      BY <1>s, <3>3 DEF SpentInv
    <3> QED  BY <3>3, <3>7, <3>8, <3>9 DEF SpentInv
  <2> QED  BY <2>1, <2>2
<1>4. ASSUME NEW c \in Calls, InsertRefresh(c)  PROVE SpentInv'
  <2>1. PICK x \in Grants : x = calls[c].grant
    BY <1>4, SuccessorFields
  <2>2. Spender(c)
    BY <1>4, <2>1 DEF Spender, InsertRefresh, At, PastClaim
  <2>3. /\ honoured' = [honoured EXCEPT ![x] = @ + 1] /\ honoured[x] = 0 /\ Spent(x)
        /\ UNCHANGED tickets /\ SpendersStay
    BY <1>4, <2>1, <2>2, SuccessorFields, SpendersStayBy DEF InsertRefresh, Honour, SpentInv
  <2>4. /\ honoured'[x] = 1
        /\ \A y \in Grants \union Tickets : y # x => honoured'[y] = honoured[y]
    BY <1>t, <2>3
  <2>5. ~Spender(c)'
    BY <1>t, <1>4, EndFields DEF InsertRefresh, Spender, PastClaim
  <2>6. \A y \in Calls : Spender(y)' => /\ y # c /\ Spender(y)
                                        /\ calls'[y].grant = calls[y].grant /\ calls[y].grant # x
    BY <2>1, <2>2, <2>3, <2>5 DEF SpendersStay, SpentInv
  <2>7. (\A y \in Calls : Spender(y) => honoured[calls[y].grant] = 0)'
    BY <2>4, <2>6 DEF SpentInv, Spender
  <2>8. (\A c1, c2 \in Calls : Spender(c1) /\ Spender(c2) /\ calls[c1].grant = calls[c2].grant => c1 = c2)'
    BY <2>6 DEF SpentInv
  <2>9. (\A y \in Grants : honoured[y] <= 1 /\ (honoured[y] > 0 => Spent(y)))'
    BY <1>s, <2>3, <2>4 DEF SpentInv
  <2>10. (\A y \in Tickets : honoured[y] <= 1 /\ (honoured[y] > 0 => tickets[y] # None /\ tickets[y].consumed))'
    BY <2>3, <2>4, TablesAssumption DEF SpentInv
  <2> QED  BY <2>7, <2>8, <2>9, <2>10 DEF SpentInv
<1>5. ASSUME NEW x \in Tickets, ConsumeTicket(x)  PROVE SpentInv'
  <2>1. /\ honoured' = [honoured EXCEPT ![x] = @ + 1] /\ ~tickets[x].consumed
        /\ tickets' = [tickets EXCEPT ![x].consumed = TRUE] /\ tickets[x] \in TicketRow
        /\ UNCHANGED <<calls, codes, refreshes>>
    BY <1>5 DEF ConsumeTicket, Honour, StepInv, AccessTypeOK
  <2>2. /\ honoured[x] = 0 /\ honoured'[x] = 1
        /\ \A y \in Grants \union Tickets : y # x => honoured'[y] = honoured[y]
    BY <1>t, <2>1 DEF SpentInv
  <2>3. tickets'[x] # None /\ tickets'[x].consumed
        /\ \A y \in Tickets : y # x => tickets'[y] = tickets[y]
    BY <2>1, RowAssumption DEF StepInv, AccessTypeOK, TicketRow
  <2>4. (\A y \in Tickets : honoured[y] <= 1 /\ (honoured[y] > 0 => tickets[y] # None /\ tickets[y].consumed))'
    BY <2>2, <2>3 DEF SpentInv
  <2>5. (\A y \in Grants : honoured[y] <= 1 /\ (honoured[y] > 0 => Spent(y)))'
    BY <1>s, <2>2, TablesAssumption DEF SpentInv
  <2>6. (\A y \in Calls : Spender(y) => honoured[calls[y].grant] = 0)'
    BY <2>1, <2>2, TablesAssumption DEF SpentInv, Spender
  <2>7. (\A c1, c2 \in Calls : Spender(c1) /\ Spender(c2) /\ calls[c1].grant = calls[c2].grant => c1 = c2)'
    BY <2>1 DEF SpentInv, Spender
  <2> QED  BY <2>4, <2>5, <2>6, <2>7 DEF SpentInv
<1> QED  BY <1>1, <1>2, <1>3, <1>4, <1>5, CalmOrNot DEF Calm, History

LEMMA SpentInvariance == AccessSpec => []SpentInv
<1>1. AccessInit => SpentInv
  BY TablesAssumption DEF AccessInit, SpentInv, Spender, PastClaim, IdleCall
<1>2. StepInv /\ SpentInv /\ [AccessNext]_accessVars => SpentInv'
  <2>1. StepInv /\ SpentInv /\ UNCHANGED accessVars => SpentInv'
    BY DEF SpentInv, Spender, Spent, accessVars, tables
  <2> QED  BY <2>1, NextSpentInv
<1> QED  BY <1>1, <1>2, StepInvariance, PTL DEF AccessSpec

(* exchangeCodeForToken, refreshAccessToken and the stream's consumption   *)
(* of a ticket claim what they spend by one statement: each code, refresh  *)
(* token and ticket is honoured once, whatever calls overlap or fail.      *)
THEOREM GrantsHonouredOnce == AccessSpec => []HonouredOnce
<1>1. StepInv /\ SpentInv => HonouredOnce
  BY DEF StepInv, AccessTypeOK, SpentInv, HonouredOnce
<1> QED  BY <1>1, StepInvariance, SpentInvariance, PTL

-----------------------------------------------------------------------------
(* While nothing has overlapped or failed, a step is one call's, with the  *)
(* others idle, or nobody's.                                               *)
Solo(c) == \A x \in Calls : x # c => calls[x].pc = "idle" /\ calls'[x] = calls[x]
CallStep(c) ==
  \/ AuthorizeRoute(c) \/ Arriving(c) \/ ShowPage(c) \/ SignIn(c)
  \/ AuthorizeCheck(c) \/ InsertCode(c) \/ RevokePrior(c) \/ MintHuman(c)
  \/ TokenRoute(c) \/ BeginLogin(c) \/ SelectRoute(c) \/ ReviewRoute(c)
  \/ Claim(c) \/ CheckMember(c) \/ Recheck(c) \/ InsertSession(c) \/ InsertRefresh(c)
  \/ Reuse(c)
  \/ BeginRemove(c) \/ RemoveSessions(c) \/ RemoveTokens(c)
  \/ Fail(c)
OtherStep ==
  \/ RevokeRoute \/ TicketRoute \/ StreamRoute
  \/ \E x \in Tickets : ExpireTicket(x)
  \/ \E x \in Codes : ExpireCode(x)
  \/ \E k \in ClientIds, list \in SUBSET Redirects : NewClient(k, list)
  \/ Rejoin

LEMMA SoloBy ==
  ASSUME StepInv, OneCall, NEW c \in Calls, raced' = 0,
         \/ calls[c].pc # "idle" /\ End(c)
         \/ calls[c].pc # "idle" /\ \E pc \in CallPcs : Goto(c, pc)
         \/ calls[c].pc # "idle" /\ \E pc \in CallPcs, e \in Era :
              calls' = [calls EXCEPT ![c].pc = pc, ![c].era = e]
         \/ \E call : Begin(c, call)
  PROVE  Solo(c)
<1>0. calls \in [Calls -> CallState] /\ raced \in Nat
  BY DEF StepInv, AccessTypeOK
<1>1. CASE calls[c].pc # "idle"
  <2>1. \A x \in Calls : x # c => calls[x].pc = "idle"
    BY <1>1 DEF OneCall, At
  <2>2. OthersStand(c)
    BY <1>0, EndFields, GotoFields, DatedFields DEF OthersStand, Begin
  <2> QED  BY <2>1, <2>2 DEF Solo, OthersStand
<1>2. ASSUME NEW call, Begin(c, call)  PROVE Solo(c)
  BY <1>0, <1>2 DEF Begin, At, CountRace, Quiet, Solo
<1> QED  BY <1>1, <1>2

LEMMA SoloStep ==
  ASSUME StepInv, OneCall, NEW c \in Calls, CallStep(c), raced' = 0
  PROVE  Solo(c) /\ ~Fail(c) /\ raced = 0
<1>0. era \in Era /\ raced \in Nat
  BY DEF StepInv, AccessTypeOK
<1>1. ~Fail(c)
  BY <1>0 DEF Fail
<1>2. CASE \E call : Begin(c, call)
  <2>1. raced = 0
    BY <1>0, <1>2 DEF Begin, CountRace
  <2> QED  BY <1>1, <1>2, <2>1, SoloBy
<1>3. CASE AuthorizeRoute(c) \/ TokenRoute(c) \/ BeginLogin(c) \/ SelectRoute(c)
           \/ ReviewRoute(c) \/ BeginRemove(c)
  <2>1. \E call : Begin(c, call)
    BY <1>3 DEF AuthorizeRoute, BeginPage, BeginAuthorize, TokenRoute, BeginExchange, BeginRefresh,
                BeginReuse, BeginLogin, SelectRoute, BeginSelect, ReviewRoute, BeginReviewSignIn, BeginRemove
  <2> QED  BY <1>2, <2>1
<1>4. CASE Arriving(c)
  <2>1. calls[c].pc # "idle"
    BY <1>4, VisitStepFields DEF Arriving, StepInv, InStep, Visiting, VisitPcs
  <2>2. CASE End(c)
    BY <1>1, <1>4, <2>1, <2>2, SoloBy DEF Arriving
  <2>3. CASE UNCHANGED calls
    BY <1>1, <1>4, <2>1, <2>3 DEF Arriving, Solo, OneCall, At
  <2> QED  BY <1>4, <2>2, <2>3 DEF Arriving
<1>5. CASE SignIn(c) \/ Recheck(c)
  <2>1. /\ calls[c].pc # "idle" /\ "check" \in CallPcs /\ "session" \in CallPcs /\ raced' = raced
        /\ \/ End(c)
           \/ calls' = [calls EXCEPT ![c].pc = "check", ![c].era = era]
           \/ calls' = [calls EXCEPT ![c].pc = "session", ![c].era = era]
    BY <1>5 DEF SignIn, Recheck, At, CallPcs
  <2> QED  BY <1>0, <1>1, <2>1, SoloBy
<1>6. CASE ShowPage(c) \/ AuthorizeCheck(c) \/ InsertCode(c) \/ RevokePrior(c) \/ MintHuman(c)
           \/ Claim(c) \/ CheckMember(c) \/ InsertSession(c) \/ InsertRefresh(c) \/ Reuse(c)
           \/ RemoveSessions(c) \/ RemoveTokens(c)
  <2>1. /\ calls[c].pc # "idle" /\ raced' = raced
        /\ End(c) \/ \E pc \in CallPcs : Goto(c, pc)
    BY <1>6 DEF ShowPage, AuthorizeCheck, InsertCode, RevokePrior, MintHuman, Claim, CheckMember,
                InsertSession, InsertRefresh, Reuse, RemoveSessions, RemoveTokens, At, CallPcs
  <2> QED  BY <1>1, <2>1, SoloBy
<1> QED  BY <1>1, <1>3, <1>4, <1>5, <1>6 DEF CallStep

LEMMA OtherFields ==
  ASSUME StepInv, OtherStep, raced' = 0
  PROVE  UNCHANGED <<calls, visits>> /\ raced = 0
<1>0. raced \in Nat
  BY DEF StepInv, AccessTypeOK
<1>1. CASE Rejoin
  BY <1>0, <1>1 DEF Rejoin, CountRace, clientVars
<1>2. CASE \E k \in ClientIds, list \in SUBSET Redirects : NewClient(k, list)
  BY <1>2 DEF NewClient, RegisterClient
<1>3. CASE RevokeRoute
  BY <1>3 DEF RevokeRoute, RevokeRefresh, RevokeSession, Elsewhere, clientVars
<1>4. CASE TicketRoute \/ StreamRoute \/ \E x \in Tickets : ExpireTicket(x)
  BY <1>4 DEF TicketRoute, CreateTicket, StreamRoute, ConsumeTicket, ExpireTicket, Elsewhere, clientVars
<1>5. CASE \E x \in Codes : ExpireCode(x)
  BY <1>5 DEF ExpireCode, Elsewhere, clientVars
<1> QED  BY <1>1, <1>2, <1>3, <1>4, <1>5 DEF OtherStep

LEMMA OneCallKept ==
  ASSUME StepInv, OneCall, AccessNext, raced' = 0
  PROVE  OneCall' /\ raced = 0
<1>1. ASSUME NEW c \in Calls, CallStep(c)  PROVE OneCall' /\ raced = 0
  BY <1>1, SoloStep DEF Solo, OneCall, At
<1>2. OtherStep => OneCall' /\ raced = 0
  BY OtherFields DEF OneCall, At
<1> QED  BY <1>1, <1>2 DEF AccessNext, CallStep, OtherStep

-----------------------------------------------------------------------------
(* The reuse that was caught leaves the client nothing to refresh with.    *)
LEMMA FamilyKept ==
  ASSUME StepInv, OneCall, FamilyInv, AccessNext, raced' = 0
  PROVE  FamilyInv'
<1>0. TablesAdvance /\ StepInv'
  BY NextStepInv
<1>t. refreshes \in [Refreshes -> RefreshRow \union {None}]
  BY DEF StepInv, AccessTypeOK
<1>u. refreshes' \in [Refreshes -> RefreshRow \union {None}]
  BY <1>0 DEF StepInv, AccessTypeOK
<1>1. ASSUME NEW x \in Refreshes, UsableRefresh(x)', refreshes[x] # None
      PROVE  UsableRefresh(x) /\ refreshes'[x].client = refreshes[x].client
  BY <1>0, <1>t, <1>1 DEF UsableRefresh, TablesAdvance
<1>2. ASSUME NEW c \in Calls, Spender(c), calls[c].grant \in Refreshes
      PROVE  /\ refreshes[calls[c].grant] # None
             /\ refreshes'[calls[c].grant].client = refreshes[calls[c].grant].client
             /\ refreshes[calls[c].grant].client \notin caught
  BY <1>0, <1>2, TablesAssumption
  DEF FamilyInv, Spender, StepInv, InStep, CallInStep, Spent, TablesAdvance
<1>3. ASSUME UNCHANGED caught, SpendersStay, NoNewToken  PROVE FamilyInv'
  <2>1. (\A k \in caught : NoFamily(k))'
    BY <1>1, <1>3 DEF FamilyInv, NoFamily, NoNewToken, UsableRefresh
  <2>2. (\A c \in Calls : Spender(c) /\ calls[c].grant \in Refreshes
                            => refreshes[calls[c].grant].client \notin caught)'
    BY <1>2, <1>3 DEF SpendersStay
  <2> QED  BY <2>1, <2>2 DEF FamilyInv
<1>4. ASSUME NEW c \in Calls, Claim(c)  PROVE FamilyInv'
  <2>0. UNCHANGED caught /\ NoNewToken
    <3>1. \A x \in Refreshes : refreshes'[x] # None => refreshes[x] # None
      <4>1. CASE Unspent(calls[c].grant)
        <5>1. PICK x \in Grants : x = calls[c].grant /\ HasGrant(x)
          BY <1>4 DEF Claim, At, StepInv, InStep, CallInStep
        <5>2. \A y \in Refreshes : refreshes'[y] # refreshes[y] => y = x /\ x \notin Codes
          BY <1>4, <4>1, <5>1, SpendFields DEF Claim
        <5> QED  BY <5>1, <5>2 DEF HasGrant
      <4>2. CASE ~Unspent(calls[c].grant)
        BY <1>4, <4>2 DEF Claim
      <4> QED  BY <4>1, <4>2
    <3> QED  BY <1>4, <3>1 DEF Claim, History, NoNewToken
  <2>1. CASE ~Unspent(calls[c].grant)
    BY <1>3, <1>4, <2>0, <2>1, SpendersStayBy DEF Claim
  <2>2. CASE Unspent(calls[c].grant)
    <3>1. PICK x \in Grants : x = calls[c].grant
      BY <1>4 DEF Claim, At, StepInv, InStep, CallInStep
    <3>2. OthersStand(c) /\ calls'[c].grant = x
      BY <1>4, <2>2, <3>1, GotoFields DEF Claim, CallPcs, Kept, StepInv, AccessTypeOK
    <3>3. x \in Refreshes => /\ refreshes[x] # None /\ refreshes[x].client \notin caught
                             /\ refreshes'[x].client = refreshes[x].client
      BY <1>0, <2>2, <3>1, TablesAssumption DEF Unspent, UsableRefresh, FamilyInv, NoFamily, TablesAdvance
    <3>4. (\A y \in Calls : Spender(y) /\ calls[y].grant \in Refreshes
                              => refreshes[calls[y].grant].client \notin caught)'
      <4>1. ASSUME NEW y \in Calls, Spender(y)', calls'[y].grant \in Refreshes
            PROVE  refreshes'[calls'[y].grant].client \notin caught'
        <5>1. CASE y = c
          BY <2>0, <3>2, <3>3, <4>1, <5>1
        <5>2. CASE y # c
          BY <1>2, <2>0, <3>2, <4>1, <5>2 DEF OthersStand, Spender
        <5> QED  BY <5>1, <5>2
      <4> QED  BY <4>1
    <3>5. (\A k \in caught : NoFamily(k))'
      BY <1>1, <2>0 DEF FamilyInv, NoFamily, NoNewToken, UsableRefresh
    <3> QED  BY <3>4, <3>5 DEF FamilyInv
  <2> QED  BY <2>1, <2>2
<1>5. ASSUME NEW c \in Calls, InsertRefresh(c)  PROVE FamilyInv'
  <2>1. PICK x \in Grants : x = calls[c].grant
    BY <1>5, SuccessorFields
  <2>2. PICK y \in Refreshes :
          /\ refreshes[y] = None /\ refreshes'[y].client = ClientOf(x)
          /\ \A z \in Refreshes : z # y => refreshes'[z] = refreshes[z]
    BY <1>5, <2>1, SuccessorFields
  <2>3. caught' = caught \ {codes[z].client : z \in Codes \intersect {x}} /\ Spender(c)
    BY <1>5, <2>1 DEF InsertRefresh, Spender, At, PastClaim
  <2>4. ClientOf(x) \notin caught' /\ caught' \subseteq caught
    <3>1. CASE x \in Codes
      BY <2>3, <3>1 DEF ClientOf
    <3>2. CASE x \notin Codes
      BY <1>2, <2>1, <2>3, <3>2 DEF ClientOf, Grants
    <3> QED  BY <2>3, <3>1, <3>2
  <2>5. (\A k \in caught : NoFamily(k))'
    BY <1>1, <2>2, <2>4 DEF FamilyInv, NoFamily, UsableRefresh
  <2>6. SpendersStay
    BY <1>5, SpendersStayBy DEF InsertRefresh
  <2>7. (\A z \in Calls : Spender(z) /\ calls[z].grant \in Refreshes
                            => refreshes[calls[z].grant].client \notin caught)'
    BY <1>2, <2>4, <2>6 DEF SpendersStay
  <2> QED  BY <2>5, <2>7 DEF FamilyInv
<1>6. ASSUME NEW c \in Calls, Reuse(c)  PROVE FamilyInv'
  <2>1. PICK k \in ClientIds : k = calls[c].client
    BY <1>6 DEF Reuse, At, StepInv, InStep, CallInStep
  <2>2. refreshes' = Revoked(Family(k)) /\ caught' = caught \union {k}
    BY <1>6, <2>1 DEF Reuse, RevokeFamily
  <2>3. \A y \in Refreshes : UsableRefresh(y)' => UsableRefresh(y) /\ y \notin Family(k)
    BY <1>6, <2>2, RevokedFields DEF Reuse, Family
  <2>4. (\A j \in caught : NoFamily(j))'
    BY <1>1, <2>2, <2>3 DEF FamilyInv, NoFamily, Family, UsableRefresh
  <2>5. Solo(c) /\ calls'[c].pc = "idle"
    BY <1>6, SoloStep, EndFields DEF CallStep, Reuse, StepInv, AccessTypeOK
  <2>6. \A y \in Calls : ~Spender(y)'
    BY <2>5 DEF Solo, Spender, PastClaim
  <2> QED  BY <2>4, <2>6 DEF FamilyInv
<1>7. ASSUME NEW x \in Tickets, ConsumeTicket(x)  PROVE FamilyInv'
  BY <1>3, <1>7 DEF ConsumeTicket, SpendersStay, Spender, NoNewToken
<1> QED  BY <1>3, <1>4, <1>5, <1>6, <1>7, CalmOrNot DEF Calm, History

-----------------------------------------------------------------------------
(* What is there belongs to the membership of the moment.                  *)
Removing == {"removeSessions", "removeTokens"}
DatedSessions == \A x \in Sessions :
  sessions'[x] # None => sessions'[x] = sessions[x] \/ (member /\ sessions'[x].era = era)
DatedTokens == \A x \in Refreshes :
  UsableRefresh(x)' => \/ UsableRefresh(x) /\ refreshes'[x].era = refreshes[x].era
                       \/ member /\ refreshes'[x].era = era
DatedStep == UNCHANGED <<member, era>> /\ DatedSessions /\ DatedTokens

LEMMA DatedKeeps ==
  ASSUME RemovalInv, DatedStep, NEW c \in Calls, Solo(c), calls[c].pc \notin Removing,
         calls'[c].pc \in Current => member /\ calls'[c].era = era
  PROVE  RemovalInv'
<1>1. (\A x \in Calls : calls[x].pc \in Current => member /\ calls[x].era = era)'
  BY DEF Solo, Current, DatedStep
<1>2. (member => OfThisEra)'
  BY DEF RemovalInv, OfThisEra, DatedStep, DatedSessions, DatedTokens
<1>3. ASSUME ~member'  PROVE NoSessions' /\ NoRefreshes'
  <2>1. \A x \in Calls : ~At(x, "removeSessions") /\ ~At(x, "removeTokens")
    BY DEF Solo, At, Removing
  <2>2. NoSessions /\ NoRefreshes /\ ~member
    BY <1>3, <2>1 DEF RemovalInv, DatedStep
  <2> QED  BY <2>2 DEF NoSessions, NoRefreshes, DatedStep, DatedSessions, DatedTokens
<1> QED  BY <1>1, <1>2, <1>3 DEF RemovalInv

LEMMA DatedOtherKeeps ==
  ASSUME RemovalInv, DatedStep, UNCHANGED calls
  PROVE  RemovalInv'
<1>1. (\A x \in Calls : calls[x].pc \in Current => member /\ calls[x].era = era)'
  BY DEF RemovalInv, DatedStep
<1>2. (member => OfThisEra)'
  BY DEF RemovalInv, OfThisEra, DatedStep, DatedSessions, DatedTokens
<1>3. ~member => (NoSessions => NoSessions') /\ (NoRefreshes => NoRefreshes')
  BY DEF NoSessions, NoRefreshes, DatedStep, DatedSessions, DatedTokens
<1> QED  BY <1>1, <1>2, <1>3 DEF RemovalInv, DatedStep, At

LEMMA TokensDated ==
  ASSUME StepInv, TablesAdvance, StepInv', NoNewToken
  PROVE  DatedTokens
<1>1. ASSUME NEW x \in Refreshes, UsableRefresh(x)'
      PROVE  UsableRefresh(x) /\ refreshes'[x].era = refreshes[x].era
  BY <1>1 DEF UsableRefresh, NoNewToken, TablesAdvance
<1> QED  BY <1>1 DEF DatedTokens

LEMMA CallKeepsRemoval ==
  ASSUME StepInv, OneCall, RemovalInv, NEW c \in Calls, CallStep(c), raced' = 0
  PROVE  RemovalInv'
<1>0. TablesAdvance /\ StepInv'
  BY NextStepInv DEF AccessNext, CallStep
<1>1. Solo(c) /\ ~Fail(c)
  BY SoloStep
<1>t. /\ calls \in [Calls -> CallState] /\ raced \in 0..MaxRaces /\ era \in Era
      /\ sessions \in [Sessions -> SessionRow \union {None}]
  BY DEF StepInv, AccessTypeOK
<1>c. calls[c].pc \in Current => member /\ calls[c].era = era
  BY DEF RemovalInv
<1>b. ASSUME NEW call, Begin(c, call)  PROVE calls'[c] = call /\ calls[c].pc = "idle"
  BY <1>t, <1>b DEF Begin, At
<1>n. ASSUME NoNewToken, UNCHANGED <<member, era, sessions>>  PROVE DatedStep
  BY <1>0, <1>n, TokensDated DEF DatedStep, DatedSessions
<1>2. CASE TokenRoute(c) \/ BeginLogin(c) \/ SelectRoute(c) \/ AuthorizeRoute(c)
  <2>1. ASSUME NEW call, Begin(c, call), call.pc \notin Current,
               UNCHANGED <<member, era, sessions, refreshes>>
        PROVE  RemovalInv'
    <3>1. calls'[c].pc \notin Current /\ calls[c].pc = "idle" /\ NoNewToken
      BY <1>b, <2>1 DEF NoNewToken
    <3> QED  BY <1>1, <1>n, <2>1, <3>1, DatedKeeps DEF Removing
  <2>2. ASSUME NEW x, [IdleCall EXCEPT !.pc = "claim", !.grant = x].pc \in Current  PROVE FALSE
    BY <2>2 DEF IdleCall, Current
  <2>3. ASSUME NEW x, NEW k, [IdleCall EXCEPT !.pc = "reuse", !.grant = x, !.client = k].pc \in Current
        PROVE  FALSE
    BY <2>3 DEF IdleCall, Current
  <2>4. [IdleCall EXCEPT !.pc = "recheck", !.grant = Login].pc \notin Current
    BY DEF IdleCall, Current
  <2>5. [IdleCall EXCEPT !.pc = "page"].pc \notin Current
    BY DEF IdleCall, Current
  <2>6. ASSUME NEW p, [IdleCall EXCEPT !.pc = "visit", !.prior = p].pc \in Current  PROVE FALSE
    BY <2>6 DEF IdleCall, Current
  <2>7. TokenRoute(c) => RemovalInv'
    BY <2>1, <2>2, <2>3 DEF TokenRoute, BeginExchange, BeginRefresh, BeginReuse, Elsewhere, tables
  <2>8. BeginLogin(c) \/ SelectRoute(c) => RemovalInv'
    BY <2>1, <2>4 DEF BeginLogin, SelectRoute, BeginSelect, Elsewhere, tables
  <2>9. AuthorizeRoute(c) => RemovalInv'
    BY <2>1, <2>5, <2>6 DEF AuthorizeRoute, BeginPage, BeginAuthorize, Membership, tables
  <2> QED  BY <1>2, <2>7, <2>8, <2>9
<1>3. CASE ReviewRoute(c)
  <2>1. PICK p \in Sessions \union {None} : BeginReviewSignIn(c, p)
    BY <1>3 DEF ReviewRoute
  <2>2. [IdleCall EXCEPT !.pc = "prior", !.prior = p, !.era = era].era = era
    BY DEF IdleCall
  <2>3. calls'[c].era = era /\ member /\ calls[c].pc = "idle"
    BY <1>b, <2>1, <2>2 DEF BeginReviewSignIn
  <2>4. DatedStep
    BY <1>n, <2>1 DEF BeginReviewSignIn, Elsewhere, tables, NoNewToken
  <2> QED  BY <1>1, <2>3, <2>4, DatedKeeps DEF Removing
<1>4. CASE Arriving(c)
  <2>1. calls[c].pc \in {"page", "visit"}
    BY <1>4, VisitStepFields DEF Arriving, StepInv, InStep, Visiting, VisitPcs
  <2>2. calls'[c].pc \in {"page", "visit", "idle"}
    BY <1>t, <1>4, <2>1, EndFields DEF Arriving
  <2>3. DatedStep
    BY <1>n, <1>4 DEF Arriving, Membership, tables, NoNewToken
  <2> QED  BY <1>1, <2>1, <2>2, <2>3, DatedKeeps DEF Removing, Current
<1>5. CASE ShowPage(c) \/ SignIn(c) \/ AuthorizeCheck(c) \/ InsertCode(c) \/ CheckMember(c) \/ Recheck(c)
  <2>1. DatedStep
    BY <1>n, <1>5 DEF ShowPage, SignIn, AuthorizeCheck, InsertCode, CheckMember, Recheck,
       Elsewhere, Membership, tables, NoNewToken
  <2>2. calls[c].pc \notin Removing
    BY <1>5 DEF ShowPage, SignIn, AuthorizeCheck, InsertCode, CheckMember, Recheck, At, Removing
  <2>3. \/ End(c) \/ Goto(c, "recheck")
        \/ member /\ \E pc \in CallPcs : calls' = [calls EXCEPT ![c].pc = pc, ![c].era = era]
        \/ calls[c].pc \in Current /\ \E pc \in CallPcs : Goto(c, pc)
    BY <1>5 DEF ShowPage, SignIn, AuthorizeCheck, InsertCode, CheckMember, Recheck, At, CallPcs, Current
  <2>4. calls'[c].pc \in Current => member /\ calls'[c].era = era
    <3>1. CASE End(c)
      BY <1>t, <3>1, EndFields DEF Current
    <3>2. CASE Goto(c, "recheck")
      BY <1>t, <3>2, GotoFields DEF CallPcs, Current
    <3>3. CASE member /\ \E pc \in CallPcs : calls' = [calls EXCEPT ![c].pc = pc, ![c].era = era]
      BY <1>t, <3>3, DatedFields
    <3>4. CASE calls[c].pc \in Current /\ \E pc \in CallPcs : Goto(c, pc)
      BY <1>t, <1>c, <3>4, GotoFields
    <3> QED  BY <2>3, <3>1, <3>2, <3>3, <3>4
  <2> QED  BY <1>1, <2>1, <2>2, <2>4, DatedKeeps
<1>6. CASE RevokePrior(c) \/ MintHuman(c) \/ InsertSession(c)
  <2>1. /\ calls[c].pc \in Current \ Removing /\ NoNewToken /\ UNCHANGED <<member, era>>
        /\ End(c) \/ \E pc \in CallPcs : Goto(c, pc)
    BY <1>6 DEF RevokePrior, MintHuman, InsertSession, Elsewhere, At, CallPcs, Current, Removing, NoNewToken
  <2>2. calls'[c].pc \in Current => member /\ calls'[c].era = era
    BY <1>t, <1>c, <2>1, EndFields, GotoFields DEF Current
  <2>3. ASSUME NEW kind, Insert(sessions, [kind |-> kind, era |-> calls[c].era])  PROVE DatedSessions
    <3>1. [kind |-> kind, era |-> calls[c].era].era = era /\ member
      BY <1>c, <2>1
    <3> QED  BY <1>t, <2>3, <3>1 DEF Insert, DatedSessions
  <2>4. DatedSessions
    BY <1>t, <1>6, <2>3 DEF RevokePrior, MintHuman, InsertSession, Without, DatedSessions
  <2>5. DatedStep
    BY <1>0, <2>1, <2>4, TokensDated DEF DatedStep
  <2> QED  BY <1>1, <2>1, <2>2, <2>5, DatedKeeps
<1>7. CASE Claim(c)
  <2>1. NoNewToken
    <3>1. CASE Unspent(calls[c].grant)
      <4>1. PICK x \in Grants : x = calls[c].grant /\ HasGrant(x)
        BY <1>7 DEF Claim, At, StepInv, InStep, CallInStep
      <4>2. \A y \in Refreshes : refreshes'[y] # refreshes[y] => y = x /\ x \notin Codes
        BY <1>7, <3>1, <4>1, SpendFields DEF Claim
      <4> QED  BY <4>1, <4>2 DEF HasGrant, NoNewToken
    <3>2. CASE ~Unspent(calls[c].grant)
      BY <1>7, <3>2 DEF Claim, NoNewToken
    <3> QED  BY <3>1, <3>2
  <2>2. calls'[c].pc \notin Current /\ calls[c].pc \notin Removing
    BY <1>t, <1>7, EndFields, GotoFields DEF Claim, At, CallPcs, Current, Removing
  <2> QED  BY <1>1, <1>7, <1>n, <2>1, <2>2, DatedKeeps DEF Claim, Elsewhere
<1>8. CASE InsertRefresh(c)
  <2>1. PICK x \in Refreshes : /\ refreshes'[x].era = calls[c].era
                               /\ \A y \in Refreshes : y # x => refreshes'[y] = refreshes[y]
    BY <1>8, SuccessorFields
  <2>2. calls[c].pc = "refresh" /\ UNCHANGED <<member, era, sessions>>
    BY <1>8 DEF InsertRefresh, At, Elsewhere
  <2>3. DatedStep
    BY <1>c, <2>1, <2>2 DEF DatedStep, DatedTokens, DatedSessions, UsableRefresh, Current
  <2>4. calls'[c].pc \notin Current
    BY <1>t, <1>8, EndFields DEF InsertRefresh, Current
  <2> QED  BY <1>1, <2>2, <2>3, <2>4, DatedKeeps DEF Removing
<1>9. CASE Reuse(c)
  <2>1. refreshes' = Revoked(Family(calls[c].client))
    BY <1>9 DEF Reuse, RevokeFamily
  <2>2. NoNewToken
    BY <1>9, <2>1, RevokedFields DEF Reuse, Family, NoNewToken
  <2>3. calls'[c].pc \notin Current /\ calls[c].pc \notin Removing
    BY <1>t, <1>9, EndFields DEF Reuse, At, Current, Removing
  <2> QED  BY <1>1, <1>9, <1>n, <2>2, <2>3, DatedKeeps DEF Reuse, Elsewhere
<1>10. CASE BeginRemove(c)
  <2>1. calls'[c].pc = "removeSessions" /\ ~member'
    BY <1>b, <1>10 DEF BeginRemove, IdleCall
  <2> QED  BY <1>1, <2>1 DEF RemovalInv, Solo, Current, At
<1>11. CASE RemoveSessions(c)
  <2>1. /\ calls'[c].pc = "removeTokens" /\ UNCHANGED <<member, era, refreshes>>
        /\ \A x \in Sessions : sessions'[x] = None
    BY <1>t, <1>11, GotoFields DEF RemoveSessions, Elsewhere, CallPcs
  <2> QED  BY <1>1, <2>1 DEF RemovalInv, OfThisEra, NoSessions, UsableRefresh, Solo, Current, At
<1>12. CASE RemoveTokens(c)
  <2>1. /\ calls'[c].pc = "idle" /\ UNCHANGED <<member, era, sessions>> /\ calls[c].pc = "removeTokens"
    BY <1>t, <1>12, EndFields DEF RemoveTokens, Elsewhere, At
  <2>2. \A x \in Refreshes : ~UsableRefresh(x)'
    BY <1>12, RevokedFields DEF RemoveTokens, RevokedTokens, UsableRefresh
  <2>3. ~member => NoSessions
    BY <1>1, <2>1 DEF RemovalInv, Solo, At
  <2> QED  BY <1>1, <2>1, <2>2, <2>3 DEF RemovalInv, OfThisEra, NoSessions, NoRefreshes, Solo, Current, At
<1> QED  BY <1>1, <1>2, <1>3, <1>4, <1>5, <1>6, <1>7, <1>8, <1>9, <1>10, <1>11, <1>12 DEF CallStep

LEMMA RemovalKept ==
  ASSUME StepInv, OneCall, RemovalInv, AccessNext, raced' = 0
  PROVE  RemovalInv'
<1>0. TablesAdvance /\ StepInv'
  BY NextStepInv
<1>1. CASE OtherStep /\ ~Rejoin
  <2>1. UNCHANGED calls
    BY <1>1, OtherFields
  <2>2. ASSUME NEW x \in Refreshes, RevokeRefresh(x)  PROVE DatedStep
    <3>1. NoNewToken
      BY <2>2 DEF RevokeRefresh, NoNewToken, StepInv, AccessTypeOK
    <3> QED  BY <1>0, <2>2, <3>1, TokensDated DEF RevokeRefresh, DatedStep, DatedSessions, Elsewhere
  <2>3. ASSUME NEW x \in Sessions, RevokeSession(x)  PROVE DatedStep
    <3>1. DatedSessions /\ NoNewToken
      BY <2>3 DEF RevokeSession, Without, DatedSessions, NoNewToken, StepInv, AccessTypeOK
    <3> QED  BY <1>0, <2>3, <3>1, TokensDated DEF RevokeSession, DatedStep, Elsewhere
  <2>4. ASSUME UNCHANGED <<member, era, sessions, refreshes>>  PROVE DatedStep
    <3>1. NoNewToken
      BY <2>4 DEF NoNewToken
    <3> QED  BY <1>0, <2>4, <3>1, TokensDated DEF DatedStep, DatedSessions
  <2>5. (TicketRoute \/ StreamRoute \/ \E x \in Tickets : ExpireTicket(x)) => DatedStep
    BY <2>4 DEF TicketRoute, CreateTicket, StreamRoute, ConsumeTicket, ExpireTicket, Elsewhere
  <2>6. (\E x \in Codes : ExpireCode(x)) => DatedStep
    BY <2>4 DEF ExpireCode, Elsewhere
  <2>7. (\E k \in ClientIds, list \in SUBSET Redirects : NewClient(k, list)) => DatedStep
    BY <2>4 DEF NewClient, Membership, tables
  <2>8. DatedStep
    BY <1>1, <2>2, <2>3, <2>5, <2>6, <2>7 DEF OtherStep, RevokeRoute
  <2> QED  BY <2>1, <2>8, DatedOtherKeeps
<1>2. CASE Rejoin
  <2>1. raced \in Nat
    BY DEF StepInv, AccessTypeOK
  <2>2. /\ \A x \in Calls : calls[x].pc = "idle" /\ calls'[x].pc = "idle"
        /\ ~member /\ member' /\ UNCHANGED <<sessions, refreshes>>
    BY <1>2, <2>1 DEF Rejoin, CountRace, Quiet, At, tables
  <2>3. NoSessions /\ NoRefreshes
    BY <2>2 DEF RemovalInv, At
  <2> QED  BY <2>2, <2>3 DEF RemovalInv, Current, OfThisEra, NoSessions, NoRefreshes, UsableRefresh
<1>3. ASSUME NEW c \in Calls, CallStep(c)  PROVE RemovalInv'
  BY <1>3, CallKeepsRemoval
<1> QED  BY <1>1, <1>2, <1>3 DEF AccessNext, CallStep, OtherStep

-----------------------------------------------------------------------------
(* A code is for a redirect its client still has.                          *)
CodesHome == \A x \in Codes : UsableCode(x) => codes[x].redirect \in clients[codes[x].client]
NoNewCode == \A x \in Codes : UsableCode(x)' => UsableCode(x)

LEMMA VisitSolo ==
  ASSUME StepInv', NEW c \in Calls, Solo(c), CodesHome', VisitReads(c)'
  PROVE  VisitInv'
<1>1. ASSUME NEW x \in Calls, x # c  PROVE VisitReads(x)'
  <2>1. calls'[x].pc = "idle"
    BY <1>1 DEF Solo
  <2>2. visits'[x].pc = "idle"
    BY <2>1 DEF StepInv, InStep, Visiting
  <2> QED  BY <2>2 DEF VisitReads, VisitAt, Writing
<1> QED  BY <1>1 DEF VisitInv, CodesHome

LEMMA CodesStay ==
  ASSUME StepInv, TablesAdvance, NoNewCode, NEW x \in Codes, UsableCode(x)'
  PROVE  /\ UsableCode(x)
         /\ codes'[x].client = codes[x].client /\ codes'[x].redirect = codes[x].redirect
BY DEF NoNewCode, UsableCode, TablesAdvance

LEMMA VisitsStand ==
  ASSUME StepInv, TablesAdvance, VisitInv, NoNewCode, UNCHANGED clientVars
  PROVE  VisitInv'
<1>1. CodesHome'
  BY CodesStay DEF VisitInv, CodesHome, clientVars
<1>2. ASSUME NEW c \in Calls  PROVE VisitReads(c)'
  <2>1. VisitReads(c) /\ clients' = clients /\ visits' = visits
    BY DEF VisitInv, clientVars
  <2>2. PICK k : k = Client(c)
    OBVIOUS
  <2>3. NoCodes(k) => NoCodes(k)'
    BY CodesStay DEF NoCodes
  <2> QED  BY <2>1, <2>2, <2>3 DEF VisitReads, VisitAt, Client, Redirect, HasRow
<1> QED  BY <1>1, <1>2 DEF VisitInv, CodesHome

LEMMA ArrivingKeepsVisits ==
  ASSUME StepInv, VisitInv, NEW c \in Calls, Arriving(c), Solo(c), StepInv'
  PROVE  VisitInv'
<1> DEFINE k == visits[c].client
           r == visits[c].redirect
           list == visits[c].list
<1>0. /\ clients \in [ClientIds -> SUBSET Redirects] /\ visits \in [Calls -> VisitState]
      /\ codes \in [Codes -> CodeRow \union {None}] /\ visits[c] \in VisitState
      /\ UNCHANGED codes /\ VisitReads(c) /\ CodesHome /\ VisitStep(c)
  BY DEF StepInv, ClientTypeOK, AccessTypeOK, Arriving, tables, VisitInv, CodesHome
<1>1. /\ visits[c].pc \in VisitPcs \ {"valid"}
  BY VisitStepFields DEF Arriving
<1>2. k \in ClientIds /\ r \in Redirects /\ list \in SUBSET Redirects
  BY <1>0, <1>1 DEF StepInv, InStep, VisitInStep, VisitPcs, VisitState
<1>3. ~HasRow(k) => NoCodes(k)
  BY <1>0 DEF HasRow, CodesHome, NoCodes
<1>r. PICK kk, rr, ll : kk = k /\ rr = r /\ ll = list
  OBVIOUS
<1>4. ASSUME visits'[c].pc = "idle", UNCHANGED clients  PROVE VisitInv'
  <2>1. CodesHome'
    BY <1>0, <1>4 DEF CodesHome, UsableCode
  <2>2. VisitReads(c)'
    BY <1>4 DEF VisitReads, VisitAt, Writing
  <2> QED  BY <2>1, <2>2, VisitSolo
<1>5. ASSUME SameVisit(c), visits'[c].pc \in Writing, UNCHANGED clients, NoCodes(kk),
             visits'[c].pc # "fetch" => rr \in visits'[c].list
      PROVE  VisitInv'
  <2>1. CodesHome'
    BY <1>0, <1>5 DEF CodesHome, UsableCode
  <2>2. NoCodes(kk)' /\ visits'[c].client = kk /\ visits'[c].redirect = rr
    BY <1>0, <1>r, <1>5 DEF NoCodes, UsableCode, SameVisit
  <2>3. VisitReads(c)'
    BY <1>5, <2>2 DEF VisitReads, VisitAt, Writing, Client, Redirect
  <2> QED  BY <2>1, <2>3, VisitSolo
<1>6. ASSUME SameVisit(c), visits'[c].pc = "valid", rr \in clients'[kk],
             \/ UNCHANGED clients
             \/ clients' = [clients EXCEPT ![kk] = ll] /\ (clients[kk] \subseteq ll \/ NoCodes(kk))
      PROVE  VisitInv'
  <2>1. ASSUME NEW x \in Codes, UsableCode(x)'
        PROVE  codes'[x].redirect \in clients'[codes'[x].client]
    <3>1. UsableCode(x) /\ codes' = codes /\ codes[x].redirect \in clients[codes[x].client]
          /\ codes[x].client \in ClientIds
      BY <1>0, <2>1 DEF CodesHome, UsableCode, CodeRow
    <3>2. CASE codes[x].client = kk
      BY <1>0, <1>2, <1>r, <1>6, <3>1, <3>2 DEF NoCodes
    <3>3. CASE codes[x].client # kk
      BY <1>0, <1>6, <3>1, <3>3
    <3> QED  BY <3>2, <3>3
  <2>2. visits'[c].client = kk /\ visits'[c].redirect = rr
    BY <1>r, <1>6 DEF SameVisit
  <2>3. VisitReads(c)'
    BY <1>6, <2>2 DEF VisitReads, VisitAt, Writing, Client, Redirect
  <2>4. CodesHome'
    BY <2>1 DEF CodesHome
  <2> QED  BY <2>3, <2>4, VisitSolo
<1>7. ASSUME Valid(c)  PROVE SameVisit(c) /\ visits'[c].pc = "valid"
  <2>1. {} \in SUBSET Redirects /\ FALSE \in BOOLEAN /\ "valid" \in VisitPcs
    BY DEF VisitPcs
  <2>2. Listed(c, "valid", {}, FALSE)
    BY <1>7 DEF Valid, Listed
  <2> QED  BY <1>0, <2>1, <2>2, ListedFields
<1>8. ASSUME Refused(c), UNCHANGED clients  PROVE VisitInv'
  <2>1. visits'[c].pc = "idle"
    BY <1>0, <1>8, IdleFields, VisitFields DEF Refused
  <2> QED  BY <1>4, <1>8, <2>1
<1>9. ASSUME Fallback(c), UNCHANGED clients, NoCodes(kk)  PROVE VisitInv'
  <2>1. \/ visits'[c] = Nowhere
        \/ SameVisit(c) /\ visits'[c].pc = "look" /\ visits'[c].list = {r}
    BY <1>1, <1>9, FallbackFields DEF VisitPcs
  <2> QED  BY <1>4, <1>5, <1>9, <1>r, <2>1, IdleFields DEF Writing
<1>10. CASE ReadClient(c)
  <2>1. \/ Valid(c) /\ r \in clients[k]
        \/ Refused(c)
        \/ HasRow(k) /\ visits' = [visits EXCEPT ![c].pc = "append", ![c].list = clients[k] \union {r}]
        \/ ~HasRow(k) /\ Goes(c, "fetch")
        \/ ~HasRow(k) /\ Fallback(c)
        \/ Redirect(c) \in ChatGPT \union clients[k] /\ Redirect(c) \notin ChatGPT \ clients[k]
           /\ Redirect(c) \notin clients[k]
    BY <1>10 DEF ReadClient, Client, Redirect
  <2>2. UNCHANGED clients
    BY <1>10 DEF ReadClient
  <2>3. ASSUME HasRow(k), visits' = [visits EXCEPT ![c].pc = "append", ![c].list = clients[k] \union {r}]
        PROVE  VisitInv'
    <3>0. HasRow(kk)'
      BY <1>r, <2>2, <2>3 DEF HasRow
    <3>1. clients[k] \union {r} \in SUBSET Redirects
      BY <1>0, <1>2
    <3>2. SameVisit(c) /\ visits'[c].pc = "append" /\ visits'[c].list = clients[k] \union {r}
      <4>1. Appending(c, clients[k] \union {r})
        BY <2>3 DEF Appending
      <4> QED  BY <1>0, <3>1, <4>1, AppendFields
    <3>3. visits'[c].client = kk /\ visits'[c].redirect = rr /\ visits'[c].list = clients'[kk] \union {rr}
      BY <1>r, <2>2, <3>2 DEF SameVisit
    <3>4. VisitReads(c)'
      BY <3>0, <3>2, <3>3 DEF VisitReads, VisitAt, Writing, Client, Redirect
    <3>5. CodesHome'
      BY <1>0, <2>2 DEF CodesHome, UsableCode
    <3> QED  BY <3>4, <3>5, VisitSolo
  <2>4. ASSUME ~HasRow(k), Goes(c, "fetch")  PROVE VisitInv'
    <3>1. SameVisit(c) /\ visits'[c].pc = "fetch"
      BY <1>0, <2>4, GoesFields DEF VisitPcs
    <3> QED  BY <1>3, <1>5, <1>r, <2>2, <2>4, <3>1 DEF Writing
  <2>5. Valid(c) /\ r \in clients[k] => VisitInv'
    BY <1>6, <1>7, <1>r, <2>2
  <2>6. ~HasRow(k) /\ Fallback(c) => VisitInv'
    BY <1>3, <1>9, <1>r, <2>2
  <2> QED  BY <1>8, <2>1, <2>2, <2>3, <2>4, <2>5, <2>6
<1>11. CASE Append(c)
  <2>1. Valid(c) /\ clients' = [clients EXCEPT ![kk] = ll] /\ ll = clients[kk] \union {rr}
    BY <1>0, <1>11, <1>r DEF Append, Appended, VisitAt, VisitReads, Client, Redirect
  <2>2. rr \in clients'[kk]
    BY <1>0, <1>2, <1>r, <2>1
  <2> QED  BY <1>6, <1>7, <2>1, <2>2
<1>12. CASE FetchDocument(c)
  <2>1. k \in DOMAIN Documents /\ NoCodes(k) /\ UNCHANGED clients
    BY <1>0, <1>12 DEF FetchDocument, VisitAt, VisitReads, Writing, StepInv, InStep, VisitInStep, Client
  <2>2. ASSUME r \in Documents[k], Register(c, Documents[k], TRUE)  PROVE VisitInv'
    <3>1. Documents[k] \in SUBSET Redirects /\ TRUE \in BOOLEAN /\ "look" \in VisitPcs
      BY <2>1, ClientAssumption DEF VisitPcs
    <3>2. Listed(c, "look", Documents[k], TRUE)
      BY <2>2 DEF Register, Listed
    <3>3. SameVisit(c) /\ visits'[c].pc = "look" /\ visits'[c].list = Documents[k]
      BY <1>0, <3>1, <3>2, ListedFields
    <3> QED  BY <1>5, <1>r, <2>1, <2>2, <3>3 DEF Writing
  <2> QED  BY <1>8, <1>12, <2>1, <2>2 DEF FetchDocument, Client, Redirect
<1>13. CASE FetchNothing(c)
  <2>1. NoCodes(kk) /\ UNCHANGED clients /\ Fallback(c)
    BY <1>0, <1>13, <1>r DEF FetchNothing, VisitAt, VisitReads, Writing, Client
  <2> QED  BY <1>9, <2>1
<1>14. CASE LookForRow(c)
  <2>1. PICK pc \in {"overwrite", "insert"} : Goes(c, pc)
    BY <1>14 DEF LookForRow
  <2>2. /\ UNCHANGED clients /\ NoCodes(kk) /\ rr \in ll
    BY <1>0, <1>14, <1>r DEF LookForRow, VisitAt, VisitReads, Writing, Client, Redirect
  <2>3. SameVisit(c) /\ visits'[c].pc = pc /\ visits'[c].list = ll
    BY <1>0, <1>r, <2>1, GoesFields DEF VisitPcs
  <2> QED  BY <1>5, <2>2, <2>3 DEF Writing
<1>15. ASSUME visits[c].pc \in {"overwrite", "insert"}, clients' = [clients EXCEPT ![k] = list], Valid(c)
       PROVE  VisitInv'
  <2>1. NoCodes(kk) /\ rr \in ll
    BY <1>0, <1>15, <1>r DEF VisitReads, Writing, Client, Redirect
  <2>2. rr \in clients'[kk] /\ clients' = [clients EXCEPT ![kk] = ll]
    BY <1>0, <1>2, <1>15, <1>r, <2>1
  <2> QED  BY <1>6, <1>7, <1>15, <2>1, <2>2
<1>16. CASE Overwrite(c)
  BY <1>15, <1>16 DEF Overwrite, VisitAt, Client
<1>17. CASE InsertClient(c)
  <2>1. NoCodes(kk)
    BY <1>0, <1>17, <1>r DEF InsertClient, VisitAt, VisitReads, Writing, Client
  <2> QED  BY <1>8, <1>9, <1>15, <1>17, <2>1 DEF InsertClient, VisitAt, Client
<1> QED  BY <1>0, <1>10, <1>11, <1>12, <1>13, <1>14, <1>16, <1>17 DEF VisitStep

LEMMA CallKeepsVisits ==
  ASSUME StepInv, OneCall, VisitInv, NEW c \in Calls, CallStep(c), raced' = 0
  PROVE  VisitInv'
<1>0. TablesAdvance /\ StepInv'
  BY NextStepInv DEF AccessNext, CallStep
<1>1. Solo(c) /\ ~Fail(c)
  BY SoloStep
<1>t. /\ visits \in [Calls -> VisitState] /\ calls \in [Calls -> CallState]
      /\ codes \in [Codes -> CodeRow \union {None}]
  BY DEF StepInv, AccessTypeOK, ClientTypeOK
<1>2. CASE AuthorizeRoute(c)
  <2>1. PICK k \in ClientIds, r \in Redirects : visits' = [visits EXCEPT ![c] = Visit(k, r)]
    BY <1>2 DEF AuthorizeRoute, BeginPage, BeginAuthorize
  <2>2. visits'[c].pc = "read"
    BY <1>t, <2>1 DEF Visit, Nowhere
  <2>3. VisitReads(c)'
    BY <2>2 DEF VisitReads, VisitAt, Writing
  <2>4. CodesHome'
    BY <1>2 DEF AuthorizeRoute, BeginPage, BeginAuthorize, CodesHome, UsableCode, VisitInv, tables
  <2> QED  BY <1>0, <1>1, <2>3, <2>4, VisitSolo
<1>3. CASE Arriving(c)
  BY <1>0, <1>1, <1>3, ArrivingKeepsVisits
<1>4. ASSUME Gone(c), UNCHANGED codes  PROVE VisitInv'
  <2>1. visits'[c].pc = "idle" /\ UNCHANGED clients
    BY <1>t, <1>4, GoneFields
  <2>2. VisitReads(c)'
    BY <2>1 DEF VisitReads, VisitAt, Writing
  <2>3. CodesHome'
    BY <1>4, <2>1 DEF CodesHome, UsableCode, VisitInv
  <2> QED  BY <1>0, <1>1, <2>2, <2>3, VisitSolo
<1>5. ASSUME UNCHANGED clientVars, UNCHANGED codes  PROVE VisitInv'
  BY <1>0, <1>5, VisitsStand DEF NoNewCode, UsableCode
<1>6. CASE ShowPage(c) \/ SignIn(c) \/ AuthorizeCheck(c)
  BY <1>4, <1>5, <1>6 DEF ShowPage, SignIn, AuthorizeCheck, tables
<1>7. CASE InsertCode(c)
  <2>1. PICK x \in Codes :
          /\ codes'[x].client = Client(c) /\ codes'[x].redirect = Redirect(c)
          /\ \A y \in Codes : y # x => codes'[y] = codes[y]
    BY <1>7, NewCodeFields
  <2>2. Redirect(c) \in clients[Client(c)]
    BY <1>7, NewCodeFields DEF VisitInv, VisitReads, VisitAt
  <2>3. visits'[c].pc = "idle" /\ UNCHANGED clients
    BY <1>t, <1>7, GoneFields DEF InsertCode
  <2>4. CodesHome'
    BY <2>1, <2>2, <2>3 DEF CodesHome, UsableCode, VisitInv
  <2>5. VisitReads(c)'
    BY <2>3 DEF VisitReads, VisitAt, Writing
  <2> QED  BY <1>0, <1>1, <2>4, <2>5, VisitSolo
<1>8. CASE Claim(c)
  <2>1. NoNewCode
    <3>1. CASE Unspent(calls[c].grant)
      <4>1. PICK x \in Grants : x = calls[c].grant /\ HasGrant(x)
        BY <1>8 DEF Claim, At, StepInv, InStep, CallInStep
      <4>2. \A y \in Codes : codes'[y] # codes[y] => y = x
        BY <1>8, <3>1, <4>1, SpendFields DEF Claim
      <4>3. Spent(x)'
        BY <1>8, <3>1, <4>1, SpendFields DEF Claim
      <4> QED  BY <4>2, <4>3 DEF NoNewCode, UsableCode, Spent
    <3>2. CASE ~Unspent(calls[c].grant)
      BY <1>8, <3>2 DEF Claim, NoNewCode, UsableCode
    <3> QED  BY <3>1, <3>2
  <2> QED  BY <1>0, <1>8, <2>1, VisitsStand DEF Claim, Elsewhere
<1>9. CASE TokenRoute(c) \/ BeginLogin(c) \/ SelectRoute(c) \/ ReviewRoute(c) \/ BeginRemove(c)
  BY <1>5, <1>9 DEF TokenRoute, BeginExchange, BeginRefresh, BeginReuse, BeginLogin, SelectRoute,
     BeginSelect, ReviewRoute, BeginReviewSignIn, BeginRemove, Elsewhere, tables
<1>10. CASE RevokePrior(c) \/ MintHuman(c) \/ CheckMember(c) \/ Recheck(c) \/ InsertSession(c)
            \/ InsertRefresh(c) \/ Reuse(c) \/ RemoveSessions(c) \/ RemoveTokens(c)
  BY <1>5, <1>10 DEF RevokePrior, MintHuman, CheckMember, Recheck, InsertSession, InsertRefresh,
     Reuse, RemoveSessions, RemoveTokens, Elsewhere, tables
<1> QED  BY <1>1, <1>2, <1>3, <1>6, <1>7, <1>8, <1>9, <1>10 DEF CallStep

LEMMA VisitKept ==
  ASSUME StepInv, OneCall, VisitInv, AccessNext, raced' = 0
  PROVE  VisitInv'
<1>0. TablesAdvance
  BY NextStepInv
<1>1. ASSUME NEW c \in Calls, CallStep(c)  PROVE VisitInv'
  BY <1>1, CallKeepsVisits
<1>2. ASSUME UNCHANGED clientVars, UNCHANGED codes  PROVE VisitInv'
  BY <1>0, <1>2, VisitsStand DEF NoNewCode, UsableCode
<1>3. CASE RevokeRoute \/ TicketRoute \/ StreamRoute \/ (\E x \in Tickets : ExpireTicket(x)) \/ Rejoin
  BY <1>2, <1>3 DEF RevokeRoute, RevokeRefresh, RevokeSession, TicketRoute, CreateTicket,
     StreamRoute, ConsumeTicket, ExpireTicket, Rejoin, Elsewhere, tables
<1>4. ASSUME NEW x \in Codes, ExpireCode(x)  PROVE VisitInv'
  <2>1. codes[x] \in CodeRow /\ codes' = [codes EXCEPT ![x].late = TRUE]
    BY <1>4 DEF ExpireCode, UsableCode, StepInv, AccessTypeOK
  <2>2. NoNewCode
    BY <1>4, <2>1 DEF NoNewCode, UsableCode, StepInv, AccessTypeOK, CodeRow
  <2> QED  BY <1>0, <1>4, <2>2, VisitsStand DEF ExpireCode, Elsewhere
<1>5. ASSUME NEW k \in ClientIds, NEW list \in SUBSET Redirects, NewClient(k, list)  PROVE VisitInv'
  <2>1. /\ clients[k] = {} /\ clients' = [clients EXCEPT ![k] = list]
        /\ UNCHANGED <<visits, codes>> /\ clients \in [ClientIds -> SUBSET Redirects]
        /\ codes \in [Codes -> CodeRow \union {None}]
    BY <1>5 DEF NewClient, RegisterClient, HasRow, tables, StepInv, ClientTypeOK, AccessTypeOK
  <2>2. \A j \in ClientIds : clients[j] # {} => clients'[j] = clients[j]
    BY <2>1
  <2>3. CodesHome'
    BY <2>1, <2>2 DEF VisitInv, CodesHome, UsableCode, CodeRow
  <2>4. ASSUME NEW c \in Calls  PROVE VisitReads(c)'
    <3>1. visits[c].pc # "idle" => visits[c].client \in ClientIds
      BY DEF StepInv, InStep, VisitInStep
    <3>2. VisitReads(c)
      BY DEF VisitInv
    <3> QED  BY <2>1, <2>2, <3>1, <3>2
             DEF VisitReads, VisitAt, Writing, Client, Redirect, HasRow, NoCodes, UsableCode
  <2> QED  BY <2>3, <2>4 DEF VisitInv, CodesHome
<1> QED  BY <1>1, <1>3, <1>4, <1>5 DEF AccessNext, CallStep

-----------------------------------------------------------------------------
(* The count of what overlapped or failed only grows.                      *)
LEMMA RacedGrows ==
  ASSUME AccessNext
  PROVE  raced' # raced => raced' = raced + 1
<1>1. ASSUME NEW c \in Calls, CallStep(c)  PROVE raced' # raced => raced' = raced + 1
  <2>1. CASE AuthorizeRoute(c) \/ TokenRoute(c) \/ BeginLogin(c) \/ SelectRoute(c)
             \/ ReviewRoute(c) \/ BeginRemove(c)
    <3>1. \E call : Begin(c, call)
      BY <2>1 DEF AuthorizeRoute, BeginPage, BeginAuthorize, TokenRoute, BeginExchange, BeginRefresh,
                  BeginReuse, BeginLogin, SelectRoute, BeginSelect, ReviewRoute, BeginReviewSignIn, BeginRemove
    <3> QED  BY <3>1 DEF Begin, CountRace
  <2>2. CASE Arriving(c) \/ ShowPage(c) \/ SignIn(c) \/ AuthorizeCheck(c) \/ InsertCode(c)
             \/ RevokePrior(c) \/ MintHuman(c) \/ Claim(c) \/ CheckMember(c) \/ Recheck(c)
    BY <2>2 DEF Arriving, ShowPage, SignIn, AuthorizeCheck, InsertCode, RevokePrior, MintHuman,
                Claim, CheckMember, Recheck
  <2>3. CASE InsertSession(c) \/ InsertRefresh(c) \/ Reuse(c) \/ RemoveSessions(c) \/ RemoveTokens(c)
             \/ Fail(c)
    BY <2>3 DEF InsertSession, InsertRefresh, Reuse, RemoveSessions, RemoveTokens, Fail
  <2> QED  BY <1>1, <2>1, <2>2, <2>3 DEF CallStep
<1>2. Rejoin => (raced' # raced => raced' = raced + 1)
  BY DEF Rejoin, CountRace
<1>3. RevokeRoute \/ TicketRoute \/ StreamRoute \/ (\E x \in Tickets : ExpireTicket(x)) => raced' = raced
  BY DEF RevokeRoute, RevokeRefresh, RevokeSession, TicketRoute, CreateTicket, StreamRoute, ConsumeTicket, ExpireTicket
<1>4. (\E x \in Codes : ExpireCode(x))
      \/ (\E k \in ClientIds, list \in SUBSET Redirects : NewClient(k, list)) => raced' = raced
  BY DEF ExpireCode, NewClient
<1> QED  BY <1>1, <1>2, <1>3, <1>4 DEF AccessNext, CallStep

LEMMA AloneInvariance == AccessSpec => []AloneInv
<1>1. AccessInit => AloneInv
  <2>1. ASSUME AccessInit  PROVE OneCall /\ RemovalInv /\ FamilyInv
    BY <2>1 DEF AccessInit, OneCall, RemovalInv, FamilyInv, OfThisEra, UsableRefresh, Spender,
       Current, PastClaim, IdleCall, At
  <2>2. ASSUME AccessInit  PROVE VisitInv
    BY <2>2, IdleFields DEF AccessInit, VisitInv, VisitReads, VisitAt, Writing, UsableCode
  <2> QED  BY <2>1, <2>2 DEF AloneInv
<1>2. ASSUME StepInv, AloneInv, AccessNext  PROVE AloneInv'
  <2>1. CASE raced' # 0
    BY <2>1 DEF AloneInv
  <2>2. CASE raced' = 0
    <3>1. raced = 0
      <4>1. raced \in Nat
        BY <1>2 DEF StepInv, AccessTypeOK
      <4>2. raced' # raced => raced' = raced + 1
        BY <1>2, RacedGrows
      <4> QED  BY <2>2, <4>1, <4>2
    <3>2. OneCall /\ RemovalInv /\ FamilyInv /\ VisitInv
      BY <1>2, <3>1 DEF AloneInv
    <3>3. OneCall' /\ RemovalInv' /\ FamilyInv' /\ VisitInv'
      BY <1>2, <2>2, <3>2, OneCallKept, RemovalKept, FamilyKept, VisitKept
    <3> QED  BY <3>3 DEF AloneInv
  <2> QED  BY <2>1, <2>2
<1>3. AloneInv /\ UNCHANGED accessVars => AloneInv'
  <2>1. ASSUME AloneInv, UNCHANGED accessVars  PROVE AloneInv'
    BY <2>1 DEF AloneInv, OneCall, RemovalInv, OfThisEra, NoSessions, NoRefreshes, FamilyInv, NoFamily,
       VisitInv, VisitReads, NoCodes, UsableRefresh, UsableCode, Spender, At, VisitAt, Client, Redirect,
       HasRow, accessVars, tables, clientVars
  <2> QED  BY <2>1
<1> QED  BY <1>1, <1>2, <1>3, StepInvariance, PTL DEF AccessSpec

(* removeMember, while no call overlaps it and no statement of it fails,   *)
(* leaves nothing that works when the user is let in again: sessions and   *)
(* refresh tokens in use are of the membership of the moment.              *)
THEOREM RemovalIsComplete == AccessSpec => []RemovalEndsAccess
<1>1. AloneInv => RemovalEndsAccess
  BY DEF AloneInv, RemovalInv, OfThisEra, RemovalEndsAccess, UsableSession, UsableApi, UsableHuman
<1> QED  BY <1>1, AloneInvariance, PTL

(* A reuse of a refresh token that refreshAccessToken catches, with no     *)
(* other call under way, leaves its client nothing to refresh with.        *)
THEOREM ReuseIsAnswered == AccessSpec => []ReuseEndsFamily
<1>1. AloneInv => ReuseEndsFamily
  BY DEF AloneInv, FamilyInv, NoFamily, ReuseEndsFamily
<1> QED  BY <1>1, AloneInvariance, PTL

(* validateClient and registerClient never take away a redirect for which  *)
(* a code is out, as long as visits come one at a time.                    *)
THEOREM CodesStayHome == AccessSpec => []CodesGoHome
<1>1. AloneInv => CodesGoHome
  BY DEF AloneInv, VisitInv, CodesGoHome
<1> QED  BY <1>1, AloneInvariance, PTL

=============================================================================
