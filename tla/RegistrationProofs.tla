--------------------------- MODULE RegistrationProofs ---------------------------
(***************************************************************************)
(* Proofs about Registration, and about Membership within it, for any      *)
(* number of users, addresses, invitations, codes, organizations and calls *)
(* in flight.                                                              *)
(***************************************************************************)
EXTENDS Registration, FiniteSetTheorems, TLAPS

(* A call knows what the statement it is at works on: an acceptance its    *)
(* taker and an invitation, which is the taker's once it is claimed, a     *)
(* change its member, a founding its user and, from its row to its owner's,*)
(* the organization.                                                       *)
Accepting == {"existing", "seat", "claim", "latest", "join"}
Changing == {"target", "owners", "write"}
Inviting == {"count", "pending", "insert"}
Founding == {"limit", "tenant", "owner", "undo"}
Result == {"joined", "refused"}
TakenBy(i, u) == invites[i] # None /\ invites[i].by = u
CallInStep(call) ==
  /\ call.pc \in Accepting => /\ call.kind \in {"accept", SignUp}
                              /\ call.user \in Users /\ call.role \in Offers
                              /\ call.invite \in Invites /\ invites[call.invite] # None
  /\ call.pc \in {"existing", "seat"} /\ call.used = 1 => TakenBy(call.invite, call.user)
  /\ call.pc = "join" => TakenBy(call.invite, call.user)
  /\ call.pc \in Changing => call.kind \in {"change", "remove"} /\ call.user \in Users
  /\ call.pc \in {"owners", "write"} => call.row \in MemberRow
  /\ call.pc \in Inviting => call.role \in Offers /\ call.lock \in Locks
  /\ call.pc = "shut" => call.invite \in Invites
  /\ call.pc \in Founding => call.user \in Users
  /\ call.pc \in {"owner", "undo"} => call.team \in Teams
  /\ call.team # None => call.pc \in {"owner", "undo"}

(* A registration and the acceptance it ends with share a slot.            *)
Holding == {"user", "secret", "consume", "session", "accept", "undoUser", "undoClaim"}
Present == {"secret", "consume", "session", "accept"}
Secured == {"consume", "session", "accept"}
SlotInStep(call, reg) ==
  /\ (call.kind = SignUp) <=> (reg.pc # "idle")
  /\ call.kind = SignUp => call.pc # "idle"
  /\ call.pc \in Result \union {"waits"} => call.kind = SignUp
  /\ reg.pc \notin {"idle", "accept"} => call.pc = "waits"
  /\ reg.pc = "accept" => call.pc \in Accepting \union Result /\ call.user = reg.user

(* A registration holds the claim of its address for a user of its own,    *)
(* who is there from the insert to the rollback.                           *)
RegInStep(reg) ==
  /\ reg.pc \in Holding => /\ reg.user \in issued /\ reg.address = Address[reg.user]
                           /\ claims[reg.address] = reg.user
  /\ reg.user # None => reg.pc \in Holding
  /\ reg.pc \in Present => reg.user \in users
  /\ reg.pc \in Secured => reg.user \in secrets /\ reg.form = "register"
  /\ reg.pc = "undoClaim" => reg.user \notin users
  /\ reg.pc # "idle" => reg.address \in Addresses
  /\ reg.pc \in {"code", "consume"} => reg.code \in Codes
  /\ reg.form # "register" => reg.code = None
  /\ reg.pc = "session" /\ reg.invite # None => reg.invite \in Invites
Registering(u) == \E c \in Calls : regs[c].user = u
Own(c) == \A d \in Calls : regs[d].user = regs[c].user /\ regs[c].user # None => d = c
InStep(c) ==
  /\ CallInStep(calls[c]) /\ SlotInStep(calls[c], regs[c]) /\ RegInStep(regs[c]) /\ Own(c)
  /\ calls[c].pc \in Accepting /\ calls[c].kind = "accept"
       => calls[c].user \in users /\ ~Registering(calls[c].user)

(* The address of a user is claimed for that user, and one who was         *)
(* answered is no longer in a registration's hands.                        *)
UsersInStep ==
  /\ \A u \in users : claims[Address[u]] = u
  /\ answered \subseteq secrets /\ answered \subseteq users
  /\ \A u \in answered : ~Registering(u)
BareInv == \A t \in Teams : teams[t] = "bare" => \E c \in Calls : calls[c].team = t

StepInv ==
  /\ MembershipTypeOK /\ RegistrationTypeOK
  /\ admitted \in [Codes -> SUBSET Users]
  /\ InviteAdmitsOne /\ BareInv /\ IsFiniteSet(Members)
  /\ UsersInStep
  /\ \A c \in Calls : InStep(c)

(* Claims are of their users' addresses and, where nothing was lost, who   *)
(* is claimed an address is there or on the way.                           *)
HeldInv ==
  /\ \A a \in Addresses : claims[a] # None => Address[claims[a]] = a
  /\ ~mishap => \A a \in Addresses :
       \/ claims[a] = None \/ claims[a] \in users
       \/ \E c \in Calls : regs[c].pc \in Holding /\ regs[c].user = claims[a]

(* As long as calls come one at a time what a call has read is still so.   *)
OneCall == \A c, d \in Calls : ~At(c, "idle") /\ ~At(d, "idle") => c = d
ReadIsSo(c) ==
  /\ calls[c].pc \in {"owners", "write"} => members[calls[c].user] = calls[c].row
  /\ calls[c].pc = "write" /\ GivesUp(calls[c], calls[c].row)
       => assertAnotherOwner(calls[c].user)
  /\ calls[c].pc \in {"seat", "claim", "latest", "join"}
       => members[calls[c].user] = calls[c].row
  /\ regs[c].user \notin Owners
OwnerInv == Owners # {} /\ \A c \in Calls : ReadIsSo(c)
Consumed(k) == codes[k] \in Users
CodesInStep == \A k \in Codes : admitted[k] # {} => /\ Consumed(k)
                                                   /\ \E u \in Users : admitted[k] = {u}
CodeRead(c) ==
  regs[c].code # None =>
    /\ regs[c].pc \in Holding \union {"claim"} => admitted[regs[c].code] = {}
    /\ regs[c].pc \in {"session", "accept"} => Consumed(regs[c].code)
CodeInv == ~mishap => CodesInStep /\ \A c \in Calls : CodeRead(c)
AloneInv == raced = 0 => OneCall /\ OwnerInv /\ CodeInv
(* What a step may do to invitations that calls rely on.                   *)
InvitesAdvance ==
  \A i \in Invites : invites[i] # None =>
    /\ invites'[i] # None
    /\ invites[i].by # None => invites'[i].by = invites[i].by

-----------------------------------------------------------------------------
(* The records a step writes, field by field.                              *)
CallPcs == {"target", "owners", "write", "count", "pending", "insert", "shut", "existing",
            "seat", "claim", "latest", "join", "limit", "tenant", "owner", "undo"}
OthersStand(c) == \A x \in Calls : x # c => calls'[x] = calls[x]
Same(new, call) ==
  /\ new.kind = call.kind /\ new.user = call.user /\ new.role = call.role
  /\ new.invite = call.invite /\ new.lock = call.lock
Written(c, new) == calls' = [calls EXCEPT ![c] = new]

LEMMA WrittenFields ==
  ASSUME calls \in [Calls -> CallState], NEW c \in Calls, NEW new \in CallState, Written(c, new)
  PROVE  calls' \in [Calls -> CallState] /\ OthersStand(c) /\ calls'[c] = new
BY DEF Written, OthersStand

LEMMA GotoFields ==
  ASSUME calls \in [Calls -> CallState], NEW c \in Calls, NEW pc \in CallPcs, Goto(c, pc)
  PROVE  \E new \in CallState :
           /\ Written(c, new) /\ Same(new, calls[c]) /\ new.pc = pc
           /\ new.row = calls[c].row /\ new.used = calls[c].used /\ new.team = calls[c].team
<1> DEFINE new == [calls[c] EXCEPT !.pc = pc]
<1>1. calls[c] \in CallState
  OBVIOUS
<1>2. new \in CallState
  BY <1>1 DEF CallState, CallPcs
<1>3. /\ Same(new, calls[c]) /\ new.pc = pc
      /\ new.row = calls[c].row /\ new.used = calls[c].used /\ new.team = calls[c].team
  BY <1>1 DEF CallState, Same
<1>4. Written(c, new)
  BY DEF Goto, Written
<1> HIDE DEF new
<1> QED  BY <1>2, <1>3, <1>4

WithRow(c, row, pc) == calls' = [calls EXCEPT ![c].row = row, ![c].pc = pc]
WithUsed(c, n) == calls' = [calls EXCEPT ![c].used = n, ![c].pc = "pending"]
WithTeam(c, t) == calls' = [calls EXCEPT ![c].pc = "owner", ![c].team = t]

LEMMA WithRowFields ==
  ASSUME calls \in [Calls -> CallState], NEW c \in Calls, NEW pc \in CallPcs,
         NEW row \in MemberRow \union {None}, WithRow(c, row, pc)
  PROVE  \E new \in CallState :
           /\ Written(c, new) /\ Same(new, calls[c]) /\ new.pc = pc
           /\ new.row = row /\ new.used = calls[c].used /\ new.team = calls[c].team
<1> DEFINE new == [calls[c] EXCEPT !.row = row, !.pc = pc]
<1>1. calls[c] \in CallState
  OBVIOUS
<1>2. new \in CallState
  BY <1>1 DEF CallState, CallPcs
<1>3. /\ Same(new, calls[c]) /\ new.pc = pc
      /\ new.row = row /\ new.used = calls[c].used /\ new.team = calls[c].team
  BY <1>1 DEF CallState, Same
<1>4. Written(c, new)
  BY <1>1 DEF WithRow, Written, CallState
<1> HIDE DEF new
<1> QED  BY <1>2, <1>3, <1>4

LEMMA WithUsedFields ==
  ASSUME calls \in [Calls -> CallState], NEW c \in Calls, NEW n \in Nat, WithUsed(c, n)
  PROVE  \E new \in CallState :
           /\ Written(c, new) /\ Same(new, calls[c]) /\ new.pc = "pending"
           /\ new.team = calls[c].team
<1> DEFINE new == [calls[c] EXCEPT !.used = n, !.pc = "pending"]
<1>1. calls[c] \in CallState
  OBVIOUS
<1>2. new \in CallState
  BY <1>1 DEF CallState
<1>3. Same(new, calls[c]) /\ new.pc = "pending" /\ new.team = calls[c].team
  BY <1>1 DEF CallState, Same
<1>4. Written(c, new)
  BY <1>1 DEF WithUsed, Written, CallState
<1> HIDE DEF new
<1> QED  BY <1>2, <1>3, <1>4

LEMMA WithTeamFields ==
  ASSUME calls \in [Calls -> CallState], NEW c \in Calls, NEW t \in Teams, WithTeam(c, t)
  PROVE  \E new \in CallState :
           Written(c, new) /\ Same(new, calls[c]) /\ new.pc = "owner" /\ new.team = t
<1> DEFINE new == [calls[c] EXCEPT !.pc = "owner", !.team = t]
<1>1. calls[c] \in CallState
  OBVIOUS
<1>2. new \in CallState
  BY <1>1 DEF CallState
<1>3. Same(new, calls[c]) /\ new.pc = "owner" /\ new.team = t
  BY <1>1 DEF CallState, Same
<1>4. Written(c, new)
  BY <1>1 DEF WithTeam, Written, CallState
<1> HIDE DEF new
<1> QED  BY <1>2, <1>3, <1>4

LEMMA IdleFields ==
  /\ IdleCall \in CallState /\ IdleCall.pc = "idle" /\ IdleCall.kind = "idle"
  /\ IdleCall.team = None /\ IdleCall.user = None
BY DEF IdleCall, CallState, Roles

LEMMA ReturnFields ==
  ASSUME calls \in [Calls -> CallState], NEW c \in Calls, NEW pc \in Result, Return(c, pc)
  PROVE  \E new \in CallState :
           /\ Written(c, new)
           /\ \/ calls[c].kind # SignUp /\ new = IdleCall
              \/ /\ calls[c].kind = SignUp /\ new.pc = pc
                 /\ Same(new, calls[c]) /\ new.team = calls[c].team
<1> DEFINE new == Over(calls[c], pc)
<1>1. calls[c] \in CallState
  OBVIOUS
<1>2. new \in CallState
  BY <1>1, IdleFields DEF CallState, Result, Over
<1>3. \/ calls[c].kind # SignUp /\ new = IdleCall
      \/ /\ calls[c].kind = SignUp /\ new.pc = pc
         /\ Same(new, calls[c]) /\ new.team = calls[c].team
  BY <1>1 DEF CallState, Same, Over
<1>4. Written(c, new)
  BY DEF Return, Written
<1> HIDE DEF new
<1> QED  BY <1>2, <1>3, <1>4

LEMMA BeginFields ==
  ASSUME calls \in [Calls -> CallState], raced \in 0..MaxRaces,
         NEW c \in Calls, NEW u, NEW r, NEW call \in CallState, Begin(c, u, r, call)
  PROVE  /\ \E new \in CallState :
              /\ Written(c, new) /\ Same(new, call) /\ new.pc = call.pc /\ new.team = call.team
         /\ calls[c].pc = "idle" /\ call.kind \in Kinds
         /\ raced' \in 0..MaxRaces
         /\ raced' = 0 => raced = 0 /\ InFlight = {}
<1>1. MaxRaces \in Nat
  BY SeatsAssumption
<1> DEFINE new == [call EXCEPT !.asOwner = members[u].role = "owner"]
<1>2. new \in CallState
  BY DEF CallState
<1>3. Same(new, call) /\ new.pc = call.pc /\ new.team = call.team
  BY DEF CallState, Same
<1>4. Written(c, new)
  BY DEF Begin, Written
<1>5. calls[c].pc = "idle" /\ call.kind \in Kinds /\ CountRace(call.kind)
  BY DEF Begin, At
<1>6. raced' \in 0..MaxRaces /\ (raced' = 0 => raced = 0 /\ InFlight = {})
  BY <1>1, <1>5 DEF CountRace
<1> HIDE DEF new
<1> QED  BY <1>2, <1>3, <1>4, <1>5, <1>6

RegPcs == {"invitation", "code", "claim", "user", "secret", "consume", "session", "accept",
           "undoUser", "undoClaim"}
OtherRegs(c) == \A x \in Calls : x # c => regs'[x] = regs[x]
SameReg(new, reg) == /\ new.form = reg.form /\ new.address = reg.address /\ new.code = reg.code
                     /\ new.invite = reg.invite
RegWritten(c, new) == regs' = [regs EXCEPT ![c] = new]

LEMMA RegWrittenFields ==
  ASSUME regs \in [Calls -> RegState], NEW c \in Calls, NEW new \in RegState, RegWritten(c, new)
  PROVE  regs' \in [Calls -> RegState] /\ OtherRegs(c) /\ regs'[c] = new
BY DEF RegWritten, OtherRegs

LEMMA RegGotoFields ==
  ASSUME regs \in [Calls -> RegState], NEW c \in Calls, NEW pc \in RegPcs, RegGoto(c, pc)
  PROVE  \E new \in RegState :
           RegWritten(c, new) /\ SameReg(new, regs[c]) /\ new.pc = pc /\ new.user = regs[c].user
<1> DEFINE new == [regs[c] EXCEPT !.pc = pc]
<1>1. regs[c] \in RegState
  OBVIOUS
<1>2. new \in RegState
  BY <1>1 DEF RegState, RegPcs
<1>3. SameReg(new, regs[c]) /\ new.pc = pc /\ new.user = regs[c].user
  BY <1>1 DEF RegState, SameReg
<1>4. RegWritten(c, new)
  BY DEF RegGoto, RegWritten
<1> HIDE DEF new
<1> QED  BY <1>2, <1>3, <1>4

LEMMA IdleRegFields ==
  /\ IdleReg \in RegState /\ IdleReg.pc = "idle" /\ IdleReg.user = None
  /\ IdleReg.code = None /\ IdleReg.form = None /\ IdleReg.invite = None
BY DEF IdleReg, RegState

LEMMA RegEndFields ==
  ASSUME regs \in [Calls -> RegState], NEW c \in Calls, RegEnd(c)
  PROVE  RegWritten(c, IdleReg) /\ Written(c, IdleCall)
BY DEF RegEnd, RegWritten, Written

-----------------------------------------------------------------------------
(* Calls that a step of members leaves alone stay in step.                 *)
regVars == <<vaults, codes, regs, history>>
TablesInStep ==
  /\ members \in [Users -> MemberRow \union {None}]
  /\ joins \in [Users -> 0..MaxJoins]
  /\ invites \in [Invites -> InviteRow \union {None}]
  /\ entered \in [Invites -> SUBSET Users]
  /\ raced \in 0..MaxRaces
  /\ teams \in [Teams -> Users \union {None, "bare", "lost"}]
  /\ Members \subseteq users /\ IsFiniteSet(Members)
  /\ InviteAdmitsOne /\ BareInv
AcceptInStep(call) ==
  call.pc \in Accepting /\ call.kind = "accept" => call.user \in users /\ ~Registering(call.user)

LEMMA StepParts ==
  StepInv <=> /\ TablesInStep
              /\ calls \in [Calls -> CallState]
              /\ RegistrationTypeOK /\ admitted \in [Codes -> SUBSET Users] /\ UsersInStep
              /\ \A c \in Calls : /\ CallInStep(calls[c]) /\ SlotInStep(calls[c], regs[c])
                                  /\ RegInStep(regs[c]) /\ Own(c) /\ AcceptInStep(calls[c])
BY DEF StepInv, TablesInStep, MembershipTypeOK, RegistrationTypeOK, InStep, AcceptInStep, Members

LEMMA CallKept ==
  ASSUME NEW call \in CallState, CallInStep(call), InvitesAdvance
  PROVE  CallInStep(call)'
BY NoUserAssumption DEF CallInStep, InvitesAdvance, TakenBy, Accepting

LEMMA MemberStepKeeps ==
  ASSUME StepInv, UNCHANGED regVars, InvitesAdvance, TablesInStep',
         NEW c \in Calls, NEW new \in CallState, Written(c, new),
         CallInStep(new)', SlotInStep(new, regs[c]), AcceptInStep(new)
  PROVE  StepInv'
<1>0. /\ calls \in [Calls -> CallState] /\ RegistrationTypeOK
      /\ admitted \in [Codes -> SUBSET Users] /\ UsersInStep
      /\ \A d \in Calls : /\ CallInStep(calls[d]) /\ SlotInStep(calls[d], regs[d])
                          /\ RegInStep(regs[d]) /\ Own(d) /\ AcceptInStep(calls[d])
  BY StepParts
<1>1. calls' \in [Calls -> CallState] /\ OthersStand(c) /\ calls'[c] = new
  BY <1>0, WrittenFields
<1>2. /\ users' = users /\ claims' = claims /\ secrets' = secrets /\ codes' = codes
      /\ regs' = regs /\ issued' = issued /\ answered' = answered /\ admitted' = admitted
      /\ mishap' = mishap /\ faults' = faults
  BY DEF regVars, vaults, history
<1>3. RegistrationTypeOK'
  BY <1>0, <1>2 DEF RegistrationTypeOK, TablesInStep, Members
<1>4. UsersInStep'
  BY <1>0, <1>2 DEF UsersInStep, Registering
<1>5. ASSUME NEW d \in Calls
      PROVE  /\ CallInStep(calls[d])' /\ SlotInStep(calls[d], regs[d])'
             /\ RegInStep(regs[d])' /\ Own(d)' /\ AcceptInStep(calls[d])'
  <2>1. RegInStep(regs[d])' /\ Own(d)'
    BY <1>0, <1>2 DEF RegInStep, Own
  <2>2. PICK call \in CallState : call = calls'[d]
    BY <1>1
  <2>3. CallInStep(call)'
    <3>1. CASE d = c
      BY <1>1, <2>2, <3>1
    <3>2. CASE d # c
      BY <1>0, <1>1, <2>2, <3>2, CallKept DEF OthersStand
    <3> QED  BY <3>1, <3>2
  <2>4. SlotInStep(call, regs[d]) /\ AcceptInStep(call)
    BY <1>0, <1>1, <2>2 DEF OthersStand
  <2>5. SlotInStep(call, regs[d])' /\ AcceptInStep(call)'
    BY <1>2, <2>4 DEF SlotInStep, AcceptInStep, Registering
  <2> QED  BY <2>1, <2>2, <2>3, <2>5
<1>6. admitted' \in [Codes -> SUBSET Users]
  BY <1>0, <1>2
<1>7. MembershipTypeOK'
  BY <1>1 DEF MembershipTypeOK, TablesInStep
<1> QED  BY <1>3, <1>4, <1>5, <1>6, <1>7 DEF StepInv, InStep, AcceptInStep, TablesInStep

(* The organizations in founding are not touched by another step.          *)
LEMMA BareKept ==
  ASSUME BareInv, NEW c \in Calls, OthersStand(c), calls[c].team = None, UNCHANGED teams
  PROVE  BareInv'
BY NoUserAssumption DEF BareInv, OthersStand

OtherTables ==
  /\ members' \in [Users -> MemberRow \union {None}]
  /\ joins' \in [Users -> 0..MaxJoins]
  /\ invites' \in [Invites -> InviteRow \union {None}]
  /\ entered' \in [Invites -> SUBSET Users]
  /\ raced' \in 0..MaxRaces
  /\ Members' \subseteq users /\ IsFiniteSet(Members') /\ InviteAdmitsOne'

(* A step of one call, of members or of invitations, that goes on or ends. *)
LEMMA MoveKeeps ==
  ASSUME StepInv, UNCHANGED <<regVars, founded>>, InvitesAdvance, OtherTables,
         NEW c \in Calls, NEW new \in CallState, Written(c, new),
         calls[c].team = None,
         CallInStep(new)', SlotInStep(new, regs[c]), AcceptInStep(new)
  PROVE  StepInv'
<1>1. calls \in [Calls -> CallState] /\ BareInv /\ TablesInStep
  BY StepParts DEF TablesInStep
<1>2. UNCHANGED <<regVars, teams>> /\ users' = users
  BY DEF founded, regVars, vaults
<1>3. BareInv'
  BY <1>1, <1>2, WrittenFields, BareKept
<1>4. TablesInStep'
  BY <1>1, <1>2, <1>3 DEF TablesInStep, OtherTables
<1> QED  BY <1>2, <1>4, MemberStepKeeps

LEMMA ReturnInStep ==
  ASSUME StepInv, NEW c \in Calls, calls[c].pc \in CallPcs, NEW pc \in Result, Return(c, pc)
  PROVE  \E new \in CallState :
           /\ Written(c, new) /\ new.pc \in Result \union {"idle"} /\ new.team = None
           /\ CallInStep(new)' /\ SlotInStep(new, regs[c]) /\ AcceptInStep(new)
           /\ new.user \in {calls[c].user, None} /\ new.kind \in {"idle", SignUp}
<1>0. /\ calls \in [Calls -> CallState]
      /\ CallInStep(calls[c]) /\ SlotInStep(calls[c], regs[c])
  BY StepParts
<1>1. PICK new \in CallState :
        /\ Written(c, new)
        /\ \/ calls[c].kind # SignUp /\ new = IdleCall
           \/ /\ calls[c].kind = SignUp /\ new.pc = pc
              /\ Same(new, calls[c]) /\ new.team = calls[c].team
  BY <1>0, ReturnFields
<1>2. /\ new.pc \in Result \union {"idle"} /\ new.user \in {calls[c].user, None}
      /\ new.kind \in {"idle", SignUp}
  BY <1>1, IdleFields DEF Same
<1>3. SlotInStep(new, regs[c]) /\ new.team = None
  <2>1. CASE new = IdleCall /\ calls[c].kind # SignUp
    BY <1>0, <2>1, IdleFields DEF SlotInStep, SignUp, Result, Accepting
  <2>2. CASE calls[c].kind = SignUp /\ new.pc = pc /\ Same(new, calls[c]) /\ new.team = calls[c].team
    <3>1. regs[c].pc = "accept"
      BY <1>0, <2>2 DEF SlotInStep, CallPcs
    <3> QED  BY <1>0, <2>2, <3>1 DEF SlotInStep, CallInStep, Same, Result, Accepting
  <2> QED  BY <1>1, <2>1, <2>2
<1>4. CallInStep(new)' /\ AcceptInStep(new)
  BY <1>2, <1>3 DEF CallInStep, AcceptInStep, Accepting, Changing, Inviting, Founding, Result
<1> QED  BY <1>1, <1>2, <1>3, <1>4

LEMMA ReturnKeeps ==
  ASSUME StepInv, UNCHANGED <<regVars, founded>>, InvitesAdvance, OtherTables,
         NEW c \in Calls, calls[c].pc \in CallPcs \ {"owner", "undo"},
         NEW pc \in Result, Return(c, pc)
  PROVE  StepInv'
<1>1. calls[c].team = None
  BY StepParts DEF CallInStep
<1> QED  BY <1>1, ReturnInStep, MoveKeeps

LEMMA GotoKeeps ==
  ASSUME StepInv, UNCHANGED <<regVars, founded>>, InvitesAdvance, OtherTables,
         NEW c \in Calls, NEW new \in CallState, Written(c, new),
         Same(new, calls[c]), new.team = calls[c].team, calls[c].team = None,
         \/ calls[c].pc \in Accepting /\ new.pc \in Accepting
         \/ calls[c].pc \in Changing /\ new.pc \in Changing /\ new.row \in MemberRow
         \/ calls[c].pc \in Inviting /\ new.pc \in Inviting
         \/ calls[c].pc = "limit" /\ new.pc = "tenant",
         new.pc = "existing" => FALSE,
         new.pc = "seat" /\ new.used = 1 => TakenBy(new.invite, new.user),
         new.pc = "join" => TakenBy(new.invite, new.user)'
  PROVE  StepInv'
<1>0. /\ calls \in [Calls -> CallState] /\ CallInStep(calls[c])
      /\ SlotInStep(calls[c], regs[c]) /\ AcceptInStep(calls[c])
  BY StepParts
<1>1. PICK call \in CallState : call = calls[c]
  BY <1>0
<1>2. CallInStep(call)'
  BY <1>0, <1>1, CallKept
<1>3. new.pc = "seat" /\ new.used = 1 => TakenBy(new.invite, new.user)'
  <2>1. new.pc = "seat" => new.user \in Users /\ new.invite \in Invites
    BY <1>0, <1>1 DEF CallInStep, Same, Accepting, Changing, Inviting
  <2> QED  BY <2>1, NoUserAssumption DEF TakenBy, InvitesAdvance
<1>4. CallInStep(new)'
  BY <1>1, <1>2, <1>3 DEF CallInStep, Same, Accepting, Changing, Inviting, Founding
<1>5. SlotInStep(new, regs[c]) /\ AcceptInStep(new)
  BY <1>0 DEF SlotInStep, AcceptInStep, CallInStep, Same, Accepting, Changing, Inviting, Result, SignUp
<1> QED  BY <1>4, <1>5, MoveKeeps

LEMMA BeginKeeps ==
  ASSUME StepInv, UNCHANGED <<regVars, founded, invites>>, OtherTables,
         NEW c \in Calls, NEW call \in CallState, NEW new \in CallState,
         Written(c, new), Same(new, call), new.pc = call.pc, new.team = call.team,
         calls[c].pc = "idle", call.kind \in AllKinds, call.team = None,
         call.pc \in {"target", "count", "shut", "limit"}, CallInStep(call)
  PROVE  StepInv'
<1>0. CallInStep(calls[c]) /\ SlotInStep(calls[c], regs[c])
  BY StepParts
<1>1. calls[c].team = None /\ regs[c].pc = "idle"
  BY <1>0 DEF CallInStep, SlotInStep
<1>2. InvitesAdvance
  BY DEF InvitesAdvance
<1>3. CallInStep(new)'
  BY DEF CallInStep, Same, Accepting, Changing, Inviting, Founding
<1>4. SlotInStep(new, regs[c]) /\ AcceptInStep(new)
  BY <1>1 DEF SlotInStep, AcceptInStep, Same, Accepting, SignUp, AllKinds, Result
<1> QED  BY <1>1, <1>2, <1>3, <1>4, MoveKeeps

-----------------------------------------------------------------------------
(* Each step of a member or an invitation keeps every call in step.        *)
LEMMA TablesStand ==
  ASSUME StepInv, UNCHANGED <<members, joins, invites, entered>>, raced' \in 0..MaxRaces
  PROVE  OtherTables /\ InvitesAdvance
<1>1. TablesInStep
  BY StepParts
<1> QED  BY <1>1 DEF OtherTables, InvitesAdvance, TablesInStep, InviteAdmitsOne, Members, IsMember

LEMMA BeginsKeep ==
  ASSUME StepInv, UNCHANGED <<regVars, founded>>, NEW c \in Calls,
         NEW u, NEW r, NEW call \in CallState, Begin(c, u, r, call),
         call.team = None, call.pc \in {"target", "count", "shut"}, CallInStep(call)
  PROVE  StepInv'
<1>1. calls \in [Calls -> CallState] /\ raced \in 0..MaxRaces
  BY StepParts DEF TablesInStep
<1>2. UNCHANGED <<members, joins, invites, entered>>
  BY DEF Begin
<1>3. /\ \E new \in CallState :
           Written(c, new) /\ Same(new, call) /\ new.pc = call.pc /\ new.team = call.team
      /\ calls[c].pc = "idle" /\ call.kind \in AllKinds /\ raced' \in 0..MaxRaces
  BY <1>1, BeginFields, KindsAssumption
<1>4. OtherTables
  BY <1>2, <1>3, TablesStand
<1> QED  BY <1>2, <1>3, <1>4, BeginKeeps

LEMMA RoutesKeep ==
  ASSUME StepInv, UNCHANGED <<regVars, founded>>, NEW c \in Calls,
         \/ \E a \in Settled, r \in Offers, l \in Locks : BeginInvite(c, a, r, l)
         \/ \E a \in Settled, u \in Users : BeginRemove(c, a, u)
         \/ \E a \in Settled, u \in Users, r \in Roles : BeginChange(c, a, u, r)
         \/ \E a \in Settled, i \in Invites : BeginRevoke(c, a, i)
  PROVE  StepInv'
<1>1. ASSUME NEW a, NEW r \in Offers, NEW l \in Locks, BeginInvite(c, a, r, l)  PROVE StepInv'
  <2> DEFINE call == [IdleCall EXCEPT !.kind = "invite", !.pc = "count", !.role = r, !.lock = l]
  <2>1. call \in CallState
    BY IdleFields, OffersAssumption DEF CallState, AllKinds, Roles
  <2>2. call.team = None /\ call.pc = "count" /\ CallInStep(call)
    BY DEF IdleCall, CallInStep, Accepting, Changing, Inviting, Founding
  <2>3. Begin(c, a, "admin", call)
    BY <1>1 DEF BeginInvite
  <2> HIDE DEF call
  <2> QED  BY <2>1, <2>2, <2>3, BeginsKeep
<1>2. ASSUME NEW a, NEW u \in Users, BeginRemove(c, a, u)  PROVE StepInv'
  <2> DEFINE call == [IdleCall EXCEPT !.kind = "remove", !.pc = "target", !.user = u]
  <2>1. call \in CallState
    BY IdleFields DEF CallState, AllKinds
  <2>2. call.team = None /\ call.pc = "target" /\ CallInStep(call)
    BY DEF IdleCall, CallInStep, Accepting, Changing, Inviting, Founding
  <2>3. Begin(c, a, "admin", call)
    BY <1>2 DEF BeginRemove
  <2> HIDE DEF call
  <2> QED  BY <2>1, <2>2, <2>3, BeginsKeep
<1>3. ASSUME NEW a, NEW u \in Users, NEW r \in Roles, BeginChange(c, a, u, r)  PROVE StepInv'
  <2> DEFINE call == [IdleCall EXCEPT !.kind = "change", !.pc = "target", !.user = u, !.role = r]
  <2>1. call \in CallState
    BY IdleFields DEF CallState, AllKinds
  <2>2. call.team = None /\ call.pc = "target" /\ CallInStep(call)
    BY DEF IdleCall, CallInStep, Accepting, Changing, Inviting, Founding
  <2>3. Begin(c, a, "admin", call)
    BY <1>3 DEF BeginChange
  <2> HIDE DEF call
  <2> QED  BY <2>1, <2>2, <2>3, BeginsKeep
<1>4. ASSUME NEW a, NEW i \in Invites, BeginRevoke(c, a, i)  PROVE StepInv'
  <2> DEFINE call == [IdleCall EXCEPT !.kind = "revoke", !.pc = "shut", !.invite = i]
  <2>1. call \in CallState
    BY IdleFields DEF CallState, AllKinds
  <2>2. call.team = None /\ call.pc = "shut" /\ CallInStep(call)
    BY DEF IdleCall, CallInStep, Accepting, Changing, Inviting, Founding
  <2>3. Begin(c, a, "admin", call)
    BY <1>4 DEF BeginRevoke
  <2> HIDE DEF call
  <2> QED  BY <2>1, <2>2, <2>3, BeginsKeep
<1> QED  BY <1>1, <1>2, <1>3, <1>4

(* An acceptance begins for a user of no registration, or for the one of   *)
(* the registration it ends.                                               *)
LEMMA AcceptanceFields ==
  ASSUME StepInv, NEW kind \in {"accept", SignUp}, NEW u \in Users, NEW i \in Invites,
         Acceptable(i, u)
  PROVE  /\ Acceptance(kind, u, i) \in CallState /\ CallInStep(Acceptance(kind, u, i))
         /\ Acceptance(kind, u, i).kind = kind /\ Acceptance(kind, u, i).user = u
         /\ Acceptance(kind, u, i).pc = "existing" /\ Acceptance(kind, u, i).team = None
         /\ Acceptance(kind, u, i).role = invites[i].role
<1>1. invites[i] \in InviteRow
  BY StepParts DEF TablesInStep, Acceptable
<1>2. invites[i].role \in Offers /\ invites[i].role \in Roles
  BY <1>1, OffersAssumption DEF InviteRow, Roles
<1>3. PICK role \in Offers : role = invites[i].role /\ role \in Roles
  BY <1>2
<1>4. PICK n \in {0, 1} : n = (IF invites[i].by = u THEN 1 ELSE 0)
  OBVIOUS
<1> DEFINE call == [IdleCall EXCEPT !.kind = kind, !.pc = "existing", !.user = u, !.invite = i,
                                    !.role = role, !.used = n]
<1>5. Acceptance(kind, u, i) = call
  BY <1>3, <1>4 DEF Acceptance
<1>6. call \in CallState
  <2>1. kind \in AllKinds \union {"idle", SignUp} /\ role \in Roles /\ n \in Nat
    BY <1>3 DEF AllKinds
  <2>2. [IdleCall EXCEPT !.kind = kind, !.pc = "existing", !.user = u] \in CallState
    BY <2>1, IdleFields DEF CallState
  <2>3. PICK some \in CallState : some = [IdleCall EXCEPT !.kind = kind, !.pc = "existing", !.user = u]
    BY <2>2
  <2>4. call = [some EXCEPT !.invite = i, !.role = role, !.used = n]
    BY <2>3 DEF IdleCall
  <2>5. [some EXCEPT !.invite = i, !.role = role, !.used = n] \in CallState
    BY <2>1 DEF CallState
  <2> QED  BY <2>4, <2>5
<1>7. /\ call.kind = kind /\ call.user = u /\ call.pc = "existing" /\ call.team = None
      /\ call.role = role /\ call.used = n /\ call.invite = i
  BY DEF IdleCall
<1> HIDE DEF call
<1>8. CallInStep(call)
  BY <1>3, <1>4, <1>7 DEF CallInStep, Accepting, Changing, Inviting, Founding, TakenBy, Acceptable
<1> QED  BY <1>3, <1>5, <1>6, <1>7, <1>8

LEMMA BeginAcceptKeeps ==
  ASSUME StepInv, UNCHANGED <<regVars, founded>>, NEW c \in Calls,
         NEW u \in Settled, NEW i \in Invites, BeginAccept(c, u, i)
  PROVE  StepInv'
<1>0. /\ calls \in [Calls -> CallState] /\ raced \in 0..MaxRaces /\ MaxRaces \in Nat
      /\ CallInStep(calls[c]) /\ SlotInStep(calls[c], regs[c])
      /\ u \in Users /\ u \in users /\ ~Registering(u)
  BY StepParts, SeatsAssumption DEF TablesInStep, Settled, RegistrationTypeOK, Registering
<1> DEFINE new == Acceptance("accept", u, i)
<1>1. /\ calls[c].pc = "idle" /\ Acceptable(i, u) /\ calls' = [calls EXCEPT ![c] = new]
      /\ CountRace("accept") /\ UNCHANGED <<members, joins, invites, entered>>
  BY DEF BeginAccept, At
<1>2. /\ new \in CallState /\ CallInStep(new) /\ new.kind = "accept" /\ new.user = u
      /\ new.pc = "existing" /\ new.team = None
  BY <1>0, <1>1, AcceptanceFields
<1> HIDE DEF new
<1>3. PICK call \in CallState :
        /\ call = new /\ Written(c, call) /\ CallInStep(call) /\ call.kind = "accept"
        /\ call.user = u /\ call.pc = "existing"
  BY <1>1, <1>2 DEF Written
<1>4. raced' \in 0..MaxRaces
  BY <1>0, <1>1 DEF CountRace
<1>5. OtherTables /\ InvitesAdvance
  BY <1>1, <1>4, TablesStand
<1>6. calls[c].team = None /\ regs[c].pc = "idle"
  BY <1>0, <1>1 DEF CallInStep, SlotInStep
<1>7. SlotInStep(call, regs[c]) /\ AcceptInStep(call)
  BY <1>0, <1>3, <1>6 DEF SlotInStep, AcceptInStep, Accepting, SignUp, Result
<1>8. CallInStep(call)'
  BY <1>3, <1>5, CallKept
<1> QED  BY <1>3, <1>5, <1>6, <1>7, <1>8, MoveKeeps

LEMMA ReadTargetKeeps ==
  ASSUME StepInv, UNCHANGED <<regVars, founded>>, NEW c \in Calls, ReadTarget(c)
  PROVE  StepInv'
<1>0. /\ calls \in [Calls -> CallState] /\ raced \in 0..MaxRaces
      /\ calls[c].pc = "target" /\ CallInStep(calls[c])
      /\ members \in [Users -> MemberRow \union {None}]
  BY StepParts DEF TablesInStep, ReadTarget, At
<1>1. OtherTables /\ InvitesAdvance
  BY <1>0, TablesStand DEF ReadTarget, OnlyCalls
<1>2. calls[c].team = None /\ calls[c].user \in Users /\ calls[c].pc \in CallPcs \ {"owner", "undo"}
  BY <1>0 DEF CallInStep, CallPcs, Changing
<1> DEFINE row == members[calls[c].user]
<1>3. CASE End(c)
  BY <1>1, <1>2, <1>3, ReturnKeeps DEF End, Result
<1>4. ASSUME row # None, NEW pc \in {"owners", "write"}, WithRow(c, row, pc)  PROVE StepInv'
  <2>1. PICK new \in CallState :
          /\ Written(c, new) /\ Same(new, calls[c]) /\ new.pc = pc
          /\ new.row = row /\ new.used = calls[c].used /\ new.team = calls[c].team
    <3>1. pc \in CallPcs /\ row \in MemberRow \union {None}
      BY <1>0, <1>2 DEF CallPcs
    <3> HIDE DEF row
    <3> QED  BY <1>0, <1>4, <3>1, WithRowFields
  <2>2. new.row \in MemberRow
    BY <1>0, <1>2, <1>4, <2>1
  <2> HIDE DEF row
  <2> QED  BY <1>0, <1>1, <1>2, <2>1, <2>2, GotoKeeps DEF Changing, Accepting
<1>5. \/ End(c)
      \/ row # None /\ \E pc \in {"owners", "write"} : WithRow(c, row, pc)
  BY DEF ReadTarget, WithRow
<1> QED  BY <1>3, <1>4, <1>5

LEMMA PlainKeeps ==
  ASSUME StepInv, UNCHANGED <<regVars, founded>>, OnlyCalls, NEW c \in Calls,
         NEW pc \in CallPcs, Goto(c, pc),
         \/ calls[c].pc = "owners" /\ pc = "write"
         \/ calls[c].pc = "pending" /\ pc = "insert"
         \/ calls[c].pc = "limit" /\ pc = "tenant"
         \/ calls[c].pc = "seat" /\ pc = ClaimOrJoin(calls[c])
         \/ calls[c].pc = "latest" /\ pc = "join" /\ TakenBy(calls[c].invite, calls[c].user)
  PROVE  StepInv'
<1>0. calls \in [Calls -> CallState] /\ raced \in 0..MaxRaces /\ CallInStep(calls[c])
  BY StepParts DEF TablesInStep
<1>1. OtherTables /\ InvitesAdvance /\ UNCHANGED invites
  BY <1>0, TablesStand DEF OnlyCalls
<1>2. calls[c].team = None
  BY <1>0 DEF CallInStep
<1>3. PICK new \in CallState :
        /\ Written(c, new) /\ Same(new, calls[c]) /\ new.pc = pc
        /\ new.row = calls[c].row /\ new.used = calls[c].used /\ new.team = calls[c].team
  BY <1>0, GotoFields
<1>4. new.pc = "join" => TakenBy(new.invite, new.user)'
  BY <1>0, <1>1, <1>3 DEF CallInStep, ClaimOrJoin, TakenBy, Same
<1>5. \/ calls[c].pc \in Accepting /\ new.pc \in Accepting /\ new.pc \notin {"existing", "seat"}
      \/ calls[c].pc \in Changing /\ new.pc \in Changing /\ new.row \in MemberRow
      \/ calls[c].pc \in Inviting /\ new.pc \in Inviting
      \/ calls[c].pc = "limit" /\ new.pc = "tenant"
  BY <1>0, <1>3 DEF CallInStep, Accepting, Changing, Inviting, ClaimOrJoin
<1>6. new.pc \notin {"existing", "seat"}
  BY <1>5 DEF Changing, Inviting
<1> QED  BY <1>1, <1>2, <1>3, <1>4, <1>5, <1>6, GotoKeeps

LEMMA PlainEndKeeps ==
  ASSUME StepInv, UNCHANGED <<regVars, founded>>, OnlyCalls, NEW c \in Calls, End(c),
         calls[c].pc \in CallPcs \ {"owner", "undo"}
  PROVE  StepInv'
<1>1. raced \in 0..MaxRaces
  BY StepParts DEF TablesInStep
<1> QED  BY <1>1, TablesStand, ReturnKeeps DEF OnlyCalls, End, Result

LEMMA ChecksKeep ==
  ASSUME StepInv, UNCHANGED <<regVars, founded>>, NEW c \in Calls,
         \/ CheckOwners(c) \/ CountPending(c) \/ TakeSeat(c) \/ Latest(c) \/ CheckPlan(c)
  PROVE  StepInv'
<1>0. calls \in [Calls -> CallState] /\ CallInStep(calls[c]) /\ calls[c] \in CallState
  BY StepParts
<1>1. CASE CheckOwners(c)
  BY <1>0, <1>1, PlainKeeps, PlainEndKeeps DEF CheckOwners, At, CallPcs
<1>2. CASE CountPending(c)
  BY <1>0, <1>2, PlainKeeps, PlainEndKeeps DEF CountPending, At, CallPcs
<1>3. CASE TakeSeat(c)
  <2>1. ClaimOrJoin(calls[c]) \in CallPcs
    BY DEF ClaimOrJoin, CallPcs
  <2> QED  BY <1>0, <1>3, <2>1, PlainKeeps, PlainEndKeeps DEF TakeSeat, At, CallPcs
<1>4. CASE Latest(c)
  <2>1. calls[c].pc = "latest" /\ invites[calls[c].invite] # None
    BY <1>0, <1>4 DEF Latest, At, CallInStep, Accepting
  <2> QED  BY <1>0, <1>4, <2>1, PlainKeeps, PlainEndKeeps DEF Latest, CallPcs, TakenBy
<1>5. CASE CheckPlan(c)
  BY <1>0, <1>5, PlainKeeps, PlainEndKeeps DEF CheckPlan, At, CallPcs
<1> QED  BY <1>1, <1>2, <1>3, <1>4, <1>5

LEMMA CountMembersKeeps ==
  ASSUME StepInv, UNCHANGED <<regVars, founded>>, NEW c \in Calls, CountMembers(c)
  PROVE  StepInv'
<1>0. /\ calls \in [Calls -> CallState] /\ raced \in 0..MaxRaces /\ CallInStep(calls[c])
      /\ calls[c].pc = "count" /\ IsFiniteSet(Members)
  BY StepParts DEF TablesInStep, CountMembers, At
<1>1. OtherTables /\ InvitesAdvance
  BY <1>0, TablesStand DEF CountMembers, OnlyCalls
<1>2. PICK n \in Nat : WithUsed(c, n)
  BY <1>0, FS_CardinalityType DEF CountMembers, WithUsed
<1>3. PICK new \in CallState :
        /\ Written(c, new) /\ Same(new, calls[c]) /\ new.pc = "pending" /\ new.team = calls[c].team
  BY <1>0, <1>2, WithUsedFields
<1>4. calls[c].team = None
  BY <1>0 DEF CallInStep
<1> QED  BY <1>0, <1>1, <1>3, <1>4, GotoKeeps DEF Inviting

LEMMA ReadExistingKeeps ==
  ASSUME StepInv, UNCHANGED <<regVars, founded>>, NEW c \in Calls, ReadExisting(c)
  PROVE  StepInv'
<1>0. /\ calls \in [Calls -> CallState] /\ raced \in 0..MaxRaces /\ CallInStep(calls[c])
      /\ calls[c].pc = "existing" /\ members \in [Users -> MemberRow \union {None}]
  BY StepParts DEF TablesInStep, ReadExisting, At
<1>1. OtherTables /\ InvitesAdvance /\ UNCHANGED invites
  BY <1>0, TablesStand DEF ReadExisting, OnlyCalls
<1>2. calls[c].team = None /\ calls[c].user \in Users
  BY <1>0 DEF CallInStep, Accepting
<1>3. PICK row \in MemberRow \union {None}, pc \in {"seat", "claim", "join"} :
        WithRow(c, row, pc) /\ (pc = "join" => calls[c].used = 1)
  <2>1. members[calls[c].user] \in MemberRow \union {None}
    BY <1>0, <1>2
  <2> QED  BY <2>1 DEF ReadExisting, WithRow, ClaimOrJoin
<1>4. PICK new \in CallState :
        /\ Written(c, new) /\ Same(new, calls[c]) /\ new.pc = pc
        /\ new.row = row /\ new.used = calls[c].used /\ new.team = calls[c].team
  <2>1. pc \in CallPcs
    BY DEF CallPcs
  <2> QED  BY <1>0, <1>3, <2>1, WithRowFields
<1>5. /\ new.pc = "seat" /\ new.used = 1 => TakenBy(new.invite, new.user)
      /\ new.pc = "join" => TakenBy(new.invite, new.user)'
  BY <1>0, <1>1, <1>3, <1>4 DEF CallInStep, Same, TakenBy
<1> QED  BY <1>0, <1>1, <1>2, <1>4, <1>5, GotoKeeps DEF Accepting

(* A change or a removal keeps the rows of others.                         *)
LEMMA WriteKeepsTables ==
  ASSUME StepInv, NEW u \in Users, NEW row, NEW role \in Roles, UNCHANGED <<users, joins, entered, invites, raced>>,
         SetRole(u, row, role) \/ DropRow(u, row)
  PROVE  OtherTables /\ InvitesAdvance
<1>0. TablesInStep
  BY StepParts
<1>1. /\ members' \in [Users -> MemberRow \union {None}]
      /\ \A v \in Users : members[v] = None => members'[v] = None
  <2>1. CASE members' = members
    BY <1>0, <2>1 DEF TablesInStep
  <2>2. CASE members' = [members EXCEPT ![u] = None]
    BY <1>0, <2>2 DEF TablesInStep
  <2>3. CASE IsMember(u) /\ members' = [members EXCEPT ![u].role = role]
    <3>1. [members[u] EXCEPT !.role = role] \in MemberRow
      BY <1>0, <2>3 DEF TablesInStep, IsMember, MemberRow
    <3>2. members' = [members EXCEPT ![u] = [members[u] EXCEPT !.role = role]]
      BY <2>3
    <3> HIDE DEF SetRole
    <3> QED  BY <1>0, <2>3, <3>1, <3>2 DEF TablesInStep, IsMember
  <2> QED  BY <2>1, <2>2, <2>3 DEF SetRole, DropRow, IsRow
<1>2. Members' \subseteq Members
  BY <1>1 DEF Members, IsMember
<1>3. IsFiniteSet(Members')
  BY <1>0, <1>2, FS_Subset DEF TablesInStep
<1> QED  BY <1>0, <1>1, <1>2, <1>3 DEF OtherTables, TablesInStep, InvitesAdvance, InviteAdmitsOne

LEMMA WriteChangeKeeps ==
  ASSUME StepInv, UNCHANGED <<regVars, founded>>, NEW c \in Calls, WriteChange(c)
  PROVE  StepInv'
<1>0. /\ calls \in [Calls -> CallState] /\ CallInStep(calls[c]) /\ calls[c].pc = "write"
      /\ calls[c] \in CallState
  BY StepParts DEF WriteChange, At
<1>1. /\ calls[c].user \in Users /\ calls[c].role \in Roles
      /\ UNCHANGED <<users, joins, entered, raced>> /\ End(c)
  BY <1>0 DEF CallInStep, CallState, Changing, regVars, vaults, WriteChange
<1>2. OtherTables /\ InvitesAdvance
  BY <1>0, <1>1, WriteKeepsTables DEF WriteChange
<1> QED  BY <1>0, <1>1, <1>2, ReturnKeeps DEF End, Result, CallPcs

(* Tables after an invitation's row changed.                               *)
LEMMA InviteKeepsTables ==
  ASSUME StepInv, NEW i \in Invites, NEW row \in InviteRow, UNCHANGED <<users, members, joins, entered, raced>>,
         invites' = [invites EXCEPT ![i] = row],
         invites[i] # None => (invites[i].by # None => row.by = invites[i].by),
         ~(row.by # None /\ row.revoked)
  PROVE  OtherTables /\ InvitesAdvance
<1>0. TablesInStep /\ InviteAdmitsOne
  BY StepParts DEF TablesInStep
<1>1. invites' \in [Invites -> InviteRow \union {None}] /\ InvitesAdvance
  BY <1>0, RowAssumption DEF TablesInStep, InvitesAdvance
<1>2. InviteAdmitsOne'
  <2> SUFFICES ASSUME NEW j \in Invites
               PROVE  /\ entered'[j] \subseteq (IF invites'[j] = None THEN {} ELSE {invites'[j].by})
                      /\ invites'[j] # None => ~(invites'[j].by # None /\ invites'[j].revoked)
    BY DEF InviteAdmitsOne
  <2>1. CASE j # i
    BY <1>0, <2>1 DEF InviteAdmitsOne, TablesInStep
  <2>2. CASE j = i
    <3>1. invites'[i] = row /\ row # None
      BY <1>0, RowAssumption DEF TablesInStep
    <3>2. entered[i] \subseteq {row.by}
      <4>1. \A u \in entered[i] : u \in Users /\ u # None
        BY <1>0, NoUserAssumption DEF TablesInStep
      <4> QED  BY <1>0, <4>1 DEF InviteAdmitsOne
    <3> QED  BY <2>2, <3>1, <3>2
  <2> QED  BY <2>1, <2>2
<1> QED  BY <1>0, <1>1, <1>2 DEF OtherTables, TablesInStep, Members, IsMember

LEMMA InsertInviteKeeps ==
  ASSUME StepInv, UNCHANGED <<regVars, founded>>, NEW c \in Calls, InsertInvite(c)
  PROVE  StepInv'
<1>0. /\ calls \in [Calls -> CallState] /\ CallInStep(calls[c]) /\ calls[c].pc = "insert"
      /\ UNCHANGED <<users, members, joins, entered, raced>> /\ End(c)
  BY StepParts DEF InsertInvite, At, regVars, vaults
<1>1. calls[c].role \in Offers /\ calls[c].lock \in Locks
  BY <1>0 DEF CallInStep, Inviting
<1>2. PICK i \in Invites, row \in InviteRow :
        invites[i] = None /\ invites' = [invites EXCEPT ![i] = row] /\ row.by = None
  <2>1. [role |-> calls[c].role, lock |-> calls[c].lock, by |-> None, revoked |-> FALSE,
         late |-> FALSE] \in InviteRow
    BY <1>1 DEF InviteRow
  <2> QED  BY <2>1 DEF InsertInvite
<1>3. OtherTables /\ InvitesAdvance
  BY <1>0, <1>2, InviteKeepsTables
<1> QED  BY <1>0, <1>3, ReturnKeeps DEF End, Result, CallPcs

LEMMA ShutKeeps ==
  ASSUME StepInv, UNCHANGED <<regVars, founded>>, NEW c \in Calls, Shut(c)
  PROVE  StepInv'
<1>0. /\ calls \in [Calls -> CallState] /\ CallInStep(calls[c]) /\ calls[c].pc = "shut"
      /\ UNCHANGED <<users, members, joins, entered, raced>> /\ End(c)
      /\ invites \in [Invites -> InviteRow \union {None}] /\ raced \in 0..MaxRaces
  BY StepParts DEF Shut, At, regVars, vaults, TablesInStep
<1> DEFINE i == calls[c].invite
<1>1. i \in Invites
  BY <1>0 DEF CallInStep
<1>2. CASE Revocable(i)
  <2>1. PICK row \in InviteRow : row = [invites[i] EXCEPT !.revoked = TRUE] /\ row.by = invites[i].by
    <3>1. invites[i] \in InviteRow
      BY <1>0, <1>1, <1>2 DEF Revocable
    <3> HIDE DEF i
    <3>2. [invites[i] EXCEPT !.revoked = TRUE] \in InviteRow
      BY <3>1 DEF InviteRow
    <3>3. [invites[i] EXCEPT !.revoked = TRUE].by = invites[i].by
      BY <3>1 DEF InviteRow
    <3> QED  BY <3>2, <3>3
  <2>2. invites' = [invites EXCEPT ![i] = row] /\ row.by = None
    BY <1>2, <2>1 DEF Shut, Revocable
  <2>3. OtherTables /\ InvitesAdvance
    BY <1>0, <1>1, <2>1, <2>2, InviteKeepsTables
  <2> QED  BY <1>0, <2>3, ReturnKeeps DEF End, Result, CallPcs
<1>3. CASE ~Revocable(i)
  <2>1. UNCHANGED invites
    BY <1>3 DEF Shut
  <2>2. OtherTables /\ InvitesAdvance
    BY <1>0, <2>1, TablesStand
  <2> QED  BY <1>0, <2>2, ReturnKeeps DEF End, Result, CallPcs
<1> QED  BY <1>2, <1>3

LEMMA ClaimKeeps ==
  ASSUME StepInv, UNCHANGED <<regVars, founded>>, NEW c \in Calls, Claim(c)
  PROVE  StepInv'
<1>0. /\ calls \in [Calls -> CallState] /\ CallInStep(calls[c]) /\ calls[c].pc = "claim"
      /\ UNCHANGED <<users, members, joins, entered, raced>>
      /\ invites \in [Invites -> InviteRow \union {None}] /\ raced \in 0..MaxRaces
  BY StepParts DEF Claim, At, regVars, vaults, TablesInStep
<1> DEFINE i == calls[c].invite
           u == calls[c].user
<1>1. i \in Invites /\ u \in Users /\ calls[c].team = None
  BY <1>0 DEF CallInStep, Accepting
<1>2. CASE Open(i)
  <2>1. PICK row \in InviteRow : /\ row = [invites[i] EXCEPT !.by = u]
                                 /\ row.by = u /\ row.revoked = invites[i].revoked
    <3>1. invites[i] \in InviteRow /\ u \in Users
      BY <1>0, <1>1, <1>2 DEF Open
    <3> HIDE DEF i, u
    <3>2. [invites[i] EXCEPT !.by = u] \in InviteRow
      BY <3>1 DEF InviteRow
    <3>3. /\ [invites[i] EXCEPT !.by = u].by = u
          /\ [invites[i] EXCEPT !.by = u].revoked = invites[i].revoked
      BY <3>1 DEF InviteRow
    <3> QED  BY <3>2, <3>3
  <2>2. /\ invites' = [invites EXCEPT ![i] = row] /\ ~row.revoked /\ Goto(c, "join")
        /\ invites[i].by = None
    BY <1>2, <2>1 DEF Claim, Open
  <2>3. OtherTables /\ InvitesAdvance
    BY <1>0, <1>1, <2>1, <2>2, InviteKeepsTables
  <2>4. PICK new \in CallState :
          /\ Written(c, new) /\ Same(new, calls[c]) /\ new.pc = "join"
          /\ new.team = calls[c].team
    BY <1>0, <2>2, GotoFields DEF CallPcs
  <2>5. TakenBy(new.invite, new.user)'
    <3>1. invites'[i] = row
      BY <1>0, <1>1, <2>2
    <3>2. new.invite = i /\ new.user = u
      BY <2>4 DEF Same
    <3> QED  BY <2>1, <3>1, <3>2, RowAssumption DEF TakenBy
  <2> QED  BY <1>0, <1>1, <2>3, <2>4, <2>5, GotoKeeps DEF Accepting, Same
<1>3. CASE ~Open(i)
  <2>1. UNCHANGED invites /\ Goto(c, "latest")
    BY <1>3 DEF Claim
  <2>2. OtherTables /\ InvitesAdvance
    BY <1>0, <2>1, TablesStand
  <2>3. PICK new \in CallState :
          /\ Written(c, new) /\ Same(new, calls[c]) /\ new.pc = "latest"
          /\ new.team = calls[c].team
    BY <1>0, <2>1, GotoFields DEF CallPcs
  <2> QED  BY <1>0, <1>1, <2>2, <2>3, GotoKeeps DEF Accepting
<1> QED  BY <1>2, <1>3

LEMMA ExpireKeeps ==
  ASSUME StepInv, UNCHANGED <<regVars, founded>>, NEW i \in Invites, Expire(i)
  PROVE  StepInv'
<1>0. /\ TablesInStep /\ calls \in [Calls -> CallState] /\ RegistrationTypeOK
      /\ admitted \in [Codes -> SUBSET Users] /\ UsersInStep
      /\ \A d \in Calls : /\ CallInStep(calls[d]) /\ SlotInStep(calls[d], regs[d])
                          /\ RegInStep(regs[d]) /\ Own(d) /\ AcceptInStep(calls[d])
  BY StepParts
<1>1. UNCHANGED <<users, claims, secrets, codes, regs, issued, answered, admitted, mishap, faults, teams,
                  members, joins, calls, entered, raced>>
  BY DEF regVars, vaults, history, founded, Expire
<1>2. PICK row \in InviteRow : /\ row = [invites[i] EXCEPT !.late = TRUE]
                               /\ row.by = invites[i].by /\ row.revoked = invites[i].revoked
  <2>1. invites[i] \in InviteRow
    BY <1>0 DEF TablesInStep, Expire
  <2>2. [invites[i] EXCEPT !.late = TRUE] \in InviteRow
    BY <2>1 DEF InviteRow
  <2>3. /\ [invites[i] EXCEPT !.late = TRUE].by = invites[i].by
        /\ [invites[i] EXCEPT !.late = TRUE].revoked = invites[i].revoked
    BY <2>1 DEF InviteRow
  <2> QED  BY <2>2, <2>3
<1>3. invites' = [invites EXCEPT ![i] = row] /\ invites[i] # None
  BY <1>2 DEF Expire
<1>4. OtherTables /\ InvitesAdvance
  BY <1>0, <1>1, <1>2, <1>3, InviteKeepsTables DEF TablesInStep, InviteAdmitsOne
<1>5. \A d \in Calls : CallInStep(calls[d])'
  <2> TAKE d \in Calls
  <2>1. PICK call \in CallState : call = calls[d]
    BY <1>0
  <2> QED  BY <1>0, <1>1, <1>4, <2>1, CallKept
<1>6. \A d \in Calls : SlotInStep(calls[d], regs[d])' /\ RegInStep(regs[d])' /\ Own(d)' /\ AcceptInStep(calls[d])'
  BY <1>0, <1>1 DEF SlotInStep, RegInStep, Own, AcceptInStep, Registering
<1>7. MembershipTypeOK' /\ RegistrationTypeOK' /\ BareInv' /\ UsersInStep'
  BY <1>0, <1>1, <1>4 DEF OtherTables, TablesInStep, MembershipTypeOK, RegistrationTypeOK, BareInv,
     UsersInStep, Registering, IsMember
<1> QED  BY <1>0, <1>1, <1>4, <1>5, <1>6, <1>7 DEF OtherTables, StepInv, InStep, AcceptInStep

(* Whoever accepts is a user, of no registration or of the one it ends.    *)
LEMMA TakerIsUser ==
  ASSUME StepInv, NEW c \in Calls, calls[c].pc \in Accepting
  PROVE  calls[c].user \in users
<1>0. CallInStep(calls[c]) /\ SlotInStep(calls[c], regs[c]) /\ RegInStep(regs[c]) /\ AcceptInStep(calls[c])
  BY StepParts
<1> QED  BY <1>0 DEF CallInStep, SlotInStep, RegInStep, AcceptInStep, Present, Accepting

LEMMA JoinKeeps ==
  ASSUME StepInv, UNCHANGED <<regVars, founded>>, NEW c \in Calls, Join(c)
  PROVE  StepInv'
<1>0. /\ calls \in [Calls -> CallState] /\ CallInStep(calls[c]) /\ calls[c].pc = "join"
      /\ UNCHANGED <<users, invites, raced>> /\ Return(c, "joined") /\ TablesInStep
  BY StepParts DEF Join, At, regVars, vaults
<1> DEFINE u == calls[c].user
           i == calls[c].invite
<1>1. u \in Users /\ i \in Invites /\ u \in users /\ calls[c].role \in Offers /\ TakenBy(i, u)
  BY <1>0, TakerIsUser DEF CallInStep, Accepting
<1>2. calls[c].role \in Roles
  BY <1>1, OffersAssumption DEF Roles
<1>3. OtherTables /\ InvitesAdvance
  <2>1. CASE UNCHANGED <<members, joins, entered>>
    BY <1>0, <2>1, TablesStand DEF TablesInStep
  <2>2. CASE SetRole(u, calls[c].row, calls[c].role) /\ UNCHANGED <<joins, entered>>
    BY <1>0, <1>1, <1>2, <2>2, WriteKeepsTables
  <2>3. ASSUME joins[u] < MaxJoins, ~IsMember(u),
               members' = [members EXCEPT ![u] = [id |-> joins[u] + 1, role |-> calls[c].role]],
               joins' = [joins EXCEPT ![u] = @ + 1],
               entered' = [entered EXCEPT ![i] = @ \union {u}]
        PROVE  OtherTables /\ InvitesAdvance
    <3>1. MaxJoins \in Nat /\ joins[u] \in 0..MaxJoins
      BY <1>0, <1>1, SeatsAssumption DEF TablesInStep
    <3>2. joins[u] + 1 \in 1..MaxJoins /\ joins[u] + 1 \in 0..MaxJoins
      BY <2>3, <3>1
    <3>3. joins' \in [Users -> 0..MaxJoins]
      BY <1>0, <2>3, <3>2 DEF TablesInStep
    <3>4. PICK row \in MemberRow : members' = [members EXCEPT ![u] = row]
      <4>1. [id |-> joins[u] + 1, role |-> calls[c].role] \in MemberRow
        BY <1>2, <3>2 DEF MemberRow
      <4> QED  BY <2>3, <4>1
    <3>5. members' \in [Users -> MemberRow \union {None}] /\ Members' = Members \union {u}
      BY <1>0, <1>1, <3>4, RowAssumption DEF TablesInStep, Members, IsMember
    <3>6. IsFiniteSet(Members')
      BY <1>0, <3>5, FS_AddElement DEF TablesInStep
    <3>7. entered' \in [Invites -> SUBSET Users]
      BY <1>0, <1>1, <2>3 DEF TablesInStep
    <3>8. InviteAdmitsOne'
      <4> SUFFICES ASSUME NEW j \in Invites
                   PROVE  /\ entered'[j] \subseteq (IF invites[j] = None THEN {} ELSE {invites[j].by})
                          /\ invites[j] # None => ~(invites[j].by # None /\ invites[j].revoked)
        BY <1>0 DEF InviteAdmitsOne
      <4>1. /\ entered[j] \subseteq (IF invites[j] = None THEN {} ELSE {invites[j].by})
            /\ invites[j] # None => ~(invites[j].by # None /\ invites[j].revoked)
        BY <1>0 DEF InviteAdmitsOne, TablesInStep
      <4>2. CASE j # i
        BY <1>0, <1>1, <2>3, <4>1, <4>2 DEF TablesInStep
      <4>3. CASE j = i
        <5>1. entered'[i] = entered[i] \union {u}
          BY <1>0, <1>1, <2>3 DEF TablesInStep
        <5> QED  BY <1>1, <4>1, <4>3, <5>1 DEF TakenBy
      <4> QED  BY <4>2, <4>3
    <3> QED  BY <1>0, <1>1, <3>3, <3>5, <3>6, <3>7, <3>8 DEF OtherTables, TablesInStep, InvitesAdvance
  <2> QED  BY <2>1, <2>2, <2>3 DEF Join, InsertRow
<1> QED  BY <1>0, <1>3, ReturnKeeps DEF Result, CallPcs

-----------------------------------------------------------------------------
(* Founding further organizations.                                         *)
LEMMA BeginFoundKeeps ==
  ASSUME StepInv, UNCHANGED <<regVars, scene>>, NEW c \in Calls, NEW u \in Settled, BeginFound(c, u)
  PROVE  StepInv'
<1>0. calls \in [Calls -> CallState] /\ raced \in 0..MaxRaces /\ MaxRaces \in Nat /\ u \in Users
  BY StepParts, SeatsAssumption DEF TablesInStep, Settled, RegistrationTypeOK
<1> DEFINE call == [IdleCall EXCEPT !.kind = "found", !.pc = "limit", !.user = u]
<1>1. call \in CallState
  BY <1>0, IdleFields DEF CallState, AllKinds
<1>2. /\ call.team = None /\ call.pc = "limit" /\ call.kind = "found" /\ CallInStep(call)
  BY <1>0 DEF IdleCall, CallInStep, Accepting, Changing, Inviting, Founding
<1>3. /\ Written(c, call) /\ calls[c].pc = "idle" /\ CountRace("found")
      /\ UNCHANGED <<members, joins, invites, entered, founded>>
  BY DEF BeginFound, Written, At, founded
<1> HIDE DEF call
<1>4. raced' \in 0..MaxRaces
  BY <1>0, <1>3 DEF CountRace
<1>5. OtherTables
  BY <1>3, <1>4, TablesStand
<1>6. Same(call, call)
  BY DEF Same
<1> QED  BY <1>1, <1>2, <1>3, <1>5, <1>6, BeginKeeps DEF AllKinds

LEMMA TeamTables ==
  ASSUME StepInv, UNCHANGED regVars, OnlyCalls,
         teams' \in [Teams -> Users \union {None, "bare", "lost"}], BareInv'
  PROVE  TablesInStep' /\ InvitesAdvance
<1>0. TablesInStep /\ users' = users
  BY StepParts DEF regVars, vaults
<1> QED  BY <1>0 DEF TablesInStep, OnlyCalls, Members, IsMember, InviteAdmitsOne, InvitesAdvance

LEMMA InsertTeamKeeps ==
  ASSUME StepInv, UNCHANGED <<regVars, scene>>, NEW c \in Calls, InsertTeam(c)
  PROVE  StepInv'
<1>0. /\ calls \in [Calls -> CallState] /\ CallInStep(calls[c]) /\ SlotInStep(calls[c], regs[c])
      /\ calls[c].pc = "tenant" /\ TablesInStep /\ OnlyCalls
  BY StepParts DEF InsertTeam, At
<1>1. PICK t \in Teams : /\ teams[t] = None /\ teams' = [teams EXCEPT ![t] = "bare"]
                         /\ WithTeam(c, t)
  BY DEF InsertTeam, WithTeam
<1>2. PICK new \in CallState :
        Written(c, new) /\ Same(new, calls[c]) /\ new.pc = "owner" /\ new.team = t
  BY <1>0, <1>1, WithTeamFields
<1>3. calls[c].team = None /\ OthersStand(c) /\ calls'[c] = new /\ calls' \in [Calls -> CallState]
  BY <1>0, <1>2, WrittenFields DEF CallInStep
<1>4. BareInv'
  BY <1>0, <1>1, <1>2, <1>3, NoUserAssumption DEF BareInv, TablesInStep, OthersStand
<1>5. teams' \in [Teams -> Users \union {None, "bare", "lost"}]
  BY <1>0, <1>1 DEF TablesInStep
<1>6. TablesInStep' /\ InvitesAdvance
  BY <1>0, <1>4, <1>5, TeamTables
<1>7. CallInStep(new)'
  BY <1>0, <1>2 DEF CallInStep, Same, Accepting, Changing, Inviting, Founding
<1>8. SlotInStep(new, regs[c]) /\ AcceptInStep(new)
  BY <1>0, <1>2 DEF SlotInStep, AcceptInStep, Same, Accepting, Result, SignUp
<1> QED  BY <1>2, <1>6, <1>7, <1>8, MemberStepKeeps

(* The last step of a founding settles its organization.                   *)
LEMMA TeamEndKeeps ==
  ASSUME StepInv, UNCHANGED <<regVars, scene>>, OnlyCalls, NEW c \in Calls, End(c),
         calls[c].pc \in {"owner", "undo"},
         NEW x \in Users \union {None, "lost"}, teams' = [teams EXCEPT ![calls[c].team] = x]
  PROVE  StepInv'
<1>0. /\ calls \in [Calls -> CallState] /\ CallInStep(calls[c]) /\ TablesInStep
  BY StepParts
<1>1. calls[c].team \in Teams /\ x # "bare" /\ BareInv
  BY <1>0, RowAssumption, NoUserAssumption DEF CallInStep, TablesInStep
<1>2. PICK new \in CallState :
           /\ Written(c, new) /\ CallInStep(new)' /\ SlotInStep(new, regs[c]) /\ AcceptInStep(new)
  BY ReturnInStep DEF End, Result, CallPcs
<1>3. OthersStand(c)
  BY <1>0, <1>2, WrittenFields
<1>4. BareInv'
  BY <1>0, <1>1, <1>3 DEF BareInv, TablesInStep, OthersStand
<1>5. teams' \in [Teams -> Users \union {None, "bare", "lost"}]
  BY <1>0 DEF TablesInStep
<1>6. TablesInStep' /\ InvitesAdvance
  BY <1>4, <1>5, TeamTables
<1> QED  BY <1>2, <1>6, MemberStepKeeps

LEMMA FoundingKeeps ==
  ASSUME StepInv, UNCHANGED <<regVars, scene>>, NEW c \in Calls,
         OwnTeam(c) \/ UndoTeam(c) \/ LoseTeam(c)
  PROVE  StepInv'
<1>0. /\ calls \in [Calls -> CallState] /\ CallInStep(calls[c]) /\ SlotInStep(calls[c], regs[c])
      /\ TablesInStep /\ OnlyCalls /\ calls[c].pc \in {"owner", "undo"}
  BY StepParts DEF OwnTeam, UndoTeam, LoseTeam, At
<1>1. calls[c].user \in Users
  BY <1>0 DEF CallInStep, Founding
<1>2. ASSUME Goto(c, "undo"), UNCHANGED teams, calls[c].pc = "owner"  PROVE StepInv'
  <2>1. PICK new \in CallState :
          /\ Written(c, new) /\ Same(new, calls[c]) /\ new.pc = "undo" /\ new.team = calls[c].team
    BY <1>0, <1>2, GotoFields DEF CallPcs
  <2>2. OthersStand(c) /\ calls'[c] = new
    BY <1>0, <2>1, WrittenFields
  <2>3. BareInv'
    BY <1>0, <1>2, <2>1, <2>2 DEF BareInv, TablesInStep, OthersStand
  <2>4. TablesInStep' /\ InvitesAdvance
    BY <1>0, <1>2, <2>3, TeamTables DEF TablesInStep
  <2>5. CallInStep(new)'
    BY <1>0, <1>2, <2>1 DEF CallInStep, Same, Accepting, Changing, Inviting, Founding
  <2>6. SlotInStep(new, regs[c]) /\ AcceptInStep(new)
    BY <1>0, <1>2, <2>1 DEF SlotInStep, AcceptInStep, Same, Accepting, Result, SignUp
  <2> QED  BY <2>1, <2>4, <2>5, <2>6, MemberStepKeeps
<1>3. ASSUME NEW x \in Users \union {None, "lost"}, End(c), teams' = [teams EXCEPT ![calls[c].team] = x]
      PROVE  StepInv'
  BY <1>0, <1>3, TeamEndKeeps
<1> QED  BY <1>0, <1>1, <1>2, <1>3 DEF OwnTeam, UndoTeam, LoseTeam, At

LEMMA MemberStepInv ==
  ASSUME StepInv, MemberStep(Settled), UNCHANGED regVars
  PROVE  StepInv'
<1>1. ASSUME NEW c \in Calls, OrganizationRoutes(c, Settled), UNCHANGED founded  PROVE StepInv'
  BY <1>1, RoutesKeep, BeginAcceptKeeps DEF OrganizationRoutes, MemberForms
<1>2. ASSUME NEW c \in Calls, UNCHANGED founded,
             \/ ReadTarget(c) \/ CheckOwners(c) \/ WriteChange(c)
             \/ CountMembers(c) \/ CountPending(c) \/ InsertInvite(c) \/ Shut(c)
             \/ ReadExisting(c) \/ TakeSeat(c) \/ Claim(c) \/ Latest(c) \/ Join(c)
      PROVE  StepInv'
  BY <1>2, ReadTargetKeeps, ChecksKeep, WriteChangeKeeps, CountMembersKeeps, InsertInviteKeeps,
     ShutKeeps, ReadExistingKeeps, ClaimKeeps, JoinKeeps
<1>3. ASSUME NEW i \in Invites, Expire(i), UNCHANGED founded  PROVE StepInv'
  BY <1>3, ExpireKeeps
<1>4. CASE FoundingStep(Settled)
  <2>1. ASSUME NEW c \in Calls, CheckPlan(c), UNCHANGED scene  PROVE StepInv'
    BY <2>1, ChecksKeep DEF CheckPlan, founded
  <2> QED  BY <1>4, <2>1, BeginFoundKeeps, InsertTeamKeeps, FoundingKeeps DEF FoundingStep
<1> QED  BY <1>1, <1>2, <1>3, <1>4 DEF MemberStep

-----------------------------------------------------------------------------
(* A registration touches rows of its own user only.                       *)
UserTypes ==
  /\ users \subseteq issued /\ issued \subseteq Users /\ secrets \subseteq users
  /\ claims \in [Addresses -> Users \union {None}]
  /\ codes \in [Codes -> CodeRow \union {None}]
  /\ mishap \in BOOLEAN /\ faults \in 0..MaxFaults
  /\ admitted \in [Codes -> SUBSET Users]
OwnRows(u) ==
  /\ issued \subseteq issued'
  /\ users \ {u} \subseteq users' /\ users' \subseteq users \union {u}
  /\ secrets \ {u} \subseteq secrets'
  /\ \A a \in Addresses : claims[a] \notin {None, u} => claims'[a] = claims[a]
  /\ u \in users' => claims'[Address[u]] = u

LEMMA RegStepKeeps ==
  ASSUME StepInv, NEW c \in Calls, NEW reg \in RegState, NEW call \in CallState,
         RegWritten(c, reg), Written(c, call),
         InvitesAdvance, TablesInStep', UserTypes', OwnRows(regs[c].user),
         reg.user \in {regs[c].user, None} \/ reg.user \notin issued,
         answered' \subseteq answered \union {regs[c].user},
         regs[c].user \in answered' => /\ regs[c].user \in users' /\ regs[c].user \in secrets'
                                       /\ reg.user # regs[c].user,
         CallInStep(call)', SlotInStep(call, reg), RegInStep(reg)', call.kind # "accept"
  PROVE  StepInv'
<1>0. /\ calls \in [Calls -> CallState] /\ regs \in [Calls -> RegState] /\ UsersInStep
      /\ RegistrationTypeOK /\ TablesInStep
      /\ \A d \in Calls : /\ CallInStep(calls[d]) /\ SlotInStep(calls[d], regs[d])
                          /\ RegInStep(regs[d]) /\ Own(d) /\ AcceptInStep(calls[d])
  BY StepParts DEF RegistrationTypeOK
<1>1. calls' \in [Calls -> CallState] /\ OthersStand(c) /\ calls'[c] = call
  BY <1>0, WrittenFields
<1>2. regs' \in [Calls -> RegState] /\ OtherRegs(c) /\ regs'[c] = reg
  BY <1>0, RegWrittenFields
<1>3. MembershipTypeOK' /\ RegistrationTypeOK' /\ (admitted \in [Codes -> SUBSET Users])'
  BY <1>1, <1>2 DEF MembershipTypeOK, TablesInStep, RegistrationTypeOK, UserTypes, Members
<1>4. \A d \in Calls : regs[d].user # None => regs[d].user \in issued
  BY <1>0 DEF RegInStep
<1>5. Own(c)' /\ \A d \in Calls : Own(d)'
  BY <1>0, <1>2, <1>4 DEF Own, OtherRegs
<1>6. ASSUME NEW w \in Users, w \in users, ~Registering(w)
      PROVE  w \in users' /\ ~Registering(w)' /\ (w \in secrets => w \in secrets')
  <2>1. w # regs[c].user /\ w \in issued /\ w # None
    BY <1>0, <1>6, NoUserAssumption DEF Registering, RegistrationTypeOK
  <2> QED  BY <1>2, <1>6, <2>1 DEF Registering, OtherRegs, OwnRows
<1>7. UsersInStep'
  <2>1. ASSUME NEW w \in users'  PROVE claims'[Address[w]] = w
    <3>1. CASE w = regs[c].user
      BY <2>1, <3>1 DEF OwnRows
    <3>2. CASE w # regs[c].user
      <4>1. w \in users /\ w \in Users /\ w # None /\ claims[Address[w]] = w /\ Address[w] \in Addresses
        BY <1>0, <2>1, <3>2, NoUserAssumption, AddressAssumption DEF OwnRows, UsersInStep, RegistrationTypeOK
      <4> QED  BY <3>2, <4>1 DEF OwnRows
    <3> QED  BY <3>1, <3>2
  <2>2. ASSUME NEW w \in answered'
        PROVE  w \in users' /\ w \in secrets' /\ ~Registering(w)'
    <3>1. CASE w \in answered
      <4>1. w \in users /\ w \in secrets /\ w \in Users /\ ~Registering(w)
        BY <1>0, <3>1 DEF UsersInStep, RegistrationTypeOK
      <4> QED  BY <1>6, <4>1
    <3>2. CASE w = regs[c].user
      <4>1. w \in users' /\ w \in secrets' /\ reg.user # w
        BY <2>2, <3>2
      <4>2. w # None
        BY <4>1, NoUserAssumption DEF UserTypes
      <4>3. \A d \in Calls : regs'[d].user # w
        BY <1>0, <1>2, <3>2, <4>1, <4>2 DEF Own, OtherRegs
      <4> QED  BY <4>1, <4>3 DEF Registering
    <3> QED  BY <2>2, <3>1, <3>2
  <2> QED  BY <2>1, <2>2 DEF UsersInStep
<1>8. ASSUME NEW d \in Calls
      PROVE  CallInStep(calls[d])' /\ SlotInStep(calls[d], regs[d])' /\ RegInStep(regs[d])' /\ AcceptInStep(calls[d])'
  <2>1. CASE d = c
    <3>1. calls'[d] = call /\ regs'[d] = reg
      BY <1>1, <1>2, <2>1
    <3> QED  BY <3>1 DEF AcceptInStep, CallInStep, SlotInStep, RegInStep
  <2>2. CASE d # c
    <3>1. PICK cl \in CallState, rg \in RegState : cl = calls[d] /\ rg = regs[d]
      BY <1>0
    <3>2. calls'[d] = cl /\ regs'[d] = rg
      BY <1>1, <1>2, <2>2, <3>1 DEF OthersStand, OtherRegs
    <3>3. CallInStep(cl)' /\ SlotInStep(cl, rg)
      BY <1>0, <3>1, CallKept
    <3>4. RegInStep(rg)'
      <4>1. RegInStep(rg) /\ (rg.user # None => rg.user # regs[c].user)
        BY <1>0, <2>2, <3>1 DEF Own
      <4>2. rg.user \in issued => rg.user # None
        BY <1>0, NoUserAssumption DEF RegistrationTypeOK
      <4> QED  BY <4>1, <4>2 DEF RegInStep, OwnRows, Holding, Present, Secured
    <3>5. AcceptInStep(cl)'
      <4>1. cl.pc \in Accepting /\ cl.kind = "accept" => cl.user \in users /\ ~Registering(cl.user) /\ cl.user \in Users
        BY <1>0, <3>1 DEF AcceptInStep, CallInStep
      <4> QED  BY <1>6, <4>1 DEF AcceptInStep
    <3> QED  BY <3>2, <3>3, <3>4, <3>5 DEF AcceptInStep, CallInStep, SlotInStep, RegInStep
  <2> QED  BY <2>1, <2>2
<1> QED  BY <1>3, <1>5, <1>7, <1>8 DEF StepInv, InStep, AcceptInStep, TablesInStep

(* Tables of members while a registration goes on.                         *)
TablesUnmoved == UNCHANGED <<members, joins, invites, entered, raced, founded>>
LEMMA UnmovedTables ==
  ASSUME StepInv, NEW c \in Calls, OthersStand(c), calls[c].team = None, TablesUnmoved,
         users \subseteq users'
  PROVE  TablesInStep' /\ InvitesAdvance
<1>1. TablesInStep
  BY StepParts
<1>2. UNCHANGED <<members, joins, invites, entered, raced, teams>>
  BY DEF TablesUnmoved, founded
<1>3. BareInv'
  BY <1>1, <1>2, BareKept DEF TablesInStep
<1> QED  BY <1>1, <1>2, <1>3 DEF TablesInStep, Members, IsMember, InviteAdmitsOne, InvitesAdvance

(* The slot of a registration waits, or is given back.                     *)
LEMMA SlotFields ==
  ASSUME StepInv, NEW c \in Calls
  PROVE  /\ calls \in [Calls -> CallState] /\ regs \in [Calls -> RegState]
         /\ calls[c] \in CallState /\ regs[c] \in RegState
         /\ RegInStep(regs[c]) /\ Own(c) /\ UserTypes /\ UsersInStep
         /\ regs[c].pc # "idle" => calls[c].kind = SignUp /\ calls[c].team = None
         /\ regs[c].pc \notin {"idle", "accept"} => calls[c].pc = "waits"
         /\ regs[c].pc \in Holding => regs[c].user \in Users /\ regs[c].user # None
<1>0. /\ calls \in [Calls -> CallState] /\ RegistrationTypeOK /\ UsersInStep
      /\ admitted \in [Codes -> SUBSET Users] /\ CallInStep(calls[c])
      /\ SlotInStep(calls[c], regs[c]) /\ RegInStep(regs[c]) /\ Own(c)
  BY StepParts
<1>1. regs \in [Calls -> RegState] /\ UserTypes
  BY <1>0 DEF RegistrationTypeOK, UserTypes
<1>2. regs[c].pc # "idle" => calls[c].kind = SignUp /\ calls[c].team = None
  BY <1>0 DEF SlotInStep, CallInStep, Accepting, Result
<1>3. regs[c].pc \in Holding => regs[c].user \in Users /\ regs[c].user # None
  BY <1>0, <1>1, NoUserAssumption DEF RegInStep, UserTypes
<1> QED  BY <1>0, <1>1, <1>2, <1>3 DEF SlotInStep

LEMMA RegGoKeeps ==
  ASSUME StepInv, NEW c \in Calls, NEW reg \in RegState, RegWritten(c, reg), UNCHANGED calls,
         regs[c].pc \in RegPcs \ {"accept"}, reg.pc \in RegPcs \ {"accept"},
         TablesInStep', InvitesAdvance, UserTypes', OwnRows(regs[c].user),
         reg.user \in {regs[c].user, None} \/ reg.user \notin issued,
         UNCHANGED answered, RegInStep(reg)'
  PROVE  StepInv'
<1>0. /\ calls \in [Calls -> CallState] /\ calls[c].pc = "waits" /\ calls[c].team = None
      /\ calls[c].kind = SignUp /\ calls[c] \in CallState /\ UsersInStep
      /\ UserTypes
  BY SlotFields DEF RegPcs
<1>1. PICK call \in CallState :
        Written(c, call) /\ call.pc = "waits" /\ call.team = None /\ call.kind = SignUp
  BY <1>0 DEF Written
<1>2. CallInStep(call)' /\ SlotInStep(call, reg) /\ call.kind # "accept"
  BY <1>1 DEF CallInStep, SlotInStep, Accepting, Changing, Inviting, Founding, RegPcs, SignUp, Result
<1>3. regs[c].user \notin answered'
  BY <1>0 DEF UsersInStep, Registering
<1> QED  BY <1>1, <1>2, <1>3, RegStepKeeps

LEMMA RegEndKeeps ==
  ASSUME StepInv, NEW c \in Calls, RegEnd(c), regs[c].pc # "idle",
         TablesInStep', InvitesAdvance, UserTypes', OwnRows(regs[c].user),
         answered' \subseteq answered \union {regs[c].user},
         regs[c].user \in answered' => regs[c].user \in users' /\ regs[c].user \in secrets'
  PROVE  StepInv'
<1>0. /\ calls \in [Calls -> CallState] /\ regs \in [Calls -> RegState]
  BY SlotFields
<1>1. RegWritten(c, IdleReg) /\ Written(c, IdleCall)
  BY <1>0, RegEndFields
<1>2. CallInStep(IdleCall)' /\ SlotInStep(IdleCall, IdleReg) /\ IdleCall.kind # "accept"
  BY IdleFields, IdleRegFields DEF CallInStep, SlotInStep, Accepting, Changing, Inviting, Founding,
     SignUp, Result
<1>3. RegInStep(IdleReg)'
  BY IdleRegFields DEF RegInStep, Holding, Present, Secured
<1>4. regs[c].user \in answered' => IdleReg.user # regs[c].user
  BY IdleRegFields, NoUserAssumption DEF UserTypes
<1> QED  BY <1>1, <1>2, <1>3, <1>4, IdleFields, IdleRegFields, RegStepKeeps

-----------------------------------------------------------------------------
(* Each step of a registration keeps every call in step.                   *)
LEMMA SameRows ==
  ASSUME StepInv, NEW u, UNCHANGED <<users, claims, secrets, issued>>
  PROVE  OwnRows(u)
<1>1. UsersInStep
  BY StepParts
<1> QED  BY <1>1 DEF OwnRows, UsersInStep

LEMMA StillTables ==
  ASSUME StepInv, NEW c \in Calls, regs[c].pc # "idle", TablesUnmoved, users \subseteq users',
         UNCHANGED calls \/ RegEnd(c)
  PROVE  TablesInStep' /\ InvitesAdvance
<1>1. /\ calls \in [Calls -> CallState] /\ regs \in [Calls -> RegState]
      /\ calls[c].team = None
  BY SlotFields
<1>2. OthersStand(c)
  <2>1. CASE UNCHANGED calls
    BY <2>1 DEF OthersStand
  <2>2. CASE RegEnd(c)
    BY <1>1, <2>2, RegEndFields, WrittenFields, IdleFields
  <2> QED  BY <2>1, <2>2
<1> QED  BY <1>1, <1>2, UnmovedTables

LEMMA TypesStand ==
  ASSUME StepInv, UNCHANGED <<users, claims, secrets, codes, issued, admitted, mishap>>,
         UNCHANGED faults \/ Fault
  PROVE  UserTypes'
<1>1. UserTypes /\ MaxFaults \in Nat
  BY StepParts, FaultsAssumption DEF RegistrationTypeOK, UserTypes
<1>2. faults' \in 0..MaxFaults
  BY <1>1 DEF UserTypes, Fault
<1> QED  BY <1>1, <1>2 DEF UserTypes

(* A registration that ends without an answer.                             *)
LEMMA LeavesKeep ==
  ASSUME StepInv, NEW c \in Calls, regs[c].pc # "idle", RegEnd(c), TablesUnmoved,
         UNCHANGED <<vaults, codes, issued, answered, admitted, mishap>>,
         UNCHANGED faults \/ Fault
  PROVE  StepInv'
<1>1. TablesInStep' /\ InvitesAdvance /\ UserTypes' /\ OwnRows(regs[c].user)
  BY StillTables, TypesStand, SameRows DEF vaults
<1>2. regs[c].user \notin answered
  BY StepParts DEF UsersInStep, Registering
<1> QED  BY <1>1, <1>2, RegEndKeeps

(* A registration that goes on with rows as they are.                      *)
LEMMA GoesKeep ==
  ASSUME StepInv, NEW c \in Calls, regs[c].pc \in RegPcs \ {"accept"}, NEW pc \in RegPcs \ {"accept"},
         RegGoto(c, pc), UNCHANGED calls, TablesUnmoved,
         UNCHANGED <<vaults, codes, issued, answered, admitted, mishap>>,
         UNCHANGED faults \/ Fault,
         (regs[c].pc \in Holding) <=> (pc \in Holding),
         pc \in Present => regs[c].pc \in Present,
         pc \in Secured => regs[c].pc \in Secured,
         pc \in {"code", "consume"} => regs[c].code # None,
         pc # "undoClaim"
  PROVE  StepInv'
<1>0. /\ regs \in [Calls -> RegState] /\ regs[c] \in RegState /\ RegInStep(regs[c])
  BY SlotFields
<1>1. TablesInStep' /\ InvitesAdvance /\ UserTypes' /\ OwnRows(regs[c].user)
  BY StillTables, TypesStand, SameRows DEF vaults, RegPcs
<1>2. PICK reg \in RegState :
        RegWritten(c, reg) /\ SameReg(reg, regs[c]) /\ reg.pc = pc /\ reg.user = regs[c].user
  BY <1>0, RegGotoFields
<1>3. RegInStep(reg)
  <2>1. reg.code \in Codes \union {None} /\ reg.invite \in Invites \union {None}
    BY DEF RegState
  <2>2. reg.address \in Addresses
    BY <1>0, <1>2 DEF RegInStep, SameReg, RegPcs
  <2> QED  BY <1>0, <1>2, <2>1, <2>2 DEF RegInStep, SameReg, Holding, Present, Secured
<1>4. RegInStep(reg)'
  BY <1>3 DEF RegInStep, vaults
<1> QED  BY <1>1, <1>2, <1>4, RegGoKeeps

LEMMA BeginInKeeps ==
  ASSUME StepInv, UNCHANGED founded, NEW c \in Calls, NEW pc \in {"invitation", "code", "claim"},
         NEW form \in Forms, NEW a \in Addresses, NEW k \in Codes \union {None},
         NEW i \in Invites \union {None}, BeginIn(c, pc, form, a, k, i),
         pc = "code" => k # None, form # "register" => k = None
  PROVE  StepInv'
<1>0. /\ calls \in [Calls -> CallState] /\ regs \in [Calls -> RegState] /\ raced \in 0..MaxRaces
      /\ CallInStep(calls[c]) /\ SlotInStep(calls[c], regs[c]) /\ MaxRaces \in Nat
  BY StepParts, SeatsAssumption DEF TablesInStep, RegistrationTypeOK
<1> DEFINE new == [IdleReg EXCEPT !.pc = pc, !.form = form, !.address = a, !.code = k, !.invite = i]
           cl == [IdleCall EXCEPT !.kind = SignUp, !.pc = "waits"]
<1>1. /\ calls[c].pc = "idle" /\ regs' = [regs EXCEPT ![c] = new] /\ calls' = [calls EXCEPT ![c] = cl]
      /\ CountRace(SignUp)
      /\ UNCHANGED <<members, joins, invites, entered, vaults, codes, history>>
  BY DEF BeginIn, At
<1>2. cl \in CallState /\ cl.kind = SignUp /\ cl.pc = "waits" /\ cl.team = None
  <2>1. cl \in CallState
    BY IdleFields DEF CallState
  <2> QED  BY <2>1 DEF IdleCall
<1>3. new \in RegState
  BY IdleRegFields, FormsAssumption DEF RegState
<1>4. /\ new.pc = pc /\ new.form = form /\ new.address = a /\ new.code = k /\ new.invite = i
      /\ new.user = None
  BY DEF IdleReg
<1> HIDE DEF new, cl
<1>5. PICK reg \in RegState, call \in CallState :
        /\ RegWritten(c, reg) /\ Written(c, call)
        /\ call.kind = SignUp /\ call.pc = "waits" /\ call.team = None
        /\ reg.pc = pc /\ reg.form = form /\ reg.address = a /\ reg.code = k /\ reg.invite = i
        /\ reg.user = None
  BY <1>1, <1>2, <1>3, <1>4 DEF Written, RegWritten
<1>6. raced' \in 0..MaxRaces
  BY <1>0, <1>1 DEF CountRace
<1>7. OtherTables /\ InvitesAdvance
  BY <1>1, <1>6, TablesStand
<1>8. BareInv' /\ TablesInStep'
  <2>1. calls[c].team = None /\ OthersStand(c) /\ TablesInStep
    BY <1>0, <1>1, <1>5, WrittenFields, StepParts DEF CallInStep
  <2>2. BareInv'
    BY <2>1, BareKept DEF TablesInStep, founded
  <2> QED  BY <1>1, <1>7, <2>1, <2>2 DEF TablesInStep, OtherTables, founded, vaults
<1>9. UserTypes' /\ OwnRows(regs[c].user)
  BY <1>1, TypesStand, SameRows DEF vaults, history
<1>10. CallInStep(call)' /\ SlotInStep(call, reg) /\ RegInStep(reg)'
  BY <1>5 DEF CallInStep, SlotInStep, RegInStep, Accepting, Changing, Inviting, Founding, Holding,
     Present, Secured, SignUp, Result
<1>11. regs[c].user \notin answered /\ call.kind # "accept" /\ answered' = answered
  BY <1>1, <1>5, StepParts DEF UsersInStep, Registering, SignUp, history
<1> QED  BY <1>5, <1>7, <1>8, <1>9, <1>10, <1>11, RegStepKeeps

LEMMA ChecksGoOn ==
  ASSUME StepInv, UNCHANGED founded, NEW c \in Calls, CheckInvitation(c) \/ CheckCode(c)
  PROVE  StepInv'
<1>0. regs[c].pc \in {"invitation", "code"} /\ TablesUnmoved /\ UNCHANGED <<vaults, codes, history>>
  BY DEF CheckInvitation, CheckCode, RegAt, OnlyRegs, TablesUnmoved, history
<1>1. CASE RegEnd(c)
  BY <1>0, <1>1, LeavesKeep DEF history
<1>2. ASSUME NEW pc \in {"code", "claim"}, RegGoto(c, pc), UNCHANGED calls,
             pc = "code" => regs[c].code # None
      PROVE  StepInv'
  BY <1>0, <1>2, GoesKeep DEF history, RegPcs, Holding, Present, Secured
<1> QED  BY <1>1, <1>2 DEF CheckInvitation, CheckCode

LEMMA ClaimAddressKeeps ==
  ASSUME StepInv, UNCHANGED founded, NEW c \in Calls, ClaimAddress(c)
  PROVE  StepInv'
<1>0. /\ regs[c].pc = "claim" /\ TablesUnmoved
      /\ UNCHANGED <<users, secrets, codes, answered, admitted, mishap, faults>>
      /\ regs \in [Calls -> RegState] /\ regs[c] \in RegState /\ RegInStep(regs[c]) /\ UserTypes
      /\ UsersInStep
  BY SlotFields DEF ClaimAddress, RegAt, TablesUnmoved
<1>1. CASE ~Unclaimed(regs[c].address)
  BY <1>0, <1>1, LeavesKeep DEF ClaimAddress, vaults
<1>2. CASE Unclaimed(regs[c].address)
  <2> DEFINE a == regs[c].address
  <2>1. PICK u \in Users \ issued :
          /\ Address[u] = a /\ claims' = [claims EXCEPT ![a] = u] /\ issued' = issued \union {u}
          /\ regs' = [regs EXCEPT ![c].pc = "user", ![c].user = u] /\ UNCHANGED calls
    BY <1>2 DEF ClaimAddress
  <2>2. a \in Addresses /\ claims[a] = None /\ regs[c].user = None
    BY <1>0, <1>2 DEF RegInStep, Unclaimed, Holding
  <2> DEFINE new == [regs[c] EXCEPT !.pc = "user", !.user = u]
  <2>3. /\ new \in RegState /\ new.pc = "user" /\ new.user = u /\ SameReg(new, regs[c])
        /\ regs' = [regs EXCEPT ![c] = new]
    BY <1>0, <2>1 DEF RegState, SameReg
  <2> HIDE DEF new
  <2>4. PICK reg \in RegState : /\ RegWritten(c, reg) /\ reg.pc = "user" /\ reg.user = u
                                /\ SameReg(reg, regs[c])
    BY <2>3 DEF RegWritten
  <2>5. claims' \in [Addresses -> Users \union {None}] /\ claims'[a] = u
    BY <1>0, <2>1, <2>2 DEF UserTypes
  <2>6. UserTypes'
    BY <1>0, <2>1, <2>5 DEF UserTypes
  <2>7. OwnRows(regs[c].user)
    BY <1>0, <2>1, <2>2, NoUserAssumption DEF OwnRows, UserTypes
  <2>8. RegInStep(reg)'
    <3>1. reg.address = a /\ reg.form = regs[c].form /\ reg.code = regs[c].code /\ u \in issued'
      BY <2>1, <2>4 DEF SameReg
    <3> QED  BY <1>0, <2>1, <2>2, <2>4, <2>5, <3>1 DEF RegInStep, Present, Secured, Holding
  <2>9. TablesInStep' /\ InvitesAdvance
    BY <1>0, <2>1, StillTables
  <2> QED  BY <1>0, <2>1, <2>4, <2>6, <2>7, <2>8, <2>9, RegGoKeeps DEF RegPcs
<1> QED  BY <1>1, <1>2

LEMMA InsertUserKeeps ==
  ASSUME StepInv, UNCHANGED founded, NEW c \in Calls, InsertUser(c)
  PROVE  StepInv'
<1>0. /\ regs[c].pc = "user" /\ TablesUnmoved /\ UNCHANGED calls
      /\ UNCHANGED <<claims, secrets, codes, issued, answered, admitted, mishap>>
      /\ users' = users \union {regs[c].user}
      /\ regs \in [Calls -> RegState] /\ regs[c] \in RegState /\ RegInStep(regs[c]) /\ UserTypes
      /\ UsersInStep /\ MaxFaults \in Nat
  BY SlotFields, FaultsAssumption DEF InsertUser, RegAt, TablesUnmoved, InSlot
<1>1. /\ regs[c].user \in issued /\ regs[c].address = Address[regs[c].user]
      /\ claims[Address[regs[c].user]] = regs[c].user
  BY <1>0 DEF RegInStep, Holding
<1>2. PICK pc \in {"secret", "undoUser"} : RegGoto(c, pc) /\ (UNCHANGED faults \/ Fault)
  BY DEF InsertUser
<1>3. PICK reg \in RegState :
        RegWritten(c, reg) /\ SameReg(reg, regs[c]) /\ reg.pc = pc /\ reg.user = regs[c].user
  BY <1>0, <1>2, RegGotoFields DEF RegPcs
<1>4. UserTypes'
  BY <1>0, <1>1, <1>2 DEF UserTypes, Fault
<1>5. OwnRows(regs[c].user)
  BY <1>0, <1>1 DEF OwnRows
<1>6. RegInStep(reg)'
  BY <1>0, <1>1, <1>3 DEF RegInStep, SameReg, Present, Secured, Holding
<1>7. TablesInStep' /\ InvitesAdvance
  BY <1>0, StillTables
<1> QED  BY <1>0, <1>3, <1>4, <1>5, <1>6, <1>7, RegGoKeeps DEF RegPcs

LEMMA AnsweredKeeps ==
  ASSUME StepInv, NEW c \in Calls, regs[c].pc \in Holding, Answered(c), TablesUnmoved,
         UNCHANGED <<users, claims, codes>>,
         secrets' = secrets \union {regs[c].user} \/ (regs[c].user \in secrets /\ UNCHANGED secrets),
         regs[c].user \in users
  PROVE  StepInv'
<1>0. /\ regs[c] \in RegState /\ RegInStep(regs[c]) /\ UserTypes /\ UsersInStep
      /\ regs[c].pc # "idle" /\ regs[c].user \in Users /\ regs[c].user # None
  BY SlotFields DEF Holding
<1>1. RegEnd(c) /\ answered' = answered \union {regs[c].user} /\ UNCHANGED <<issued, mishap, faults>>
  BY DEF Answered
<1>2. TablesInStep' /\ InvitesAdvance
  BY <1>0, <1>1, StillTables
<1>3. admitted' \in [Codes -> SUBSET Users]
  BY <1>0 DEF Answered, UserTypes, RegState
<1>4. UserTypes'
  BY <1>0, <1>1, <1>3 DEF UserTypes
<1>5. OwnRows(regs[c].user)
  BY <1>0, <1>1 DEF OwnRows, UsersInStep
<1> QED  BY <1>0, <1>1, <1>2, <1>4, <1>5, RegEndKeeps

LEMMA SetSecretKeeps ==
  ASSUME StepInv, UNCHANGED founded, NEW c \in Calls, SetSecret(c)
  PROVE  StepInv'
<1>0. /\ regs \in [Calls -> RegState] /\ regs[c] \in RegState /\ RegInStep(regs[c]) /\ UserTypes /\ UsersInStep
      /\ regs[c].pc = "secret" /\ regs[c].pc \in Holding /\ TablesUnmoved
      /\ UNCHANGED <<users, claims, codes>>
      /\ secrets' = secrets \union {regs[c].user}
  BY SlotFields DEF SetSecret, RegAt, Holding, TablesUnmoved
<1>1. /\ regs[c].user \in users /\ regs[c].user \in issued /\ regs[c].address = Address[regs[c].user]
      /\ claims[regs[c].address] = regs[c].user /\ regs[c].address \in Addresses
  BY <1>0 DEF RegInStep, Present, Holding
<1>2. CASE regs[c].form # "register"
  <2>1. Answered(c)
    BY <1>2 DEF SetSecret
  <2> QED  BY <1>0, <1>1, <2>1, AnsweredKeeps
<1>3. CASE regs[c].form = "register"
  <2>1. PICK pc \in {"consume", "session"} :
          RegGoto(c, pc) /\ UNCHANGED <<calls, history>> /\ (pc = "consume" => regs[c].code # None)
    BY <1>3 DEF SetSecret
  <2>2. PICK reg \in RegState :
          RegWritten(c, reg) /\ SameReg(reg, regs[c]) /\ reg.pc = pc /\ reg.user = regs[c].user
    BY <1>0, <2>1, RegGotoFields DEF RegPcs
  <2>3. TablesInStep' /\ InvitesAdvance
    BY <1>0, <2>1, StillTables
  <2>4. UserTypes'
    BY <1>0, <1>1, <2>1 DEF UserTypes, history
  <2>5. OwnRows(regs[c].user)
    BY <1>0, <1>1, <2>1 DEF OwnRows, UsersInStep, history
  <2>6. reg.code \in Codes \union {None} /\ reg.invite \in Invites \union {None}
    BY DEF RegState
  <2>7. RegInStep(reg)'
    BY <1>0, <1>1, <1>3, <2>1, <2>2, <2>6 DEF RegInStep, SameReg, Present, Secured, Holding, history
  <2> QED  BY <1>0, <2>1, <2>2, <2>3, <2>4, <2>5, <2>7, RegGoKeeps DEF RegPcs, history
<1> QED  BY <1>2, <1>3

(* A used code, or one more failure.                                       *)
LEMMA ConsumeKeeps ==
  ASSUME StepInv, UNCHANGED founded, NEW c \in Calls, Consume(c)
  PROVE  StepInv'
<1>0. /\ regs \in [Calls -> RegState] /\ regs[c] \in RegState /\ RegInStep(regs[c]) /\ UserTypes /\ UsersInStep
      /\ regs[c].pc = "consume" /\ TablesUnmoved /\ UNCHANGED calls
      /\ UNCHANGED <<users, claims, secrets, issued, answered, admitted>> /\ RegGoto(c, "session")
      /\ MaxFaults \in Nat
  BY SlotFields, FaultsAssumption DEF Consume, RegAt, TablesUnmoved, InSlot, vaults
<1>1. PICK reg \in RegState :
        RegWritten(c, reg) /\ SameReg(reg, regs[c]) /\ reg.pc = "session" /\ reg.user = regs[c].user
  BY <1>0, RegGotoFields DEF RegPcs
<1>2. regs[c].user \in issued /\ regs[c].code \in Codes /\ reg.invite \in Invites \union {None}
  BY <1>0 DEF RegInStep, Holding, RegState
<1>3. UserTypes'
  <2>1. codes' \in [Codes -> CodeRow \union {None}]
    BY <1>0, <1>2 DEF UserTypes, Consume, CodeRow
  <2>2. mishap' \in BOOLEAN /\ faults' \in 0..MaxFaults
    <3>1. UNCHANGED <<mishap, faults>> \/ (mishap' = TRUE /\ Fault)
      BY DEF Consume
    <3>2. mishap \in BOOLEAN /\ faults \in 0..MaxFaults
      BY <1>0 DEF UserTypes
    <3>3. mishap' \in BOOLEAN
      BY <3>1, <3>2, Zenon
    <3>4. faults' \in 0..MaxFaults
      BY <1>0, <3>1, <3>2 DEF Fault
    <3> QED  BY <3>3, <3>4
  <2> QED  BY <1>0, <2>1, <2>2 DEF UserTypes
<1>4. TablesInStep' /\ InvitesAdvance
  BY <1>0, StillTables
<1>5. OwnRows(regs[c].user)
  BY <1>0, SameRows
<1>6. RegInStep(reg)'
  BY <1>0, <1>1, <1>2 DEF RegInStep, SameReg, Present, Secured, Holding
<1> QED  BY <1>0, <1>1, <1>3, <1>4, <1>5, <1>6, RegGoKeeps DEF RegPcs

LEMMA OpenSessionKeeps ==
  ASSUME StepInv, UNCHANGED founded, NEW c \in Calls, OpenSession(c)
  PROVE  StepInv'
<1>0. /\ regs \in [Calls -> RegState] /\ regs[c] \in RegState /\ RegInStep(regs[c]) /\ UserTypes /\ UsersInStep
      /\ calls \in [Calls -> CallState] /\ calls[c].team = None
      /\ regs[c].pc = "session" /\ TablesUnmoved /\ regs[c].user \in Users
      /\ UNCHANGED <<users, claims, secrets, codes>>
  BY SlotFields DEF OpenSession, RegAt, TablesUnmoved, InSlot, vaults, Holding
<1>1. /\ regs[c].user \in issued /\ regs[c].user \in users /\ regs[c].user \in secrets
      /\ regs[c].invite \in Invites \union {None} /\ regs[c].form = "register"
  BY <1>0 DEF RegInStep, Holding, Present, Secured, RegState
<1>2. CASE regs[c].invite = None
  BY <1>0, <1>1, <1>2, AnsweredKeeps DEF OpenSession, Holding
<1>3. ASSUME RegGoto(c, "undoUser"), UNCHANGED <<calls, history>>  PROVE StepInv'
  BY <1>0, <1>3, GoesKeep DEF vaults, history, RegPcs, Holding, Present, Secured
<1>4. ASSUME regs[c].invite # None, Acceptable(regs[c].invite, regs[c].user), RegGoto(c, "accept"),
             calls' = [calls EXCEPT ![c] = Acceptance(SignUp, regs[c].user, regs[c].invite)],
             UNCHANGED history
      PROVE  StepInv'
  <2>1. PICK u \in Users, i \in Invites : u = regs[c].user /\ i = regs[c].invite
    BY <1>0, <1>1, <1>4
  <2>2. PICK call \in CallState :
          /\ Written(c, call) /\ CallInStep(call) /\ call.kind = SignUp /\ call.user = u
          /\ call.pc = "existing"
    <3>1. Acceptable(i, u) /\ calls' = [calls EXCEPT ![c] = Acceptance(SignUp, u, i)]
      BY <1>4, <2>1
    <3>2. /\ Acceptance(SignUp, u, i) \in CallState /\ CallInStep(Acceptance(SignUp, u, i))
          /\ Acceptance(SignUp, u, i).kind = SignUp /\ Acceptance(SignUp, u, i).user = u
          /\ Acceptance(SignUp, u, i).pc = "existing"
      BY <3>1, AcceptanceFields
    <3> QED  BY <3>1, <3>2 DEF Written
  <2>3. PICK reg \in RegState :
          RegWritten(c, reg) /\ SameReg(reg, regs[c]) /\ reg.pc = "accept" /\ reg.user = regs[c].user
    BY <1>0, <1>4, RegGotoFields DEF RegPcs
  <2>4. TablesInStep' /\ InvitesAdvance
    BY <1>0, <2>2, WrittenFields, UnmovedTables
  <2>5. UserTypes' /\ OwnRows(regs[c].user)
    BY <1>0, <1>4, TypesStand, SameRows DEF history
  <2>6. CallInStep(call)' /\ SlotInStep(call, reg) /\ call.kind # "accept"
    BY <2>1, <2>2, <2>3, <2>4, CallKept DEF SlotInStep, Accepting, SignUp, Result
  <2>7. RegInStep(reg)'
    BY <1>0, <1>1, <1>4, <2>3 DEF RegInStep, SameReg, Present, Secured, Holding, history
  <2>8. regs[c].user \notin answered'
    BY <1>0, <1>4 DEF UsersInStep, Registering, history
  <2> QED  BY <1>4, <2>2, <2>3, <2>4, <2>5, <2>6, <2>7, <2>8, RegStepKeeps DEF history
<1> QED  BY <1>2, <1>3, <1>4 DEF OpenSession

LEMMA AcceptedKeeps ==
  ASSUME StepInv, UNCHANGED founded, NEW c \in Calls, Accepted(c)
  PROVE  StepInv'
<1>0. /\ regs \in [Calls -> RegState] /\ regs[c] \in RegState /\ RegInStep(regs[c]) /\ UserTypes /\ UsersInStep
      /\ calls \in [Calls -> CallState] /\ calls[c].team = None /\ calls[c] \in CallState
      /\ calls[c].kind = SignUp
      /\ regs[c].pc = "accept" /\ TablesUnmoved /\ regs[c].user \in Users
      /\ UNCHANGED <<users, claims, secrets, codes>>
  BY SlotFields DEF Accepted, RegAt, TablesUnmoved, vaults, Holding
<1>1. /\ regs[c].user \in issued /\ regs[c].user \in users /\ regs[c].user \in secrets
      /\ regs[c].form = "register"
  BY <1>0 DEF RegInStep, Holding, Present, Secured
<1>2. CASE Answered(c)
  BY <1>0, <1>1, <1>2, AnsweredKeeps DEF Holding
<1>3. ASSUME RegGoto(c, "undoUser"), calls' = [calls EXCEPT ![c].pc = "waits"], UNCHANGED history
      PROVE  StepInv'
  <2> DEFINE new == [calls[c] EXCEPT !.pc = "waits"]
  <2>1. /\ new \in CallState /\ new.pc = "waits" /\ new.kind = SignUp /\ new.team = None
        /\ calls' = [calls EXCEPT ![c] = new]
    BY <1>0, <1>3 DEF CallState
  <2> HIDE DEF new
  <2>2. PICK call \in CallState :
          Written(c, call) /\ call.pc = "waits" /\ call.kind = SignUp /\ call.team = None
    BY <2>1 DEF Written
  <2>3. PICK reg \in RegState :
          RegWritten(c, reg) /\ SameReg(reg, regs[c]) /\ reg.pc = "undoUser" /\ reg.user = regs[c].user
    BY <1>0, <1>3, RegGotoFields DEF RegPcs
  <2>4. TablesInStep' /\ InvitesAdvance
    BY <1>0, <2>2, WrittenFields, UnmovedTables
  <2>5. UserTypes' /\ OwnRows(regs[c].user)
    BY <1>0, <1>3, TypesStand, SameRows DEF history
  <2>6. CallInStep(call)' /\ SlotInStep(call, reg) /\ call.kind # "accept"
    BY <2>2, <2>3 DEF CallInStep, SlotInStep, Accepting, Changing, Inviting, Founding, SignUp, Result
  <2>7. RegInStep(reg)'
    BY <1>0, <1>1, <1>3, <2>3 DEF RegInStep, SameReg, Present, Secured, Holding, history
  <2>8. regs[c].user \notin answered'
    BY <1>0, <1>3 DEF UsersInStep, Registering, history
  <2> QED  BY <1>3, <2>2, <2>3, <2>4, <2>5, <2>6, <2>7, <2>8, RegStepKeeps DEF history
<1> QED  BY <1>2, <1>3 DEF Accepted

LEMMA ThrowsKeeps ==
  ASSUME StepInv, UNCHANGED founded, NEW c \in Calls, Throws(c)
  PROVE  StepInv'
<1>0. /\ TablesUnmoved /\ Fault
      /\ UNCHANGED <<vaults, codes, issued, answered, admitted, mishap>>
  BY DEF Throws, TablesUnmoved
<1>1. ASSUME regs[c].pc # "idle", RegEnd(c)  PROVE StepInv'
  BY <1>0, <1>1, LeavesKeep
<1>2. ASSUME regs[c].pc \in {"user", "secret", "session"}, RegGoto(c, "undoUser"), UNCHANGED calls
      PROVE  StepInv'
  BY <1>0, <1>2, GoesKeep DEF RegPcs, Holding, Present, Secured
<1> QED  BY <1>1, <1>2 DEF Throws, RegAt

LEMMA UndoUserKeeps ==
  ASSUME StepInv, UNCHANGED founded, NEW c \in Calls, UndoUser(c)
  PROVE  StepInv'
<1> DEFINE u == regs[c].user
<1>0. /\ regs \in [Calls -> RegState] /\ regs[c] \in RegState /\ RegInStep(regs[c]) /\ UserTypes /\ UsersInStep
      /\ calls \in [Calls -> CallState] /\ TablesInStep
      /\ regs[c].pc = "undoUser" /\ u \in Users
      /\ users' = users \ {u} /\ secrets' = secrets \ {u} /\ members' = [members EXCEPT ![u] = None]
      /\ UNCHANGED <<calls, claims, codes, issued, answered, admitted, mishap, faults>>
      /\ UNCHANGED <<joins, invites, entered, raced, teams>>
  BY SlotFields, StepParts DEF UndoUser, RegAt, Holding, founded, history
<1>1. /\ u \in issued /\ regs[c].address = Address[u] /\ claims[regs[c].address] = u
      /\ regs[c].address \in Addresses
  BY <1>0 DEF RegInStep, Holding
<1>2. PICK reg \in RegState :
        RegWritten(c, reg) /\ SameReg(reg, regs[c]) /\ reg.pc = "undoClaim" /\ reg.user = u
  BY <1>0, RegGotoFields DEF RegPcs, UndoUser
<1>3. members' \in [Users -> MemberRow \union {None}] /\ Members' \subseteq Members \ {u}
  BY <1>0 DEF TablesInStep, Members, IsMember
<1>4. IsFiniteSet(Members')
  BY <1>0, <1>3, FS_Subset DEF TablesInStep
<1>5. TablesInStep' /\ InvitesAdvance
  BY <1>0, <1>3, <1>4 DEF TablesInStep, InviteAdmitsOne, BareInv, InvitesAdvance
<1>6. UserTypes'
  BY <1>0 DEF UserTypes
<1>7. OwnRows(regs[c].user)
  BY <1>0 DEF OwnRows
<1>8. RegInStep(reg)'
  BY <1>0, <1>1, <1>2 DEF RegInStep, SameReg, Present, Secured, Holding
<1> QED  BY <1>0, <1>2, <1>5, <1>6, <1>7, <1>8, RegGoKeeps DEF RegPcs

LEMMA UndoClaimKeeps ==
  ASSUME StepInv, UNCHANGED founded, NEW c \in Calls, UndoClaim(c)
  PROVE  StepInv'
<1> DEFINE u == regs[c].user
<1>0. /\ regs[c] \in RegState /\ RegInStep(regs[c]) /\ UserTypes /\ UsersInStep
      /\ regs[c].pc = "undoClaim" /\ u \in Users /\ RegEnd(c) /\ TablesUnmoved
      /\ claims' = [claims EXCEPT ![regs[c].address] = None]
      /\ UNCHANGED <<users, secrets, codes, issued, answered, admitted, mishap, faults>>
  BY SlotFields DEF UndoClaim, RegAt, Holding, OnlyRegs, history, TablesUnmoved
<1>1. /\ claims[regs[c].address] = u /\ regs[c].address \in Addresses /\ u \notin users
  BY <1>0 DEF RegInStep, Holding
<1>2. TablesInStep' /\ InvitesAdvance
  BY <1>0, StillTables
<1>3. UserTypes'
  BY <1>0, <1>1 DEF UserTypes
<1>4. OwnRows(regs[c].user)
  BY <1>0, <1>1 DEF OwnRows, UserTypes
<1>5. regs[c].user \notin answered'
  BY <1>0 DEF UsersInStep, Registering
<1> QED  BY <1>0, <1>2, <1>3, <1>4, <1>5, RegEndKeeps

LEMMA CrashKeeps ==
  ASSUME StepInv, UNCHANGED founded, NEW c \in Calls, Crash(c)
  PROVE  StepInv'
<1>0. /\ UserTypes /\ UsersInStep /\ MaxFaults \in Nat
      /\ regs[c].pc # "idle" /\ RegEnd(c) /\ TablesUnmoved
      /\ UNCHANGED <<users, claims, secrets, codes, issued, answered, admitted>>
      /\ mishap' = TRUE /\ Fault
  BY SlotFields, FaultsAssumption DEF Crash, RegAt, vaults, TablesUnmoved
<1>1. TablesInStep' /\ InvitesAdvance
  BY <1>0, StillTables
<1>2. UserTypes' /\ OwnRows(regs[c].user)
  BY <1>0, SameRows DEF UserTypes, Fault
<1>3. regs[c].user \notin answered'
  BY <1>0 DEF UsersInStep, Registering
<1> QED  BY <1>0, <1>1, <1>2, <1>3, RegEndKeeps

LEMMA FailKeeps ==
  ASSUME StepInv, UNCHANGED founded, NEW c \in Calls, Fail(c), Fault,
         UNCHANGED <<vaults, codes, regs, issued, answered, admitted, mishap>>
  PROVE  StepInv'
<1>0. /\ regs \in [Calls -> RegState] /\ regs[c] \in RegState /\ RegInStep(regs[c]) /\ UsersInStep
      /\ calls \in [Calls -> CallState] /\ calls[c] \in CallState /\ CallInStep(calls[c])
  BY SlotFields, StepParts
<1>1. calls[c].pc \in CallPcs \ {"owner", "undo"} /\ End(c) /\ TablesUnmoved
  BY <1>0 DEF Fail, At, CallPcs, CallState, OnlyCalls, TablesUnmoved
<1>2. calls[c].team = None
  BY <1>0, <1>1 DEF CallInStep
<1>3. PICK new \in CallState :
           /\ Written(c, new) /\ CallInStep(new)' /\ SlotInStep(new, regs[c])
           /\ new.kind \in {"idle", SignUp}
  BY <1>1, ReturnInStep DEF End, Result
<1>4. PICK reg \in RegState : reg = regs[c] /\ RegWritten(c, reg)
  BY <1>0 DEF RegWritten
<1>5. TablesInStep' /\ InvitesAdvance
  BY <1>0, <1>1, <1>2, <1>3, WrittenFields, UnmovedTables DEF vaults
<1>6. UserTypes' /\ OwnRows(regs[c].user)
  BY TypesStand, SameRows DEF vaults
<1>7. RegInStep(reg)'
  BY <1>0, <1>4 DEF RegInStep, vaults
<1>8. regs[c].user \notin answered /\ new.kind # "accept"
  BY <1>0, <1>3 DEF UsersInStep, Registering, SignUp
<1> QED  BY <1>3, <1>4, <1>5, <1>6, <1>7, <1>8, RegStepKeeps

(* A secret is rotated and codes come and go: no call is concerned.        *)
LEMMA AdministrationKeeps ==
  ASSUME StepInv, \/ \E u \in Users : RotateSecret(u)
                  \/ \E k \in Codes : CreateCode(k) \/ ExpireCode(k)
  PROVE  StepInv'
<1>0. /\ TablesInStep /\ calls \in [Calls -> CallState] /\ regs \in [Calls -> RegState]
      /\ UserTypes /\ UsersInStep
      /\ \A d \in Calls : /\ CallInStep(calls[d]) /\ SlotInStep(calls[d], regs[d])
                          /\ RegInStep(regs[d]) /\ Own(d) /\ AcceptInStep(calls[d])
  BY StepParts DEF RegistrationTypeOK, UserTypes
<1>1. /\ UNCHANGED <<members, joins, invites, calls, entered, raced, teams, users, claims, regs, issued,
                     answered, admitted, mishap, faults>>
      /\ secrets \subseteq secrets' /\ secrets' \subseteq users
      /\ codes' \in [Codes -> CodeRow \union {None}]
  BY <1>0 DEF RotateSecret, CreateCode, ExpireCode, memberVars, vaults, history, founded, UserTypes, CodeRow
<1>2. \A d \in Calls : /\ CallInStep(calls[d])' /\ SlotInStep(calls[d], regs[d])'
                       /\ RegInStep(regs[d])' /\ Own(d)' /\ AcceptInStep(calls[d])'
  BY <1>0, <1>1 DEF CallInStep, SlotInStep, RegInStep, Own, AcceptInStep, Registering, TakenBy
<1>3. TablesInStep' /\ UserTypes' /\ UsersInStep'
  BY <1>0, <1>1 DEF TablesInStep, UserTypes, UsersInStep, Registering, Members, IsMember,
     InviteAdmitsOne, BareInv
<1> QED  BY <1>0, <1>1, <1>2, <1>3 DEF StepInv, TablesInStep, UserTypes, MembershipTypeOK, RegistrationTypeOK,
         Members, InStep, AcceptInStep

LEMMA InitStepInv == RegistrationInit => StepInv
<1> SUFFICES ASSUME RegistrationInit  PROVE StepInv
  OBVIOUS
<1>0. Founder \in Users /\ Founder # None /\ Address[Founder] \in Addresses /\ {MaxJoins, MaxRaces} \subseteq Nat
      /\ MaxJoins # 0
  BY FounderAssumption, NoUserAssumption, AddressAssumption, SeatsAssumption
<1>1. [id |-> 1, role |-> "owner"] \in MemberRow
  BY <1>0, SeatsAssumption DEF MemberRow, Roles
<1>2. members \in [Users -> MemberRow \union {None}] /\ Members = {Founder}
  BY <1>0, <1>1, RowAssumption DEF RegistrationInit, MembershipInit, Members, IsMember
<1>3. MembershipTypeOK
  BY <1>0, <1>2, IdleFields, SeatsAssumption DEF RegistrationInit, MembershipInit, MembershipTypeOK
<1>4. InviteAdmitsOne /\ BareInv
  BY RowAssumption DEF RegistrationInit, MembershipInit, InviteAdmitsOne, BareInv
<1>5. IsFiniteSet(Members)
  BY <1>2, FS_Singleton
<1>6. RegistrationTypeOK /\ admitted \in [Codes -> SUBSET Users]
  <2>1. claims \in [Addresses -> Users \union {None}] /\ regs \in [Calls -> RegState]
    BY <1>0, IdleRegFields DEF RegistrationInit
  <2>2. codes \in [Codes -> CodeRow \union {None}] /\ admitted \in [Codes -> SUBSET Users]
    BY DEF RegistrationInit
  <2>3. mishap \in BOOLEAN
    BY Zenon DEF RegistrationInit
  <2>5. faults \in 0..MaxFaults
    BY FaultsAssumption DEF RegistrationInit
  <2>4. users = {Founder} /\ issued = {Founder} /\ secrets = {Founder}
    BY DEF RegistrationInit
  <2> QED  BY <1>0, <1>2, <2>1, <2>2, <2>3, <2>4, <2>5 DEF RegistrationTypeOK, Members
<1>7. \A c \in Calls : calls[c] = IdleCall /\ regs[c] = IdleReg
  BY DEF RegistrationInit, MembershipInit
<1>8. CallInStep(IdleCall) /\ SlotInStep(IdleCall, IdleReg) /\ RegInStep(IdleReg)
  BY IdleFields, IdleRegFields DEF CallInStep, SlotInStep, RegInStep, Accepting, Changing, Inviting,
     Founding, Result, SignUp, Holding, Present, Secured
<1>9. UsersInStep
  BY <1>0, <1>7, IdleRegFields DEF RegistrationInit, UsersInStep, Registering
<1>10. \A c \in Calls : InStep(c)
  BY <1>7, <1>8, IdleFields, IdleRegFields DEF InStep, Own, Accepting
<1> QED  BY <1>3, <1>4, <1>5, <1>6, <1>9, <1>10 DEF StepInv

LEMMA SignUpKeeps ==
  ASSUME StepInv, UNCHANGED founded, NEW c \in Calls,
         SignUpForm(c) \/ \E form \in Forms, a \in Addresses : BeginProvision(c, form, a)
  PROVE  StepInv'
<1>1. ASSUME NEW form \in Forms, NEW a \in Addresses, BeginProvision(c, form, a)  PROVE StepInv'
  BY <1>1, BeginInKeeps DEF BeginProvision
<1>2. ASSUME NEW a \in Addresses, NEW k \in Codes \union {None}, NEW i \in Invites \union {None},
             BeginRegister(c, a, k, i)
      PROVE  StepInv'
  <2>1. k # None \/ i # None
    BY <1>2 DEF BeginRegister
  <2>2. PICK pc \in {"invitation", "code", "claim"} :
          BeginIn(c, pc, "register", a, k, i) /\ (pc = "code" => k # None)
    BY <1>2, <2>1 DEF BeginRegister
  <2>3. "register" \in Forms
    BY <2>2 DEF BeginIn
  <2> QED  BY <2>2, <2>3, BeginInKeeps
<1> QED  BY <1>1, <1>2 DEF SignUpForm

LEMMA NextStepInv ==
  ASSUME StepInv, [RegistrationNext]_registrationVars
  PROVE  StepInv'
<1>1. CASE MemberStep(Settled) /\ UNCHANGED <<vaults, codes, regs, history>>
  BY <1>1, MemberStepInv DEF regVars
<1>2. ASSUME UNCHANGED founded, NEW c \in Calls,
             \/ SignUpForm(c) \/ CheckInvitation(c) \/ CheckCode(c)
             \/ ClaimAddress(c) \/ InsertUser(c) \/ SetSecret(c)
             \/ Consume(c) \/ OpenSession(c) \/ Accepted(c)
             \/ Throws(c) \/ UndoUser(c) \/ UndoClaim(c) \/ Crash(c)
      PROVE  StepInv'
  BY <1>2, SignUpKeeps, ChecksGoOn, ClaimAddressKeeps, InsertUserKeeps, SetSecretKeeps, ConsumeKeeps,
     OpenSessionKeeps, AcceptedKeeps, ThrowsKeeps, UndoUserKeeps, UndoClaimKeeps, CrashKeeps
<1>3. ASSUME UNCHANGED founded, BetaRoutes \/ InviteForm \/ \E k \in Codes : ExpireCode(k)
      PROVE  StepInv'
  BY <1>3, SignUpKeeps, AdministrationKeeps DEF BetaRoutes, InviteForm
<1>4. CASE UNCHANGED registrationVars
  BY <1>4 DEF registrationVars, memberVars, vaults, history, founded, StepInv, MembershipTypeOK,
     RegistrationTypeOK, InviteAdmitsOne, BareInv, UsersInStep, InStep, CallInStep, SlotInStep,
     RegInStep, Own, Registering, TakenBy, Members, IsMember
<1> QED  BY <1>1, <1>2, <1>3, <1>4, FailKeeps DEF RegistrationNext

LEMMA StepInvariance == RegistrationSpec => []StepInv
<1>1. StepInv /\ [RegistrationNext]_registrationVars => StepInv'
  BY NextStepInv
<1> QED  BY <1>1, InitStepInv, PTL DEF RegistrationSpec

(* The tables, the calls in flight and the history keep their types, and a *)
(* user without a users row has neither secret nor membership.             *)
THEOREM RegistrationTypeCorrect == RegistrationSpec => [](MembershipTypeOK /\ RegistrationTypeOK)
<1>1. StepInv => MembershipTypeOK /\ RegistrationTypeOK
  BY DEF StepInv
<1> QED  BY <1>1, StepInvariance, PTL

(* acceptInvite: an invitation admits one user, its taker, and only before *)
(* it is revoked, whatever overlaps or fails.                              *)
THEOREM InvitationAdmitsOne == RegistrationSpec => []InviteAdmitsOne
<1>1. StepInv => InviteAdmitsOne
  BY DEF StepInv
<1> QED  BY <1>1, StepInvariance, PTL

(* registerUser and provisionPrivateBetaUser: who was told that a user was *)
(* created can sign in as that user.                                       *)
THEOREM AnsweredSignsIn == RegistrationSpec => []AnsweredCanSignIn
<1>1. StepInv => AnsweredCanSignIn
  BY DEF StepInv, UsersInStep, AnsweredCanSignIn, CanSignIn, WithAddress
<1> QED  BY <1>1, StepInvariance, PTL

-----------------------------------------------------------------------------
(* A claim that a step leaves without a user is lost, or given back.       *)
HeldBy(c, u) == regs[c].pc \in Holding /\ regs[c].user = u

LEMMA HeldKept ==
  ASSUME StepInv, HeldInv, NEW c \in Calls, OtherRegs(c), ~mishap' => ~mishap,
         \A a \in Addresses : claims'[a] # claims[a] =>
            claims'[a] = None \/ (Address[claims'[a]] = a /\ HeldBy(c, claims[a])'),
         users \ {regs[c].user} \subseteq users',
         ~mishap' /\ regs[c].pc \in Holding =>
            \/ regs[c].user \in users'
            \/ regs'[c].pc \in Holding /\ regs'[c].user = regs[c].user
            \/ claims'[regs[c].address] = None
  PROVE  HeldInv'
<1>0. RegInStep(regs[c]) /\ UsersInStep
  BY StepParts
<1>1. ASSUME NEW a \in Addresses, claims'[a] # None  PROVE Address[claims'[a]] = a
  BY <1>1 DEF HeldInv
<1>2. ASSUME ~mishap', NEW a \in Addresses, claims'[a] # None, claims'[a] \notin users'
      PROVE  \E d \in Calls : regs'[d].pc \in Holding /\ regs'[d].user = claims'[a]
  <2>1. CASE claims'[a] # claims[a]
    BY <1>2, <2>1 DEF HeldBy
  <2>2. CASE claims'[a] = claims[a]
    <3>1. CASE claims[a] \in users
      <4>1. claims[a] = regs[c].user
        BY <1>2, <2>2, <3>1
      <4>2. regs[c].pc \in Holding
        BY <1>0, <1>2, <2>2, <4>1 DEF RegInStep
      <4>3. regs[c].address = a
        BY <1>0, <1>2, <2>2, <4>1, <4>2 DEF RegInStep, HeldInv
      <4> QED  BY <1>2, <2>2, <4>1, <4>2, <4>3 DEF HeldBy
    <3>2. CASE claims[a] \notin users
      <4>1. PICK d \in Calls : regs[d].pc \in Holding /\ regs[d].user = claims[a]
        BY <1>2, <2>2, <3>2 DEF HeldInv
      <4>2. CASE d # c
        BY <2>2, <4>1, <4>2 DEF OtherRegs
      <4>3. CASE d = c
        <5>1. regs[c].address = a
          BY <1>0, <1>2, <2>2, <4>1, <4>3 DEF RegInStep, HeldInv
        <5> QED  BY <1>2, <2>2, <4>1, <4>3, <5>1 DEF HeldBy
      <4> QED  BY <4>2, <4>3
    <3> QED  BY <3>1, <3>2
  <2> QED  BY <2>1, <2>2
<1> QED  BY <1>1, <1>2 DEF HeldInv

LEMMA GotoReg ==
  ASSUME StepInv, NEW c \in Calls, NEW pc \in RegPcs, RegGoto(c, pc)
  PROVE  OtherRegs(c) /\ regs'[c].pc = pc /\ regs'[c].user = regs[c].user /\ regs'[c].code = regs[c].code
<1>1. regs \in [Calls -> RegState]
  BY SlotFields
<1> QED  BY <1>1, RegGotoFields, RegWrittenFields DEF SameReg

LEMMA EndReg ==
  ASSUME StepInv, NEW c \in Calls, RegEnd(c)
  PROVE  /\ OtherRegs(c) /\ regs'[c] = IdleReg /\ OthersStand(c) /\ calls'[c] = IdleCall
<1>1. regs \in [Calls -> RegState] /\ calls \in [Calls -> CallState]
  BY SlotFields
<1> QED  BY <1>1, RegEndFields, RegWrittenFields, WrittenFields, IdleFields, IdleRegFields

LEMMA NextHeld ==
  ASSUME StepInv, HeldInv, [RegistrationNext]_registrationVars
  PROVE  HeldInv'
<1>1. ASSUME UNCHANGED <<users, claims, regs, mishap>>  PROVE HeldInv'
  BY <1>1 DEF HeldInv
<1>2. ASSUME NEW c \in Calls, SignUpForm(c) \/ \E form \in Forms, a \in Addresses : BeginProvision(c, form, a)
      PROVE  HeldInv'
  <2>1. PICK pc, form, a, k, i : BeginIn(c, pc, form, a, k, i)
    BY <1>2 DEF SignUpForm, BeginRegister, BeginProvision
  <2>2. /\ UNCHANGED <<users, claims, mishap>> /\ At(c, "idle")
        /\ regs' = [regs EXCEPT ![c] = [IdleReg EXCEPT !.pc = pc, !.form = form,
                                          !.address = a, !.code = k, !.invite = i]]
    BY <2>1 DEF BeginIn, vaults, history
  <2>3. regs[c].pc = "idle" /\ OtherRegs(c)
    BY <2>2, StepParts DEF SlotInStep, OtherRegs, At
  <2> QED  BY <2>2, <2>3, HeldKept DEF Holding
<1>3. ASSUME NEW c \in Calls, CheckInvitation(c) \/ CheckCode(c)  PROVE HeldInv'
  <2>1. OtherRegs(c)
    BY <1>3, EndReg, GotoReg DEF CheckInvitation, CheckCode, RegPcs
  <2>2. UNCHANGED <<users, claims, mishap>> /\ regs[c].pc \notin Holding
    BY <1>3 DEF CheckInvitation, CheckCode, vaults, OnlyRegs, history, RegAt, Holding
  <2> QED  BY <2>1, <2>2, HeldKept
<1>4. ASSUME NEW c \in Calls, ClaimAddress(c)  PROVE HeldInv'
  <2>0. /\ UNCHANGED <<users, mishap>> /\ regs[c].pc = "claim" /\ regs[c] \in RegState
        /\ regs \in [Calls -> RegState] /\ UserTypes
    BY <1>4, SlotFields DEF ClaimAddress, RegAt
  <2>1. CASE ~Unclaimed(regs[c].address)
    BY <1>4, <2>0, <2>1, EndReg, HeldKept DEF ClaimAddress, Holding
  <2>2. CASE Unclaimed(regs[c].address)
    <3>1. PICK u \in Users :
            /\ Address[u] = regs[c].address /\ claims' = [claims EXCEPT ![regs[c].address] = u]
            /\ regs' = [regs EXCEPT ![c].pc = "user", ![c].user = u]
      BY <1>4, <2>2 DEF ClaimAddress
    <3>2. regs'[c].pc = "user" /\ regs'[c].user = u /\ OtherRegs(c)
      BY <2>0, <3>1 DEF RegState, OtherRegs
    <3>3. \A a \in Addresses : claims'[a] # claims[a] => a = regs[c].address /\ claims'[a] = u
      BY <2>0, <3>1 DEF UserTypes
    <3>4. \A a \in Addresses : claims'[a] # claims[a] =>
             claims'[a] = None \/ (Address[claims'[a]] = a /\ HeldBy(c, claims[a])')
      BY <3>1, <3>2, <3>3 DEF HeldBy, Holding
    <3> QED  BY <2>0, <3>2, <3>4, HeldKept DEF Holding
  <2> QED  BY <2>1, <2>2
<1>5. ASSUME NEW c \in Calls, InsertUser(c)  PROVE HeldInv'
  <2>1. OtherRegs(c)
    BY <1>5, GotoReg DEF InsertUser, RegPcs
  <2> QED  BY <1>5, <2>1, HeldKept DEF InsertUser
<1>6. ASSUME NEW c \in Calls, SetSecret(c) \/ Consume(c) \/ OpenSession(c) \/ Accepted(c)
      PROVE  HeldInv'
  <2>1. OtherRegs(c)
    BY <1>6, EndReg, GotoReg DEF SetSecret, Consume, OpenSession, Accepted, Answered, RegPcs
  <2>2. UNCHANGED <<users, claims>> /\ (~mishap' => ~mishap)
    <3>1. UNCHANGED <<users, claims>>
      BY <1>6 DEF SetSecret, Consume, OpenSession, Accepted, vaults
    <3>2. UNCHANGED mishap \/ mishap' = TRUE
      BY <1>6 DEF SetSecret, Consume, OpenSession, Accepted, Answered, history
    <3> QED  BY <3>1, <3>2
  <2>3. regs[c].user \in users
    BY <1>6, SlotFields DEF SetSecret, Consume, OpenSession, Accepted, RegAt, RegInStep, Present
  <2> QED  BY <2>1, <2>2, <2>3, HeldKept
<1>7. ASSUME NEW c \in Calls, Throws(c)  PROVE HeldInv'
  <2>0. UNCHANGED <<users, claims, mishap>>
    BY <1>7 DEF Throws, vaults
  <2>1. ASSUME regs[c].pc \in {"invitation", "code", "claim"}, RegEnd(c)  PROVE HeldInv'
    BY <2>0, <2>1, EndReg, HeldKept DEF Holding
  <2>2. ASSUME regs[c].pc = "secret", RegEnd(c)  PROVE HeldInv'
    <3>1. regs[c].user \in users
      BY <2>2, SlotFields DEF RegInStep, Present
    <3> QED  BY <2>0, <2>2, <3>1, EndReg, HeldKept
  <2>3. ASSUME RegGoto(c, "undoUser")  PROVE HeldInv'
    <3>1. OtherRegs(c) /\ regs'[c].pc \in Holding /\ regs'[c].user = regs[c].user
      BY <2>3, GotoReg DEF RegPcs, Holding
    <3> QED  BY <2>0, <3>1, HeldKept
  <2> QED  BY <1>7, <2>1, <2>2, <2>3 DEF Throws, RegAt
<1>8. ASSUME NEW c \in Calls, UndoUser(c)  PROVE HeldInv'
  <2>1. OtherRegs(c) /\ regs'[c].pc \in Holding /\ regs'[c].user = regs[c].user
    BY <1>8, GotoReg DEF UndoUser, RegPcs, Holding
  <2>2. UNCHANGED <<claims, mishap>> /\ users' = users \ {regs[c].user}
    BY <1>8 DEF UndoUser, history
  <2> QED  BY <2>1, <2>2, HeldKept
<1>9. ASSUME NEW c \in Calls, UndoClaim(c)  PROVE HeldInv'
  <2>0. /\ UNCHANGED <<users, mishap>> /\ claims' = [claims EXCEPT ![regs[c].address] = None]
        /\ RegEnd(c) /\ regs[c].pc = "undoClaim" /\ RegInStep(regs[c]) /\ UserTypes
    BY <1>9, SlotFields DEF UndoClaim, OnlyRegs, history, RegAt
  <2>1. claims'[regs[c].address] = None /\ \A a \in Addresses : claims'[a] # claims[a] => claims'[a] = None
    BY <2>0 DEF RegInStep, UserTypes
  <2> QED  BY <2>0, <2>1, EndReg, HeldKept
<1>10. ASSUME NEW c \in Calls, Crash(c)  PROVE HeldInv'
  BY <1>10, EndReg, HeldKept DEF Crash, vaults
<1>11. CASE UNCHANGED registrationVars
  BY <1>1, <1>11 DEF registrationVars, vaults, history
<1>12. CASE MemberStep(Settled) /\ UNCHANGED <<vaults, codes, regs, history>>
  BY <1>1, <1>12 DEF vaults, history
<1>13. ASSUME NEW c \in Calls, UNCHANGED <<vaults, codes, regs, issued, answered, admitted, mishap>>  PROVE HeldInv'
  BY <1>1, <1>13 DEF vaults
<1>14. ASSUME (\E u \in Users : RotateSecret(u)) \/ \E k \in Codes : CreateCode(k) \/ ExpireCode(k)
       PROVE  HeldInv'
  BY <1>1, <1>14 DEF RotateSecret, CreateCode, ExpireCode, vaults, history
<1> QED  BY <1>2, <1>3, <1>4, <1>5, <1>6, <1>7, <1>8, <1>9, <1>10, <1>11, <1>12, <1>13, <1>14
     DEF RegistrationNext, BetaRoutes, InviteForm

LEMMA HeldInvariance == RegistrationSpec => []HeldInv
<1>1. RegistrationInit => HeldInv
  BY DEF RegistrationInit, HeldInv
<1>2. StepInv /\ HeldInv /\ [RegistrationNext]_registrationVars => HeldInv'
  BY NextHeld
<1> QED  BY <1>1, <1>2, StepInvariance, PTL DEF RegistrationSpec

(* registerUser's rollback: where nothing was lost, an address that is     *)
(* claimed after the calls have ended is the address of a user.            *)
THEOREM FailedRegistersAgain == RegistrationSpec => []FailedCanRetry
<1>1. HeldInv => FailedCanRetry
  BY DEF HeldInv, FailedCanRetry, RegAt, WithAddress, Holding
<1> QED  BY <1>1, HeldInvariance, PTL

-----------------------------------------------------------------------------
(* As long as calls come one at a time only the acting call has read       *)
(* anything that a step could change.                                      *)
OthersIdle(c) == \A d \in Calls : d # c => calls[d].pc = "idle"
Reading == {"owners", "write", "seat", "claim", "latest", "join"}

LEMMA AloneKept ==
  ASSUME StepInv', NEW c \in Calls, OthersStand(c), OthersIdle(c),
         (Owners # {})', ReadIsSo(c)',
         (~mishap => CodesInStep /\ CodeRead(c))'
  PROVE  OneCall' /\ OwnerInv' /\ CodeInv'
<1>1. \A d \in Calls : d # c => calls'[d].pc = "idle"
  BY DEF OthersStand, OthersIdle
<1>2. ASSUME NEW d \in Calls, d # c  PROVE ReadIsSo(d)' /\ CodeRead(d)'
  <2>1. calls'[d].pc = "idle"
    BY <1>1, <1>2
  <2>2. regs'[d].pc = "idle" /\ regs'[d].user = None
    BY <2>1 DEF StepInv, InStep, SlotInStep, RegInStep, Holding
  <2>3. None \notin Owners'
    BY NoUserAssumption DEF Owners, Members
  <2> QED  BY <2>1, <2>2, <2>3 DEF ReadIsSo, CodeRead, Holding
<1>3. OneCall'
  BY <1>1 DEF OneCall, At
<1> QED  BY <1>2, <1>3 DEF OwnerInv, CodeInv

(* The calls other than the one that acts are idle.                        *)
LEMMA ActsAlone ==
  ASSUME AloneInv, raced = 0, NEW c \in Calls, calls[c].pc # "idle"
  PROVE  /\ OthersIdle(c) /\ OwnerInv /\ CodeInv /\ ReadIsSo(c)
         /\ ~mishap => CodesInStep /\ CodeRead(c)
BY DEF AloneInv, OneCall, At, OthersIdle, OwnerInv, CodeInv

LEMMA BeginsAlone ==
  ASSUME AloneInv, raced = 0, InFlight = {}, NEW c \in Calls
  PROVE  OthersIdle(c) /\ OwnerInv /\ CodeInv
BY DEF AloneInv, InFlight, At, OthersIdle

(* A step of members that leaves the members' rows alone.                  *)
SameMembers == UNCHANGED <<members, regs, codes, admitted, mishap>>

LEMMA SameMembersAlone ==
  ASSUME StepInv, StepInv', NEW c \in Calls, OthersIdle(c), OwnerInv, CodeInv, SameMembers,
         NEW new \in CallState, Written(c, new),
         \/ new.pc \notin Reading
         \/ /\ members[new.user] = new.row
            /\ new.pc = "write" /\ GivesUp(new, new.row) => assertAnotherOwner(new.user)
  PROVE  OneCall' /\ OwnerInv' /\ CodeInv'
<1>0. calls \in [Calls -> CallState]
  BY StepParts
<1>1. OthersStand(c) /\ calls'[c] = new
  BY <1>0, WrittenFields
<1>2. UNCHANGED <<members, regs, codes, admitted, mishap>> /\ Owners' = Owners
  BY DEF SameMembers, Owners, Members, IsMember
<1>3. ReadIsSo(c)'
  <2>1. regs[c].user \notin Owners
    BY DEF OwnerInv, ReadIsSo
  <2> QED  BY <1>1, <1>2, <2>1 DEF ReadIsSo, Reading, assertAnotherOwner
<1>4. (~mishap => CodesInStep /\ CodeRead(c))'
  BY <1>2 DEF CodeInv, CodesInStep, CodeRead, Consumed
<1>5. (Owners # {})'
  BY <1>2 DEF OwnerInv
<1> QED  BY <1>1, <1>3, <1>4, <1>5, AloneKept

LEMMA EndAlone ==
  ASSUME StepInv, StepInv', AloneInv, raced = 0, NEW c \in Calls, calls[c].pc \in CallPcs,
         SameMembers, NEW pc \in Result, Return(c, pc)
  PROVE  OneCall' /\ OwnerInv' /\ CodeInv'
<1>1. PICK new \in CallState : Written(c, new) /\ new.pc \in Result \union {"idle"}
  BY ReturnInStep
<1> QED  BY <1>1, ActsAlone, SameMembersAlone DEF Result, Reading, CallPcs

LEMMA GotoAlone ==
  ASSUME StepInv, StepInv', AloneInv, raced = 0, NEW c \in Calls, calls[c].pc \in CallPcs,
         SameMembers, NEW pc \in CallPcs, Goto(c, pc),
         \/ pc \notin Reading
         \/ calls[c].pc \in Reading /\ pc # "write"
         \/ calls[c].pc = "owners" /\ pc = "write" /\ assertAnotherOwner(calls[c].user)
  PROVE  OneCall' /\ OwnerInv' /\ CodeInv'
<1>1. PICK new \in CallState :
           /\ Written(c, new) /\ Same(new, calls[c]) /\ new.pc = pc /\ new.row = calls[c].row
  BY StepParts, GotoFields
<1>2. OthersIdle(c) /\ OwnerInv /\ CodeInv /\ ReadIsSo(c)
  BY ActsAlone DEF CallPcs
<1>3. calls[c].pc \in Reading => members[calls[c].user] = calls[c].row
  BY <1>2 DEF ReadIsSo, Reading
<1>4. \/ new.pc \notin Reading
      \/ /\ members[new.user] = new.row
         /\ new.pc = "write" /\ GivesUp(new, new.row) => assertAnotherOwner(new.user)
  BY <1>1, <1>3 DEF Same, Reading
<1> QED  BY <1>1, <1>2, <1>4, SameMembersAlone

LEMMA BeginAlone ==
  ASSUME StepInv, StepInv', AloneInv, raced' = 0, NEW c \in Calls, SameMembers,
         NEW u, NEW r, NEW call \in CallState, Begin(c, u, r, call), call.pc \notin Reading
  PROVE  OneCall' /\ OwnerInv' /\ CodeInv'
<1>1. calls \in [Calls -> CallState] /\ raced \in 0..MaxRaces
  BY StepParts DEF TablesInStep
<1>2. PICK new \in CallState : Written(c, new) /\ new.pc = call.pc
  BY <1>1, BeginFields
<1>3. raced = 0 /\ InFlight = {}
  BY <1>1, BeginFields
<1> QED  BY <1>2, <1>3, BeginsAlone, SameMembersAlone

(* The first statements.                                                   *)
LEMMA RoutesAlone ==
  ASSUME StepInv, StepInv', AloneInv, raced' = 0, UNCHANGED regVars, NEW c \in Calls,
         OrganizationRoutes(c, Settled) \/ \E u \in Settled : BeginFound(c, u)
  PROVE  OneCall' /\ OwnerInv' /\ CodeInv'
<1>0. raced \in 0..MaxRaces /\ MaxRaces \in Nat
  BY StepParts, SeatsAssumption DEF TablesInStep
<1>1. ASSUME NEW u, NEW r, NEW call \in CallState, Begin(c, u, r, call), call.pc \notin Reading
      PROVE  OneCall' /\ OwnerInv' /\ CodeInv'
  <2>1. SameMembers
    BY <1>1 DEF Begin, SameMembers, regVars, history
  <2> QED  BY <1>1, <2>1, BeginAlone
<1>2. CASE \E a \in Settled, r \in Offers, l \in Locks : BeginInvite(c, a, r, l)
  <2>1. PICK a \in Settled, r \in Offers, l \in Locks : BeginInvite(c, a, r, l)
    BY <1>2
  <2>2. [IdleCall EXCEPT !.kind = "invite", !.pc = "count", !.role = r, !.lock = l] \in CallState
    BY IdleFields, OffersAssumption DEF CallState, AllKinds, Roles
  <2>3. [IdleCall EXCEPT !.kind = "invite", !.pc = "count", !.role = r, !.lock = l].pc \notin Reading
    BY DEF IdleCall, Reading
  <2> QED  BY <1>1, <2>1, <2>2, <2>3 DEF BeginInvite
<1>3. CASE \E a \in Settled, u \in Users : BeginRemove(c, a, u)
  <2>1. PICK a \in Settled, u \in Users : BeginRemove(c, a, u)
    BY <1>3
  <2>2. [IdleCall EXCEPT !.kind = "remove", !.pc = "target", !.user = u] \in CallState
    BY IdleFields DEF CallState, AllKinds
  <2>3. [IdleCall EXCEPT !.kind = "remove", !.pc = "target", !.user = u].pc \notin Reading
    BY DEF IdleCall, Reading
  <2> QED  BY <1>1, <2>1, <2>2, <2>3 DEF BeginRemove
<1>4. CASE \E a \in Settled, u \in Users, r \in Roles : BeginChange(c, a, u, r)
  <2>1. PICK a \in Settled, u \in Users, r \in Roles : BeginChange(c, a, u, r)
    BY <1>4
  <2>2. [IdleCall EXCEPT !.kind = "change", !.pc = "target", !.user = u, !.role = r] \in CallState
    BY IdleFields DEF CallState, AllKinds
  <2>3. [IdleCall EXCEPT !.kind = "change", !.pc = "target", !.user = u, !.role = r].pc \notin Reading
    BY DEF IdleCall, Reading
  <2> QED  BY <1>1, <2>1, <2>2, <2>3 DEF BeginChange
<1>5. CASE \E a \in Settled, i \in Invites : BeginRevoke(c, a, i)
  <2>1. PICK a \in Settled, i \in Invites : BeginRevoke(c, a, i)
    BY <1>5
  <2>2. [IdleCall EXCEPT !.kind = "revoke", !.pc = "shut", !.invite = i] \in CallState
    BY IdleFields DEF CallState, AllKinds
  <2>3. [IdleCall EXCEPT !.kind = "revoke", !.pc = "shut", !.invite = i].pc \notin Reading
    BY DEF IdleCall, Reading
  <2> QED  BY <1>1, <2>1, <2>2, <2>3 DEF BeginRevoke
<1>6. ASSUME NEW kind, CountRace(kind)  PROVE raced = 0 /\ InFlight = {}
  BY <1>0, <1>6 DEF CountRace
<1>7. CASE \E u \in Settled, i \in Invites : BeginAccept(c, u, i)
  <2>1. PICK u \in Settled, i \in Invites : BeginAccept(c, u, i)
    BY <1>7
  <2>2. u \in Users /\ Acceptable(i, u)
    BY <2>1, StepParts DEF Settled, RegistrationTypeOK, BeginAccept
  <2>3. Acceptance("accept", u, i) \in CallState /\ Acceptance("accept", u, i).pc \notin Reading
    BY <2>2, AcceptanceFields DEF Reading
  <2>4. SameMembers /\ Written(c, Acceptance("accept", u, i)) /\ raced = 0 /\ InFlight = {}
    BY <1>6, <2>1 DEF BeginAccept, SameMembers, regVars, history, Written
  <2> QED  BY <2>3, <2>4, BeginsAlone, SameMembersAlone
<1>8. CASE \E u \in Settled : BeginFound(c, u)
  <2>1. PICK u \in Settled : BeginFound(c, u)
    BY <1>8
  <2>2. [IdleCall EXCEPT !.kind = "found", !.pc = "limit", !.user = u] \in CallState
    BY StepParts, IdleFields DEF CallState, AllKinds, Settled, RegistrationTypeOK
  <2>3. [IdleCall EXCEPT !.kind = "found", !.pc = "limit", !.user = u].pc \notin Reading
    BY DEF IdleCall, Reading
  <2>4. /\ SameMembers /\ Written(c, [IdleCall EXCEPT !.kind = "found", !.pc = "limit", !.user = u])
        /\ raced = 0 /\ InFlight = {}
    BY <1>6, <2>1 DEF BeginFound, SameMembers, regVars, history, Written
  <2> QED  BY <2>2, <2>3, <2>4, BeginsAlone, SameMembersAlone
<1> QED  BY <1>2, <1>3, <1>4, <1>5, <1>7, <1>8 DEF OrganizationRoutes, MemberForms

LEMMA ReadsAlone ==
  ASSUME StepInv, StepInv', AloneInv, raced = 0, UNCHANGED regVars, NEW c \in Calls,
         ReadTarget(c) \/ ReadExisting(c)
  PROVE  OneCall' /\ OwnerInv' /\ CodeInv'
<1>0. /\ calls \in [Calls -> CallState] /\ CallInStep(calls[c]) /\ SameMembers
      /\ calls[c].pc \in {"target", "existing"} /\ TablesInStep
  BY StepParts DEF ReadTarget, ReadExisting, At, OnlyCalls, SameMembers, regVars, history
<1>1. /\ calls[c].user \in Users /\ calls[c].pc \in CallPcs
      /\ OthersIdle(c) /\ OwnerInv /\ CodeInv
  BY <1>0, ActsAlone DEF CallInStep, Accepting, Changing, CallPcs
<1>2. CASE End(c)
  BY <1>0, <1>1, <1>2, EndAlone DEF End, Result
<1>3. ASSUME NEW pc \in CallPcs, WithRow(c, members[calls[c].user], pc),
             pc = "write" => ~GivesUp(calls[c], members[calls[c].user])
      PROVE  OneCall' /\ OwnerInv' /\ CodeInv'
  <2>1. members[calls[c].user] \in MemberRow \union {None}
    BY <1>0, <1>1 DEF TablesInStep
  <2>2. PICK new \in CallState :
          /\ Written(c, new) /\ Same(new, calls[c]) /\ new.pc = pc
          /\ new.row = members[calls[c].user]
    BY <1>0, <1>3, <2>1, WithRowFields
  <2>3. /\ members[new.user] = new.row
        /\ new.pc = "write" => ~GivesUp(new, new.row)
    BY <1>3, <2>2 DEF Same, GivesUp
  <2> QED  BY <1>0, <1>1, <2>2, <2>3, SameMembersAlone
<1>4. \/ End(c)
      \/ \E pc \in CallPcs : /\ WithRow(c, members[calls[c].user], pc)
                             /\ pc = "write" => ~GivesUp(calls[c], members[calls[c].user])
  <2>1. CASE ReadTarget(c)
    <3>1. \/ End(c)
          \/ WithRow(c, members[calls[c].user], "owners")
          \/ /\ WithRow(c, members[calls[c].user], "write")
             /\ ~GivesUp(calls[c], members[calls[c].user])
      BY <2>1 DEF ReadTarget, WithRow
    <3> QED  BY <3>1 DEF CallPcs
  <2>2. CASE ReadExisting(c)
    <3>1. \/ WithRow(c, members[calls[c].user], "seat")
          \/ WithRow(c, members[calls[c].user], "join")
          \/ WithRow(c, members[calls[c].user], "claim")
      BY <2>2 DEF ReadExisting, WithRow, ClaimOrJoin
    <3> QED  BY <3>1 DEF CallPcs
  <2> QED  BY <2>1, <2>2
<1> QED  BY <1>2, <1>3, <1>4

(* An owner goes only when another one stays.                              *)
LEMMA WriteAlone ==
  ASSUME StepInv, StepInv', AloneInv, raced = 0, UNCHANGED regVars, NEW c \in Calls, WriteChange(c)
  PROVE  OneCall' /\ OwnerInv' /\ CodeInv'
<1>0. /\ calls \in [Calls -> CallState] /\ CallInStep(calls[c]) /\ SlotInStep(calls[c], regs[c])
      /\ RegInStep(regs[c]) /\ TablesInStep /\ calls[c].pc = "write"
  BY StepParts DEF WriteChange, At
<1> DEFINE u == calls[c].user
           row == calls[c].row
<1>1. /\ OthersIdle(c) /\ OwnerInv /\ CodeInv /\ members[u] = row /\ row \in MemberRow
      /\ u \in Users /\ calls[c].kind \in {"change", "remove"}
      /\ GivesUp(calls[c], row) => assertAnotherOwner(u)
  BY <1>0, ActsAlone DEF ReadIsSo, CallInStep, Changing
<1>2. PICK new \in CallState :
        /\ Written(c, new) /\ new.pc \in Result \union {"idle"}
  BY <1>0, ReturnInStep DEF WriteChange, End, Result, CallPcs
<1>3. OthersStand(c) /\ calls'[c] = new
  BY <1>0, <1>2, WrittenFields
<1>4. UNCHANGED <<regs, codes, admitted, mishap>>
  BY DEF regVars, history
<1>5. regs[c].user = None
  BY <1>0, <1>1 DEF SlotInStep, RegInStep, SignUp, Holding
<1>6. ReadIsSo(c)'
  <2>1. None \notin Owners'
    BY NoUserAssumption DEF Owners, Members
  <2> QED  BY <1>2, <1>3, <1>4, <1>5, <2>1 DEF ReadIsSo, Result
<1>7. (~mishap => CodesInStep /\ CodeRead(c))'
  BY <1>1, <1>4 DEF CodeInv, CodesInStep, CodeRead, Consumed
<1>8. \A v \in Users : v # u => members'[v] = members[v]
  BY <1>0, <1>1 DEF WriteChange, SetRole, DropRow, TablesInStep
<1>9. (Owners # {})'
  <2>1. CASE \E v \in Owners : v # u
    <3>1. PICK v \in Owners : v # u
      BY <2>1
    <3>2. v \in Users /\ members[v] # None /\ members[v].role = "owner"
      BY <3>1 DEF Owners, Members, IsMember
    <3>3. v \in Owners'
      BY <1>8, <3>1, <3>2 DEF Owners, Members, IsMember
    <3> QED  BY <3>3
  <2>2. CASE Owners \subseteq {u}
    <3>1. u \in Owners
      BY <1>1, <2>2 DEF OwnerInv
    <3>2. row.role = "owner" /\ ~assertAnotherOwner(u)
      BY <1>1, <2>2, <3>1 DEF Owners, assertAnotherOwner
    <3>3. calls[c].kind = "change" /\ calls[c].role = "owner"
      BY <1>1, <3>2 DEF GivesUp
    <3>4. members' = [members EXCEPT ![u].role = "owner"]
      BY <1>1, <3>1, <3>3 DEF WriteChange, SetRole, IsRow, Owners, Members
    <3>5. members'[u] = [row EXCEPT !.role = "owner"]
      BY <1>0, <1>1, <3>4 DEF TablesInStep
    <3>6. members'[u].role = "owner" /\ members'[u] \in MemberRow
      <4> HIDE DEF row
      <4> QED  BY <1>1, <3>5 DEF MemberRow, Roles
    <3> QED  BY <1>1, <3>6, RowAssumption DEF Owners, Members, IsMember
  <2> QED  BY <2>1, <2>2
<1> QED  BY <1>1, <1>3, <1>6, <1>7, <1>9, AloneKept

(* Who joins comes with the role of an invitation, never an owner's, and   *)
(* no owner is lowered to it.                                              *)
LEMMA JoinAlone ==
  ASSUME StepInv, StepInv', AloneInv, raced = 0, UNCHANGED regVars, NEW c \in Calls, Join(c)
  PROVE  OneCall' /\ OwnerInv' /\ CodeInv'
<1>0. /\ calls \in [Calls -> CallState] /\ CallInStep(calls[c])
      /\ TablesInStep /\ calls[c].pc = "join"
  BY StepParts DEF Join, At
<1> DEFINE u == calls[c].user
           row == calls[c].row
           role == calls[c].role
<1>1. /\ OthersIdle(c) /\ OwnerInv /\ CodeInv /\ members[u] = row
      /\ u \in Users /\ role # "owner" /\ regs[c].user \notin Owners
  BY <1>0, ActsAlone, OffersAssumption DEF ReadIsSo, CallInStep, Accepting
<1>2. PICK new \in CallState :
        /\ Written(c, new) /\ new.pc \in Result \union {"idle"}
  BY <1>0, ReturnInStep DEF Join, Result, CallPcs
<1>3. OthersStand(c) /\ calls'[c] = new
  BY <1>0, <1>2, WrittenFields
<1>4. UNCHANGED <<regs, codes, admitted, mishap>>
  BY DEF regVars, history
<1>5. /\ \A v \in Users : v # u => members'[v] = members[v]
      /\ members'[u] # None /\ members'[u].role = "owner" => members'[u] = members[u]
  <2>1. CASE UNCHANGED members
    BY <2>1
  <2>2. CASE SetRole(u, row, role)
    <3>1. CASE IsMember(u)
      <4>1. [members[u] EXCEPT !.role = role].role # "owner"
        BY <1>0, <1>1, <3>1 DEF TablesInStep, IsMember, MemberRow
      <4>2. members' = members \/ members' = [members EXCEPT ![u] = [members[u] EXCEPT !.role = role]]
        BY <2>2 DEF SetRole
      <4> HIDE DEF role
      <4> QED  BY <1>0, <1>1, <4>1, <4>2 DEF TablesInStep
    <3>2. CASE ~IsMember(u)
      BY <2>2, <3>2 DEF SetRole, IsRow
    <3> QED  BY <3>1, <3>2
  <2>3. CASE members' = [members EXCEPT ![u] = [id |-> joins[u] + 1, role |-> role]]
    BY <1>0, <1>1, <2>3 DEF TablesInStep
  <2> QED  BY <2>1, <2>2, <2>3 DEF Join, InsertRow
<1>6. members[u] # None /\ members[u].role = "owner" => members'[u] = members[u]
  BY <1>1 DEF Join
<1>7. Owners' = Owners
  BY <1>1, <1>5, <1>6 DEF Owners, Members, IsMember
<1>8. ReadIsSo(c)'
  BY <1>1, <1>2, <1>3, <1>4, <1>7 DEF ReadIsSo, Result
<1>9. (~mishap => CodesInStep /\ CodeRead(c))'
  BY <1>1, <1>4 DEF CodeInv, CodesInStep, CodeRead, Consumed
<1>10. (Owners # {})'
  BY <1>1, <1>7 DEF OwnerInv
<1> QED  BY <1>1, <1>3, <1>8, <1>9, <1>10, AloneKept

LEMMA MembersAlone ==
  ASSUME StepInv, StepInv', AloneInv, raced' = 0, MemberStep(Settled), UNCHANGED regVars
  PROVE  OneCall' /\ OwnerInv' /\ CodeInv'
<1>0. UNCHANGED <<regs, codes, admitted, mishap>>
  BY DEF regVars, history
<1>1. ASSUME NEW c \in Calls, OnlyCalls, calls[c].pc \in CallPcs, End(c)
      PROVE  OneCall' /\ OwnerInv' /\ CodeInv'
  BY <1>0, <1>1, EndAlone DEF OnlyCalls, SameMembers, End, Result
<1>2. ASSUME NEW c \in Calls,
             \/ CheckOwners(c) \/ CountPending(c) \/ TakeSeat(c) \/ Latest(c) \/ CheckPlan(c)
      PROVE  OneCall' /\ OwnerInv' /\ CodeInv'
  <2>1. OnlyCalls /\ SameMembers /\ raced = 0 /\ calls[c].pc \in CallPcs
    BY <1>0, <1>2 DEF CheckOwners, CountPending, TakeSeat, Latest, CheckPlan, OnlyCalls, SameMembers,
       At, CallPcs
  <2>2. \/ End(c)
        \/ calls[c].pc = "owners" /\ Goto(c, "write") /\ assertAnotherOwner(calls[c].user)
        \/ Goto(c, "insert") \/ Goto(c, "tenant")
        \/ calls[c].pc = "seat" /\ (Goto(c, "claim") \/ Goto(c, "join"))
        \/ calls[c].pc = "latest" /\ Goto(c, "join")
    BY <1>2 DEF CheckOwners, CountPending, TakeSeat, Latest, CheckPlan, At, ClaimOrJoin
  <2> QED  BY <1>1, <2>1, <2>2, GotoAlone DEF CallPcs, Reading
<1>3. ASSUME NEW c \in Calls, InsertInvite(c) \/ Shut(c) \/ UndoTeam(c) \/ LoseTeam(c)
      PROVE  OneCall' /\ OwnerInv' /\ CodeInv'
  <2>1. SameMembers /\ raced = 0 /\ calls[c].pc \in CallPcs /\ End(c)
    BY <1>0, <1>3 DEF InsertInvite, Shut, UndoTeam, LoseTeam, OnlyCalls, SameMembers, At, CallPcs
  <2> QED  BY <2>1, EndAlone DEF End, Result
<1>4. ASSUME NEW c \in Calls, OwnTeam(c)  PROVE OneCall' /\ OwnerInv' /\ CodeInv'
  <2>1. SameMembers /\ raced = 0 /\ calls[c].pc \in CallPcs /\ (End(c) \/ Goto(c, "undo"))
    BY <1>0, <1>4 DEF OwnTeam, OnlyCalls, SameMembers, At, CallPcs
  <2> QED  BY <2>1, EndAlone, GotoAlone DEF End, Result, CallPcs, Reading
<1>5. ASSUME NEW c \in Calls, Claim(c)  PROVE OneCall' /\ OwnerInv' /\ CodeInv'
  <2>1. SameMembers /\ raced = 0 /\ calls[c].pc = "claim" /\ (Goto(c, "join") \/ Goto(c, "latest"))
    BY <1>0, <1>5 DEF Claim, SameMembers, At
  <2> QED  BY <2>1, GotoAlone DEF CallPcs, Reading
<1>6. ASSUME NEW c \in Calls, CountMembers(c)  PROVE OneCall' /\ OwnerInv' /\ CodeInv'
  <2>1. SameMembers /\ raced = 0 /\ calls[c].pc = "count" /\ calls \in [Calls -> CallState]
    BY <1>0, <1>6, StepParts DEF CountMembers, OnlyCalls, SameMembers, At
  <2>2. PICK n \in Nat : WithUsed(c, n)
    BY <1>6, StepParts, FS_CardinalityType DEF CountMembers, WithUsed, TablesInStep
  <2>3. PICK new \in CallState : Written(c, new) /\ new.pc = "pending"
    BY <2>1, <2>2, WithUsedFields
  <2> QED  BY <2>1, <2>3, ActsAlone, SameMembersAlone DEF Reading
<1>7. ASSUME NEW c \in Calls, InsertTeam(c)  PROVE OneCall' /\ OwnerInv' /\ CodeInv'
  <2>1. SameMembers /\ raced = 0 /\ calls[c].pc = "tenant" /\ calls \in [Calls -> CallState]
    BY <1>0, <1>7, StepParts DEF InsertTeam, OnlyCalls, SameMembers, At
  <2>2. PICK t \in Teams : WithTeam(c, t)
    BY <1>7 DEF InsertTeam, WithTeam
  <2>3. PICK new \in CallState : Written(c, new) /\ new.pc = "owner"
    BY <2>1, <2>2, WithTeamFields
  <2> QED  BY <2>1, <2>3, ActsAlone, SameMembersAlone DEF Reading
<1>8. ASSUME NEW i \in Invites, Expire(i)  PROVE OneCall' /\ OwnerInv' /\ CodeInv'
  BY <1>0, <1>8 DEF Expire, AloneInv, OneCall, At, OwnerInv, ReadIsSo, Owners, Members, IsMember,
     assertAnotherOwner, CodeInv, CodesInStep, CodeRead, Consumed
<1>9. ASSUME NEW c \in Calls, ReadTarget(c) \/ WriteChange(c) \/ ReadExisting(c) \/ Join(c)
      PROVE  OneCall' /\ OwnerInv' /\ CodeInv'
  <2>1. raced = 0
    BY <1>9 DEF ReadTarget, WriteChange, ReadExisting, Join, OnlyCalls
  <2> QED  BY <1>9, <2>1, ReadsAlone, WriteAlone, JoinAlone
<1> QED  BY <1>2, <1>3, <1>4, <1>5, <1>6, <1>7, <1>8, <1>9, RoutesAlone DEF MemberStep, FoundingStep

-----------------------------------------------------------------------------
(* A step of a registration, which has no part in the members' roles.      *)
LEMMA RegistrationAlone ==
  ASSUME StepInv, StepInv', NEW c \in Calls, OthersStand(c), OthersIdle(c), OwnerInv,
         UNCHANGED members, calls'[c].pc \notin Reading,
         regs'[c].user \in {regs[c].user, None} \/ regs'[c].user \notin issued,
         (~mishap => CodesInStep /\ CodeRead(c))'
  PROVE  OneCall' /\ OwnerInv' /\ CodeInv'
<1>1. Owners' = Owners /\ Owners \subseteq issued /\ None \notin Owners
  BY NoUserAssumption, StepParts DEF Owners, Members, IsMember, RegistrationTypeOK
<1>2. ReadIsSo(c)'
  BY <1>1 DEF ReadIsSo, OwnerInv, Reading
<1>3. (Owners # {})'
  BY <1>1 DEF OwnerInv
<1> QED  BY <1>2, <1>3, AloneKept

LEMMA GoesAlone ==
  ASSUME StepInv, StepInv', AloneInv, raced = 0, NEW c \in Calls,
         regs[c].pc \in RegPcs, NEW pc \in RegPcs, RegGoto(c, pc), UNCHANGED <<members, admitted>>,
         UNCHANGED calls \/ (OthersStand(c) /\ calls'[c].pc \notin Reading),
         ~mishap' => ~mishap /\ UNCHANGED codes,
         regs[c].code # None =>
           /\ pc \in Holding \union {"claim"} =>
                \/ regs[c].pc \in Holding \union {"claim"}
                \/ Usable(regs[c].code)
           /\ pc \in {"session", "accept"} => regs[c].pc \in {"session", "accept"},
         regs[c].code \in Codes \union {None},
         regs[c].pc # "accept" \/ calls'[c].pc \notin Reading
  PROVE  OneCall' /\ OwnerInv' /\ CodeInv'
<1>0. regs[c].pc # "idle"
  BY DEF RegPcs
<1>1. calls[c].pc # "idle" /\ (regs[c].pc # "accept" => calls[c].pc = "waits")
  BY <1>0, StepParts DEF SlotInStep
<1>2. OthersIdle(c) /\ OwnerInv /\ (~mishap => CodesInStep /\ CodeRead(c))
  BY <1>1, ActsAlone
<1>3. regs'[c].pc = pc /\ regs'[c].user = regs[c].user /\ regs'[c].code = regs[c].code
  BY GotoReg
<1>4. OthersStand(c) /\ calls'[c].pc \notin Reading
  BY <1>1 DEF OthersStand, Reading
<1>5. (~mishap => CodesInStep /\ CodeRead(c))'
  <2> SUFFICES ASSUME ~mishap'  PROVE (CodesInStep /\ CodeRead(c))'
    OBVIOUS
  <2>1. CodesInStep /\ CodeRead(c) /\ UNCHANGED <<codes, admitted>>
    BY <1>2
  <2>2. ASSUME regs[c].code # None, Usable(regs[c].code)  PROVE admitted[regs[c].code] = {}
    BY <2>1, <2>2, CodesAssumption DEF CodesInStep, Consumed, Usable
  <2> QED  BY <1>3, <2>1, <2>2 DEF CodesInStep, CodeRead, Consumed
<1> QED  BY <1>2, <1>3, <1>4, <1>5, RegistrationAlone

LEMMA LeavesAlone ==
  ASSUME StepInv, StepInv', AloneInv, raced = 0, NEW c \in Calls,
         regs[c].pc # "idle", RegEnd(c), UNCHANGED members,
         (~mishap => CodesInStep)'
  PROVE  OneCall' /\ OwnerInv' /\ CodeInv'
<1>1. calls[c].pc # "idle"
  BY StepParts DEF SlotInStep
<1>2. OthersIdle(c) /\ OwnerInv
  BY <1>1, ActsAlone
<1>3. OthersStand(c) /\ regs'[c] = IdleReg /\ calls'[c] = IdleCall
  BY EndReg
<1>4. CodeRead(c)' /\ regs'[c].user = None /\ calls'[c].pc \notin Reading
  BY <1>3, IdleFields, IdleRegFields DEF CodeRead, Reading
<1> QED  BY <1>2, <1>3, <1>4, RegistrationAlone

LEMMA AnsweredAlone ==
  ASSUME StepInv, StepInv', AloneInv, raced = 0, NEW c \in Calls,
         regs[c].pc \in Holding, Answered(c), UNCHANGED <<members, codes>>,
         regs[c].code # None => regs[c].pc \in {"session", "accept"}
  PROVE  OneCall' /\ OwnerInv' /\ CodeInv'
<1>0. /\ calls[c].pc # "idle" /\ regs[c].pc # "idle" /\ regs[c].code \in Codes \union {None}
      /\ regs[c].user \in Users /\ admitted \in [Codes -> SUBSET Users]
  BY SlotFields, StepParts DEF SlotInStep, Holding, RegState
<1>1. ~mishap => CodesInStep /\ CodeRead(c)
  BY <1>0, ActsAlone
<1>2. (~mishap => CodesInStep)'
  <2>1. UNCHANGED <<mishap, codes>>
    BY DEF Answered
  <2>2. CASE regs[c].code = None
    BY <1>1, <2>1, <2>2 DEF Answered, CodesInStep, Consumed
  <2>3. CASE regs[c].code # None
    <3>1. ~mishap => admitted[regs[c].code] = {} /\ Consumed(regs[c].code)
      BY <1>1, <2>3 DEF CodeRead
    <3>2. /\ admitted'[regs[c].code] = admitted[regs[c].code] \union {regs[c].user}
          /\ \A k \in Codes : k # regs[c].code => admitted'[k] = admitted[k]
      BY <1>0, <2>3 DEF Answered
    <3> QED  BY <1>0, <1>1, <2>1, <3>1, <3>2 DEF CodesInStep, Consumed
  <2> QED  BY <2>2, <2>3
<1> QED  BY <1>0, <1>2, LeavesAlone DEF Answered

LEMMA SignUpAlone ==
  ASSUME StepInv, StepInv', AloneInv, raced' = 0, NEW c \in Calls,
         SignUpForm(c) \/ \E form \in Forms, a \in Addresses : BeginProvision(c, form, a)
  PROVE  OneCall' /\ OwnerInv' /\ CodeInv'
<1>1. PICK pc \in {"invitation", "code", "claim"}, form \in Forms, a \in Addresses,
           k \in Codes \union {None}, i \in Invites \union {None} :
        BeginIn(c, pc, form, a, k, i) /\ (pc = "claim" => k = None)
  <2>1. CASE SignUpForm(c)
    <3>1. PICK a \in Addresses, k \in Codes \union {None}, i \in Invites \union {None} :
            BeginRegister(c, a, k, i)
      BY <2>1 DEF SignUpForm
    <3>2. \E pc \in {"invitation", "code"} : BeginIn(c, pc, "register", a, k, i)
      BY <3>1 DEF BeginRegister
    <3>3. PICK pc \in {"invitation", "code"} : BeginIn(c, pc, "register", a, k, i)
      BY <3>2
    <3>4. "register" \in Forms
      BY <3>3 DEF BeginIn
    <3> QED  BY <3>3, <3>4
  <2>2. CASE \E form \in Forms, a \in Addresses : BeginProvision(c, form, a)
    BY <2>2 DEF BeginProvision
  <2> QED  BY <2>1, <2>2
<1> DEFINE new == [IdleReg EXCEPT !.pc = pc, !.form = form, !.address = a, !.code = k, !.invite = i]
           cl == [IdleCall EXCEPT !.kind = SignUp, !.pc = "waits"]
<1>2. /\ regs' = [regs EXCEPT ![c] = new] /\ calls' = [calls EXCEPT ![c] = cl]
      /\ CountRace(SignUp) /\ UNCHANGED <<members, codes, admitted, mishap>>
  BY <1>1 DEF BeginIn, history
<1>3. new.pc = pc /\ new.user = None /\ new.code = k /\ cl.pc = "waits"
  BY DEF IdleReg, IdleCall
<1> HIDE DEF new, cl
<1>4. /\ calls \in [Calls -> CallState] /\ regs \in [Calls -> RegState]
      /\ raced \in 0..MaxRaces /\ MaxRaces \in Nat
  BY SlotFields, StepParts, SeatsAssumption DEF TablesInStep
<1>5. regs'[c] = new /\ calls'[c] = cl /\ OthersStand(c)
  BY <1>2, <1>4 DEF OthersStand
<1>6. raced = 0 /\ InFlight = {}
  BY <1>2, <1>4 DEF CountRace
<1>7. OthersIdle(c) /\ OwnerInv /\ CodeInv
  BY <1>6, BeginsAlone
<1>8. (~mishap => CodesInStep /\ CodeRead(c))'
  <2>1. CodeRead(c)'
    BY <1>1, <1>3, <1>5 DEF CodeRead, Holding
  <2> QED  BY <1>2, <1>7, <2>1 DEF CodeInv, CodesInStep, Consumed
<1> QED  BY <1>2, <1>3, <1>5, <1>7, <1>8, RegistrationAlone DEF Reading

LEMMA ClaimAlone ==
  ASSUME StepInv, StepInv', AloneInv, raced = 0, NEW c \in Calls, ClaimAddress(c)
  PROVE  OneCall' /\ OwnerInv' /\ CodeInv'
<1>0. /\ regs[c].pc = "claim" /\ regs[c] \in RegState /\ regs \in [Calls -> RegState]
      /\ UNCHANGED <<members, codes, admitted, mishap>> /\ calls[c].pc = "waits"
  BY SlotFields DEF ClaimAddress, RegAt
<1>1. OthersIdle(c) /\ OwnerInv /\ (~mishap => CodesInStep /\ CodeRead(c))
  BY <1>0, ActsAlone
<1>2. CASE ~Unclaimed(regs[c].address)
  BY <1>0, <1>1, <1>2, LeavesAlone DEF ClaimAddress, CodesInStep, Consumed
<1>3. CASE Unclaimed(regs[c].address)
  <2>1. PICK u \in Users \ issued :
          regs' = [regs EXCEPT ![c].pc = "user", ![c].user = u] /\ UNCHANGED calls
    BY <1>3 DEF ClaimAddress
  <2>2. regs'[c].pc = "user" /\ regs'[c].user = u /\ regs'[c].code = regs[c].code
    BY <1>0, <2>1 DEF RegState
  <2>3. (~mishap => CodesInStep /\ CodeRead(c))'
    BY <1>0, <1>1, <2>2 DEF CodesInStep, CodeRead, Consumed, Holding
  <2>4. OthersStand(c) /\ calls'[c].pc \notin Reading
    BY <1>0, <2>1 DEF OthersStand, Reading
  <2> QED  BY <1>0, <1>1, <2>1, <2>2, <2>3, <2>4, RegistrationAlone
<1> QED  BY <1>2, <1>3

LEMMA ConsumeAlone ==
  ASSUME StepInv, StepInv', AloneInv, raced = 0, NEW c \in Calls, Consume(c)
  PROVE  OneCall' /\ OwnerInv' /\ CodeInv'
<1>0. /\ regs[c].pc = "consume" /\ RegInStep(regs[c]) /\ calls[c].pc = "waits" /\ regs[c].user \in Users
      /\ UNCHANGED <<members, admitted, calls>> /\ RegGoto(c, "session") /\ UserTypes
  BY SlotFields DEF Consume, RegAt, InSlot, Holding
<1>1. OthersIdle(c) /\ OwnerInv /\ (~mishap => CodesInStep /\ CodeRead(c))
  BY <1>0, ActsAlone
<1>2. regs'[c].pc = "session" /\ regs'[c].user = regs[c].user /\ regs'[c].code = regs[c].code
  BY <1>0, GotoReg DEF RegPcs
<1>3. ASSUME ~mishap'  PROVE (CodesInStep /\ CodeRead(c))'
  <2>1. codes' = [codes EXCEPT ![regs[c].code] = regs[c].user] /\ ~mishap
    BY <1>3 DEF Consume
  <2>2. regs[c].code \in Codes
    BY <1>0 DEF RegInStep
  <2>3. codes'[regs[c].code] \in Users /\ \A k \in Codes : k # regs[c].code => codes'[k] = codes[k]
    BY <1>0, <2>1, <2>2 DEF UserTypes
  <2> QED  BY <1>0, <1>1, <1>2, <2>1, <2>2, <2>3 DEF CodesInStep, CodeRead, Consumed, Holding
<1>4. OthersStand(c) /\ calls'[c].pc \notin Reading
  BY <1>0 DEF OthersStand, Reading
<1> QED  BY <1>0, <1>1, <1>2, <1>3, <1>4, RegistrationAlone

LEMMA UndoAlone ==
  ASSUME StepInv, StepInv', AloneInv, raced = 0, NEW c \in Calls, UndoUser(c)
  PROVE  OneCall' /\ OwnerInv' /\ CodeInv'
<1>0. /\ regs[c].pc = "undoUser" /\ regs[c].user \in Users /\ calls[c].pc = "waits" /\ TablesInStep
      /\ members' = [members EXCEPT ![regs[c].user] = None]
      /\ UNCHANGED <<calls, codes, admitted, mishap>> /\ RegGoto(c, "undoClaim")
  BY SlotFields, StepParts DEF UndoUser, RegAt, history, Holding
<1>1. /\ OthersIdle(c) /\ OwnerInv /\ ReadIsSo(c) /\ (~mishap => CodesInStep /\ CodeRead(c))
  BY <1>0, ActsAlone
<1>2. regs'[c].pc = "undoClaim" /\ regs'[c].user = regs[c].user /\ regs'[c].code = regs[c].code
  BY <1>0, GotoReg DEF RegPcs
<1>3. Owners' = Owners
  BY <1>0, <1>1 DEF ReadIsSo, Owners, Members, IsMember, TablesInStep
<1>4. ReadIsSo(c)' /\ OthersStand(c)
  BY <1>0, <1>1, <1>2, <1>3 DEF ReadIsSo, OthersStand
<1>5. (~mishap => CodesInStep /\ CodeRead(c))'
  BY <1>0, <1>1, <1>2 DEF CodesInStep, CodeRead, Consumed, Holding
<1> QED  BY <1>1, <1>3, <1>4, <1>5, AloneKept DEF OwnerInv

LEMMA RegistrationStepsAlone ==
  ASSUME StepInv, StepInv', AloneInv, raced' = 0, NEW c \in Calls,
             \/ SignUpForm(c) \/ CheckInvitation(c) \/ CheckCode(c)
             \/ ClaimAddress(c) \/ InsertUser(c) \/ SetSecret(c)
             \/ Consume(c) \/ OpenSession(c) \/ Accepted(c)
             \/ Throws(c) \/ UndoUser(c) \/ UndoClaim(c) \/ Crash(c)
  PROVE  OneCall' /\ OwnerInv' /\ CodeInv'
<1>0. /\ regs[c] \in RegState /\ RegInStep(regs[c]) /\ calls \in [Calls -> CallState]
      /\ regs[c].pc \notin {"idle", "accept"} => calls[c].pc = "waits"
      /\ regs[c].code \in Codes \union {None} /\ calls[c] \in CallState
  BY SlotFields DEF RegState
<1>1. ASSUME raced = 0, calls[c].pc # "idle"  PROVE ~mishap => CodesInStep
  BY <1>1, ActsAlone
<1>2. ASSUME regs[c].pc # "idle"  PROVE calls[c].pc # "idle"
  BY <1>2, StepParts DEF SlotInStep
<1>3. ASSUME raced = 0, regs[c].pc # "idle", RegEnd(c), UNCHANGED members,
             ~mishap' => ~mishap /\ UNCHANGED <<codes, admitted>>
      PROVE  OneCall' /\ OwnerInv' /\ CodeInv'
  <2>1. (~mishap => CodesInStep)'
    BY <1>1, <1>2, <1>3 DEF CodesInStep, Consumed
  <2> QED  BY <1>3, <2>1, LeavesAlone
<1>4. CASE CheckInvitation(c) \/ CheckCode(c)
  <2>1. /\ UNCHANGED <<members, codes, admitted, mishap>> /\ raced = 0
        /\ regs[c].pc \in {"invitation", "code"}
        /\ \/ RegEnd(c)
           \/ UNCHANGED calls /\ RegGoto(c, "code")
           \/ /\ UNCHANGED calls /\ RegGoto(c, "claim")
              /\ regs[c].code # None => Usable(regs[c].code)
    BY <1>4 DEF CheckInvitation, CheckCode, OnlyRegs, history, RegAt
  <2> QED  BY <1>0, <1>3, <2>1, GoesAlone DEF RegPcs, Holding
<1>5. CASE InsertUser(c)
  <2>1. /\ UNCHANGED <<members, codes, admitted, mishap, calls>> /\ raced = 0
        /\ regs[c].pc = "user" /\ (RegGoto(c, "secret") \/ RegGoto(c, "undoUser"))
    BY <1>5 DEF InsertUser, InSlot, RegAt
  <2> QED  BY <1>0, <2>1, GoesAlone DEF RegPcs, Holding
<1>6. CASE SetSecret(c)
  <2>0. /\ UNCHANGED <<members, codes>> /\ raced = 0 /\ regs[c].pc = "secret"
    BY <1>6 DEF SetSecret, RegAt
  <2>1. CASE regs[c].form = "register"
    <3>1. /\ UNCHANGED <<admitted, mishap, calls>>
          /\ \/ RegGoto(c, "consume")
             \/ RegGoto(c, "session") /\ regs[c].code = None
      BY <1>6, <2>1 DEF SetSecret, history
    <3> QED  BY <1>0, <2>0, <3>1, GoesAlone DEF RegPcs, Holding
  <2>2. CASE regs[c].form # "register"
    BY <1>0, <1>6, <2>0, <2>2, AnsweredAlone DEF SetSecret, RegInStep, Holding
  <2> QED  BY <2>1, <2>2
<1>7. CASE OpenSession(c)
  <2>0. UNCHANGED <<members, codes>> /\ raced = 0 /\ regs[c].pc = "session"
    BY <1>7 DEF OpenSession, RegAt
  <2>1. CASE Answered(c)
    BY <2>0, <2>1, AnsweredAlone DEF Holding
  <2>2. ASSUME RegGoto(c, "undoUser"), UNCHANGED <<calls, history>>
        PROVE  OneCall' /\ OwnerInv' /\ CodeInv'
    BY <1>0, <2>0, <2>2, GoesAlone DEF RegPcs, Holding, history
  <2>3. ASSUME RegGoto(c, "accept"), UNCHANGED history,
               calls' = [calls EXCEPT ![c] = Acceptance(SignUp, regs[c].user, regs[c].invite)]
        PROVE  OneCall' /\ OwnerInv' /\ CodeInv'
    <3>1. OthersStand(c) /\ calls'[c].pc \notin Reading
      BY <1>0, <2>3 DEF OthersStand, Acceptance, IdleCall, Reading
    <3> QED  BY <1>0, <2>0, <2>3, <3>1, GoesAlone DEF RegPcs, Holding, history
  <2> QED  BY <1>7, <2>1, <2>2, <2>3 DEF OpenSession
<1>8. CASE Accepted(c)
  <2>0. UNCHANGED <<members, codes>> /\ raced = 0 /\ regs[c].pc = "accept"
    BY <1>8 DEF Accepted, RegAt
  <2>1. CASE Answered(c)
    BY <2>0, <2>1, AnsweredAlone DEF Holding
  <2>2. ASSUME RegGoto(c, "undoUser"), UNCHANGED history, calls' = [calls EXCEPT ![c].pc = "waits"]
        PROVE  OneCall' /\ OwnerInv' /\ CodeInv'
    <3>1. OthersStand(c) /\ calls'[c].pc \notin Reading
      BY <1>0, <2>2 DEF OthersStand, CallState, Reading
    <3> QED  BY <1>0, <2>0, <2>2, <3>1, GoesAlone DEF RegPcs, Holding, history
  <2> QED  BY <1>8, <2>1, <2>2 DEF Accepted
<1>9. CASE Throws(c)
  <2>1. /\ UNCHANGED <<members, codes, admitted, mishap>> /\ raced = 0
        /\ \/ RegEnd(c) /\ regs[c].pc # "idle"
           \/ RegGoto(c, "undoUser") /\ UNCHANGED calls /\ regs[c].pc \in {"user", "secret", "session"}
    BY <1>9 DEF Throws, RegAt
  <2> QED  BY <1>0, <1>3, <2>1, GoesAlone DEF RegPcs, Holding
<1>10. CASE UndoClaim(c) \/ Crash(c)
  <2>1. /\ UNCHANGED members /\ raced = 0 /\ RegEnd(c) /\ regs[c].pc # "idle"
        /\ ~mishap' => ~mishap /\ UNCHANGED <<codes, admitted>>
    BY <1>10 DEF UndoClaim, Crash, RegAt, OnlyRegs, history
  <2> QED  BY <1>3, <2>1
<1>11. ClaimAddress(c) \/ Consume(c) \/ UndoUser(c) => raced = 0
  BY DEF ClaimAddress, Consume, UndoUser, InSlot
<1> QED  BY <1>4, <1>5, <1>6, <1>7, <1>8, <1>9, <1>10, <1>11, SignUpAlone, ClaimAlone, ConsumeAlone,
         UndoAlone

LEMMA NextAlone ==
  ASSUME StepInv, StepInv', AloneInv, [RegistrationNext]_registrationVars, raced' = 0
  PROVE  OneCall' /\ OwnerInv' /\ CodeInv'
<1>1. CASE MemberStep(Settled) /\ UNCHANGED <<vaults, codes, regs, history>>
  BY <1>1, MembersAlone DEF regVars
<1>2. ASSUME NEW c \in Calls, Fail(c),
             UNCHANGED <<vaults, codes, regs, issued, answered, admitted, mishap>>
      PROVE  OneCall' /\ OwnerInv' /\ CodeInv'
  <2>1. calls[c].pc \in CallPcs /\ SameMembers /\ raced = 0 /\ End(c)
    BY <1>2, SlotFields DEF Fail, At, CallPcs, CallState, OnlyCalls, SameMembers
  <2> QED  BY <2>1, EndAlone DEF End, Result
<1>3. ASSUME UNCHANGED <<members, calls, regs, admitted, raced, mishap>>,
             \A k \in Codes : codes'[k] # codes[k] => codes[k] \notin Users
      PROVE  OneCall' /\ OwnerInv' /\ CodeInv'
  <2>0. OneCall /\ OwnerInv /\ CodeInv
    BY <1>3 DEF AloneInv
  <2>1. OneCall' /\ OwnerInv'
    BY <1>3, <2>0 DEF OneCall, At, OwnerInv, ReadIsSo, Owners, Members, IsMember, assertAnotherOwner
  <2>2. \A k \in Codes : Consumed(k) => Consumed(k)'
    BY <1>3 DEF Consumed
  <2>3. \A c \in Calls : regs[c].code \in Codes \union {None}
    BY SlotFields DEF RegState
  <2>4. CodeInv'
    BY <1>3, <2>0, <2>2, <2>3 DEF CodeInv, CodesInStep, CodeRead
  <2> QED  BY <2>1, <2>4
<1>4. ASSUME NEW k \in Codes, CreateCode(k) \/ ExpireCode(k)  PROVE OneCall' /\ OwnerInv' /\ CodeInv'
  <2>1. UNCHANGED <<members, calls, regs, admitted, raced, mishap>>
    BY <1>4 DEF CreateCode, ExpireCode, memberVars, history
  <2>2. \A j \in Codes : codes'[j] # codes[j] => codes[j] \notin Users
    BY <1>4, CodesAssumption, NoUserAssumption, StepParts DEF CreateCode, ExpireCode, RegistrationTypeOK
  <2> QED  BY <1>3, <2>1, <2>2
<1>5. ASSUME NEW u \in Users, RotateSecret(u)  PROVE OneCall' /\ OwnerInv' /\ CodeInv'
  BY <1>3, <1>5 DEF RotateSecret, memberVars, history
<1>6. CASE UNCHANGED registrationVars
  BY <1>3, <1>6 DEF registrationVars, memberVars, history
<1>7. ASSUME NEW c \in Calls, NEW form \in Forms, NEW a \in Addresses, BeginProvision(c, form, a)
      PROVE  OneCall' /\ OwnerInv' /\ CodeInv'
  BY <1>7, SignUpAlone
<1> QED  BY <1>1, <1>2, <1>4, <1>5, <1>6, <1>7, RegistrationStepsAlone
     DEF RegistrationNext, BetaRoutes, InviteForm

LEMMA AloneInvariance == RegistrationSpec => []AloneInv
<1>1. RegistrationInit => AloneInv
  <2> SUFFICES ASSUME RegistrationInit  PROVE AloneInv
    OBVIOUS
  <2>0. Founder \in Users /\ Founder # None /\ [id |-> 1, role |-> "owner"] # None
    <3>1. [id |-> 1, role |-> "owner"] \in MemberRow
      BY SeatsAssumption DEF MemberRow, Roles
    <3> QED  BY <3>1, FounderAssumption, NoUserAssumption, RowAssumption
  <2>1. Founder \in Owners
    BY <2>0 DEF RegistrationInit, MembershipInit, Owners, Members, IsMember
  <2>2. \A c \in Calls : calls[c].pc = "idle" /\ regs[c].user = None /\ regs[c].code = None
    BY IdleFields, IdleRegFields DEF RegistrationInit, MembershipInit
  <2>3. None \notin Owners
    BY NoUserAssumption DEF Owners, Members
  <2>4. OneCall /\ OwnerInv
    BY <2>1, <2>2, <2>3 DEF OneCall, At, OwnerInv, ReadIsSo
  <2>5. CodeInv
    BY <2>2 DEF RegistrationInit, CodeInv, CodesInStep, CodeRead
  <2> QED  BY <2>4, <2>5 DEF AloneInv
<1>2. StepInv /\ StepInv' /\ AloneInv /\ [RegistrationNext]_registrationVars => AloneInv'
  BY NextAlone DEF AloneInv
<1> QED  BY <1>1, <1>2, StepInvariance, PTL DEF RegistrationSpec

(* changeMemberRole, removeMember, acceptInvite and the rollback of a      *)
(* registration leave an owner, as long as calls come one at a time; and   *)
(* createOrganization leaves no organization without one unless it is lost.*)
THEOREM OwnerStays == RegistrationSpec => []OwnerWhenAlone
<1>1. StepInv /\ AloneInv => OwnerWhenAlone
  BY DEF StepInv, AloneInv, OwnerInv, BareInv, OwnerWhenAlone
<1> QED  BY <1>1, StepInvariance, AloneInvariance, PTL

(* validateInvite and consumeInvite: a beta code makes one user, as long   *)
(* as calls come one at a time and none of their statements is lost.       *)
THEOREM CodeMakesOneUser == RegistrationSpec => []CodeAdmitsOneWhenAlone
<1>1. AloneInv => CodeAdmitsOneWhenAlone
  <2> SUFFICES ASSUME AloneInv, raced = 0, ~mishap, NEW k \in Codes
               PROVE  Cardinality(admitted[k]) <= 1
    BY DEF CodeAdmitsOneWhenAlone
  <2>1. admitted[k] = {} \/ \E u \in Users : admitted[k] = {u}
    BY DEF AloneInv, CodeInv, CodesInStep
  <2>2. Cardinality(admitted[k]) \in {0, 1}
    BY <2>1, FS_EmptySet, FS_Singleton
  <2> QED  BY <2>2
<1> QED  BY <1>1, AloneInvariance, PTL
=============================================================================
