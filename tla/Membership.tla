----------------------------- MODULE Membership -----------------------------
(***************************************************************************)
(* The members and invitations of one team organization:                   *)
(* src/services/organizations.ts.  Members are invited by admins, join     *)
(* with an invitation, have their role changed and are removed; a user     *)
(* founds further organizations.                                           *)
(*                                                                         *)
(* The service reads, decides and writes in separate statements, and no    *)
(* transaction spans them: a call is a record whose pc names the statement *)
(* it runs next and which keeps what it has read.  The sessions and tokens *)
(* that removeMember takes with the membership are in AccessTokens.        *)
(***************************************************************************)
EXTENDS Naturals, FiniteSets

CONSTANTS
  Users,      \* identities: ids of the users table
  Addresses,  \* email addresses
  Address,    \* the address of each identity
  Founder,    \* the one who created the organization
  Invites,    \* ids the invitation table may hand out
  Locks,      \* addresses an invitation may be locked to; None: to no one's
  Offers,     \* the roles invitations are made for
  Calls,      \* calls in flight at a time
  Kinds,      \* which of AllKinds are made
  Teams,      \* ids of further organizations
  MaxSeats,   \* the plan's maxOrganizationSeats
  MaxTeams,   \* the plan's maxTeamOrganizations
  MaxJoins,   \* bound: membership rows of one user
  Racing,     \* bound: the kinds of calls that overlap, and that come afterwards
  MaxRaces,   \* bound: calls begun while another is in flight
  None

AllKinds == {"change", "remove", "invite", "revoke", "accept", "found"}
SignUp == "signup"   \* an acceptance that a registration waits for

ASSUME KindsAssumption == Kinds \subseteq AllKinds
ASSUME OffersAssumption == Offers \subseteq {"admin", "member"}
ASSUME FounderAssumption == Founder \in Users
ASSUME SeatsAssumption == {MaxSeats, MaxTeams, MaxJoins} \subseteq Nat \ {0} /\ MaxRaces \in Nat
ASSUME NoUserAssumption == None \notin Users \union Invites \union Teams
ASSUME AddressAssumption == Address \in [Users -> Addresses] /\ None \notin Addresses
ASSUME LocksAssumption == Locks \subseteq Addresses \union {None}

VARIABLES
  members,   \* table memberships, unique on organization and user
  joins,     \* rows each user has had: the next row's id
  invites,   \* table organization_invites
  calls,     \* the calls in flight
  entered,   \* history: the users whose row each invitation inserted
  raced,     \* history: how many calls have begun while another was in flight
  teams,     \* table tenants: further organizations, each with its one owner
  scene      \* bound: a history of the organization, or of founding others

founded == <<teams, scene>>
memberVars == <<members, joins, invites, calls, entered, raced, founded>>

-----------------------------------------------------------------------------
(* packages/organizations: roles are ranked. *)
Roles == {"owner", "admin", "member"}
Rank == [owner |-> 3, admin |-> 2, member |-> 1]
roleAtLeast(role, required) == Rank[role] >= Rank[required]

MemberRow == [id : 1..MaxJoins, role : Roles]
InviteRow == [role : Offers, lock : Locks,
              by : Users \union {None}, revoked : BOOLEAN, late : BOOLEAN]
ASSUME RowAssumption == None \notin MemberRow \union InviteRow /\ "bare" \notin Users \union {None}

CallState == [kind : AllKinds \union {"idle", SignUp},
              pc : {"idle", "target", "owners", "write", "count", "pending", "insert",
                    "shut", "existing", "seat", "claim", "latest", "join",
                    "waits", "joined", "refused", "limit", "tenant", "owner", "undo"},
              asOwner : BOOLEAN, user : Users \union {None}, role : Roles,
              row : MemberRow \union {None},
              invite : Invites \union {None}, lock : Locks \union {None}, used : Nat,
              team : Teams \union {None}]
IdleCall == [kind |-> "idle", pc |-> "idle", asOwner |-> FALSE, user |-> None,
             role |-> "member", row |-> None, invite |-> None, lock |-> None, used |-> 0,
             team |-> None]

MembershipInit ==
  /\ members = [u \in Users |-> IF u = Founder THEN [id |-> 1, role |-> "owner"] ELSE None]
  /\ joins = [u \in Users |-> IF u = Founder THEN 1 ELSE 0]
  /\ invites = [i \in Invites |-> None]
  /\ calls = [c \in Calls |-> IdleCall]
  /\ entered = [i \in Invites |-> {}]
  /\ raced = 0
  /\ teams = [t \in Teams |-> None]
  /\ scene \in {"members", "teams"}

IsMember(u) == members[u] # None
Members == {u \in Users : IsMember(u)}
Owners == {u \in Members : members[u].role = "owner"}

At(c, pc) == calls[c].pc = pc
Goto(c, pc) == calls' = [calls EXCEPT ![c].pc = pc]
Over(call, outcome) == IF call.kind = SignUp THEN [call EXCEPT !.pc = outcome] ELSE IdleCall
Return(c, outcome) == calls' = [calls EXCEPT ![c] = Over(@, outcome)]
End(c) == Return(c, "refused")
InFlight == {o \in Calls : ~At(o, "idle")}
CountRace(kind) ==
  /\ (kind = "found") = (scene = "teams")
  /\ raced > 0 => kind \in Racing
  /\ IF InFlight = {} THEN UNCHANGED raced
     ELSE /\ {kind} \union {calls[o].kind : o \in InFlight} \subseteq Racing
          /\ raced < MaxRaces /\ raced' = raced + 1
OnlyCalls == UNCHANGED <<members, joins, invites, entered, raced>>

(* requireWorkspaceMembership and requireTeamRole: the actor's row is read *)
(* first, and only its role is remembered.                                 *)
Begin(c, actor, required, call) ==
  /\ call.kind \in Kinds
  /\ At(c, "idle")
  /\ IsMember(actor)
  /\ roleAtLeast(members[actor].role, required)
  /\ calls' = [calls EXCEPT ![c] = [call EXCEPT
                                      !.asOwner = members[actor].role = "owner"]]
  /\ CountRace(call.kind)
  /\ UNCHANGED <<members, joins, invites, entered>>

-----------------------------------------------------------------------------
(* changeMemberRole and removeMember *)
BeginChange(c, actor, u, role) ==
  /\ u # actor
  /\ Begin(c, actor, "admin",
           [IdleCall EXCEPT !.kind = "change", !.pc = "target", !.user = u, !.role = role])

BeginRemove(c, actor, u) ==
  Begin(c, actor, "admin", [IdleCall EXCEPT !.kind = "remove", !.pc = "target", !.user = u])

(* Only an owner touches an owner or makes one. *)
MayTouch(call, row) ==
  call.asOwner \/ (row.role # "owner" /\ (call.kind = "change" => call.role # "owner"))
GivesUp(call, row) == row.role = "owner" /\ (call.kind = "change" => call.role # "owner")

ReadTarget(c) ==
  LET call == calls[c]
      row == members[call.user] IN
  /\ At(c, "target")
  /\ IF row = None \/ ~MayTouch(call, row)
       THEN End(c)
       ELSE calls' = [calls EXCEPT ![c].row = row,
                                   ![c].pc = IF GivesUp(call, row) THEN "owners" ELSE "write"]
  /\ OnlyCalls

AnyOwner(u) == Owners # {}                         \* the member itself counted too
assertAnotherOwner(u) == Owners \ {u} # {}

CheckOwners(c) ==
  /\ At(c, "owners")
  /\ IF assertAnotherOwner(calls[c].user) THEN Goto(c, "write") ELSE End(c)
  /\ OnlyCalls

(* Update and delete go by the id of the row that was read. *)
IsRow(u, row) == IsMember(u) /\ members[u].id = row.id

SetRole(u, row, role) ==
  members' = IF IsRow(u, row) THEN [members EXCEPT ![u].role = role] ELSE members
DropRow(u, row) ==
  members' = IF IsRow(u, row) THEN [members EXCEPT ![u] = None] ELSE members

WriteChange(c) ==
  /\ At(c, "write")
  /\ IF calls[c].kind = "change"
       THEN SetRole(calls[c].user, calls[c].row, calls[c].role)
       ELSE DropRow(calls[c].user, calls[c].row)
  /\ End(c)
  /\ UNCHANGED <<joins, invites, entered, raced>>

-----------------------------------------------------------------------------
(* createInvite: members and open invitations are counted, one after the   *)
(* other, against the plan's seats.                                        *)
BeginInviteUnchecked(c, actor, role, lock) ==      \* the role not validated
  Begin(c, actor, "admin", [IdleCall EXCEPT !.kind = "invite", !.pc = "count",
                                            !.role = "owner", !.lock = lock])
BeginInvite(c, actor, role, lock) ==
  Begin(c, actor, "admin", [IdleCall EXCEPT !.kind = "invite", !.pc = "count",
                                            !.role = role, !.lock = lock])

CountMembers(c) ==
  /\ At(c, "count")
  /\ calls' = [calls EXCEPT ![c].used = Cardinality(Members), ![c].pc = "pending"]
  /\ OnlyCalls

Open(i) == invites[i] # None /\ invites[i].by = None /\ ~invites[i].revoked /\ ~invites[i].late

CountPending(c) ==
  /\ At(c, "pending")
  /\ IF calls[c].used + Cardinality({i \in Invites : Open(i)}) >= MaxSeats
       THEN End(c)
       ELSE Goto(c, "insert")
  /\ OnlyCalls

InsertInvite(c) ==
  /\ At(c, "insert")
  /\ \E i \in {j \in Invites : invites[j] = None} :
       invites' = [invites EXCEPT ![i] = [role |-> calls[c].role, lock |-> calls[c].lock,
                                          by |-> None, revoked |-> FALSE, late |-> FALSE]]
  /\ End(c)
  /\ UNCHANGED <<members, joins, entered, raced>>

(* revokeInvite: a compare-and-set. *)
BeginRevoke(c, actor, i) ==
  Begin(c, actor, "admin", [IdleCall EXCEPT !.kind = "revoke", !.pc = "shut", !.invite = i])

Revocable(i) == invites[i] # None /\ invites[i].by = None /\ ~invites[i].revoked
Shut(c) ==
  /\ At(c, "shut")
  /\ invites' = IF Revocable(calls[c].invite)
                  THEN [invites EXCEPT ![calls[c].invite].revoked = TRUE] ELSE invites
  /\ End(c)
  /\ UNCHANGED <<members, joins, entered, raced>>

Expire(i) ==
  /\ invites[i] # None
  /\ ~invites[i].revoked
  /\ ~invites[i].late
  /\ invites' = [invites EXCEPT ![i].late = TRUE]
  /\ UNCHANGED <<members, joins, calls, entered, raced>>

-----------------------------------------------------------------------------
(* acceptInvite: invitation, own membership, seats, claim, membership.     *)
(* The invitation's own taker may come again, to finish what failed.  In   *)
(* the call, `by` is not kept: role is the invitation's, used is 1 when it *)
(* was already claimed when first read.                                    *)
Acceptable(i, u) ==
  /\ invites[i] # None /\ ~invites[i].revoked /\ ~invites[i].late
  /\ invites[i].by \in {None, u}
  /\ invites[i].lock \in {None, Address[u]}

Acceptance(kind, u, i) ==
  [IdleCall EXCEPT !.kind = kind, !.pc = "existing", !.user = u, !.invite = i,
                   !.role = invites[i].role, !.used = IF invites[i].by = u THEN 1 ELSE 0]

BeginAccept(c, u, i) ==
  /\ "accept" \in Kinds
  /\ At(c, "idle")
  /\ Acceptable(i, u)
  /\ calls' = [calls EXCEPT ![c] = Acceptance("accept", u, i)]
  /\ CountRace("accept")
  /\ UNCHANGED <<members, joins, invites, entered>>

ClaimOrJoin(call) == IF call.used = 1 THEN "join" ELSE "claim"

ReadExisting(c) ==
  LET row == members[calls[c].user] IN
  /\ At(c, "existing")
  /\ calls' = [calls EXCEPT ![c].row = row,
                            ![c].pc = IF row = None THEN "seat" ELSE ClaimOrJoin(calls[c])]
  /\ OnlyCalls

SeatOrOneMore == Cardinality(Members) <= MaxSeats  \* > where the code has >=
SeatFree == Cardinality(Members) < MaxSeats
TakeSeat(c) ==
  /\ At(c, "seat")
  /\ IF SeatFree THEN Goto(c, ClaimOrJoin(calls[c])) ELSE End(c)
  /\ OnlyCalls

ClaimUnread(c) ==                                  \* an update without its conditions
  /\ At(c, "claim")
  /\ invites' = [invites EXCEPT ![calls[c].invite].by = calls[c].user]
  /\ Goto(c, "join")
  /\ UNCHANGED <<members, joins, entered, raced>>
Claim(c) ==
  /\ At(c, "claim")
  /\ IF Open(calls[c].invite)
       THEN /\ invites' = [invites EXCEPT ![calls[c].invite].by = calls[c].user]
            /\ Goto(c, "join")
       ELSE Goto(c, "latest") /\ UNCHANGED invites
  /\ UNCHANGED <<members, joins, entered, raced>>

Latest(c) ==
  /\ At(c, "latest")
  /\ IF invites[calls[c].invite].by = calls[c].user THEN Goto(c, "join") ELSE End(c)
  /\ OnlyCalls

(* Without a row when it was read: an insert that gives way to a row that  *)
(* has come since.  With one: raised to the invitation's role.             *)
InsertRow(u, i, role) ==
  IF IsMember(u) THEN UNCHANGED <<members, joins, entered>>
  ELSE /\ joins[u] < MaxJoins
       /\ members' = [members EXCEPT ![u] = [id |-> joins[u] + 1, role |-> role]]
       /\ joins' = [joins EXCEPT ![u] = @ + 1]
       /\ entered' = [entered EXCEPT ![i] = @ \union {u}]

Join(c) ==
  LET call == calls[c] IN
  /\ At(c, "join")
  /\ IF call.row = None
       THEN InsertRow(call.user, call.invite, call.role)
       ELSE /\ IF call.row.role # "owner" /\ roleAtLeast(call.role, call.row.role)
                 THEN SetRole(call.user, call.row, call.role)
                 ELSE UNCHANGED members
            /\ UNCHANGED <<joins, entered>>
  /\ Return(c, "joined")
  /\ UNCHANGED <<invites, raced>>

(* createOrganization: those the user owns are counted against the plan,   *)
(* then come the organization and, in a statement of its own, its owner.   *)
(* Names and slugs, and reading the user's plan, are left out.             *)
BeginFound(c, u) ==
  /\ "found" \in Kinds
  /\ At(c, "idle")
  /\ calls' = [calls EXCEPT ![c] = [IdleCall EXCEPT !.kind = "found", !.pc = "limit", !.user = u]]
  /\ CountRace("found")
  /\ UNCHANGED <<members, joins, invites, entered, teams>>

OwnedBy(u) == Cardinality({t \in Teams : teams[t] = u}) + (IF u \in Owners THEN 1 ELSE 0)
CheckPlan(c) ==
  /\ At(c, "limit")
  /\ IF OwnedBy(calls[c].user) >= MaxTeams THEN End(c) ELSE Goto(c, "tenant")
  /\ OnlyCalls /\ UNCHANGED teams

InsertTeam(c) ==
  /\ At(c, "tenant")
  /\ \E t \in Teams :
       /\ teams[t] = None
       /\ teams' = [teams EXCEPT ![t] = "bare"]
       /\ calls' = [calls EXCEPT ![c].pc = "owner", ![c].team = t]
  /\ OnlyCalls

(* The owner's row is refused: the organization is deleted again.          *)
OwnTeamOrLeave(c) ==                               \* an insert whose failure only throws
  /\ At(c, "owner")
  /\ \/ teams' = [teams EXCEPT ![calls[c].team] = calls[c].user]
     \/ UNCHANGED teams
  /\ End(c) /\ OnlyCalls
OwnTeam(c) ==
  /\ At(c, "owner")
  /\ \/ teams' = [teams EXCEPT ![calls[c].team] = calls[c].user] /\ End(c)
     \/ Goto(c, "undo") /\ UNCHANGED teams
  /\ OnlyCalls
UndoTeam(c) ==
  /\ At(c, "undo")
  /\ teams' = [teams EXCEPT ![calls[c].team] = None]
  /\ End(c) /\ OnlyCalls

(* The worker is gone, or the deletion fails: no one owns it.              *)
LoseTeam(c) ==
  /\ At(c, "owner") \/ At(c, "undo")
  /\ teams' = [teams EXCEPT ![calls[c].team] = "lost"]
  /\ End(c) /\ OnlyCalls

FoundingStep(known) ==
  /\ \E c \in Calls :
       \/ \E u \in known : BeginFound(c, u)
       \/ CheckPlan(c) \/ InsertTeam(c) \/ OwnTeam(c) \/ UndoTeam(c) \/ LoseTeam(c)
  /\ UNCHANGED scene

-----------------------------------------------------------------------------
(* A statement throws, or the worker is gone: nothing is undone.           *)
Fail(c) ==
  /\ \A pc \in {"idle", "waits", "joined", "refused", "owner", "undo"} : ~At(c, pc)
  /\ End(c)
  /\ OnlyCalls

-----------------------------------------------------------------------------
(* Calls are made by those who can sign in: the portal's forms invite and  *)
(* remove, the API's routes also change roles, revoke and accept.          *)
MemberForms(c, known) ==
  \/ \E a \in known, r \in Offers, l \in Locks : BeginInvite(c, a, r, l)
  \/ \E a \in known, u \in Users : BeginRemove(c, a, u)
OrganizationRoutes(c, known) ==
  \/ MemberForms(c, known)
  \/ \E a \in known, u \in Users, r \in Roles : BeginChange(c, a, u, r)
  \/ \E a \in known, i \in Invites : BeginRevoke(c, a, i)
  \/ \E u \in known, i \in Invites : BeginAccept(c, u, i)

MemberStep(known) ==
  \/ /\ \/ \E c \in Calls :
             \/ OrganizationRoutes(c, known)
             \/ ReadTarget(c) \/ CheckOwners(c) \/ WriteChange(c)
             \/ CountMembers(c) \/ CountPending(c) \/ InsertInvite(c)
             \/ Shut(c)
             \/ ReadExisting(c) \/ TakeSeat(c) \/ Claim(c) \/ Latest(c) \/ Join(c)
        \/ \E i \in Invites : Expire(i)
     /\ UNCHANGED founded
  \/ FoundingStep(known)

MembershipNext ==
  \/ MemberStep(Users)
  \/ \E c \in Calls : Fail(c) /\ UNCHANGED founded

MembershipSpec == MembershipInit /\ [][MembershipNext]_memberVars

-----------------------------------------------------------------------------
(* Rows are of their tables' types: no one is invited as owner, and a user *)
(* has one membership at a time.                                           *)
MembershipTypeOK ==
  /\ members \in [Users -> MemberRow \union {None}]
  /\ joins \in [Users -> 0..MaxJoins]
  /\ invites \in [Invites -> InviteRow \union {None}]
  /\ calls \in [Calls -> CallState]
  /\ entered \in [Invites -> SUBSET Users]
  /\ raced \in 0..MaxRaces
  /\ teams \in [Teams -> Users \union {None, "bare", "lost"}]

(* An invitation admits one user, its taker, and only before it is         *)
(* revoked, however many accept it, retry and revoke it at once.           *)
InviteAdmitsOne ==
  \A i \in Invites :
    /\ entered[i] \subseteq (IF invites[i] = None THEN {} ELSE {invites[i].by})
    /\ invites[i] # None => ~(invites[i].by # None /\ invites[i].revoked)

(* As long as calls come one at a time the plan's seats are kept: by       *)
(* invitations counted while open, and by a removed member who comes back  *)
(* with the old one.  (Counted before they are taken, seats are passed     *)
(* when acceptances overlap.)                                              *)
SeatsWhenAlone == raced = 0 => Cardinality(Members) <= MaxSeats

(* The same of the organizations one user may found.                       *)
TeamsWhenAlone == raced = 0 => \A u \in Users : OwnedBy(u) <= MaxTeams

(* As long as calls come one at a time the organization has an owner,      *)
(* whatever owners, admins and invitations do to the roles; and, however   *)
(* they come, so has one that was founded, unless the call was lost.       *)
OwnerWhenAlone ==
  /\ raced = 0 => Owners # {}
  /\ \A t \in Teams : teams[t] = "bare" => \E c \in Calls : calls[c].team = t

(* tests/portal_and_organizations.test.ts: "Invariant: Cannot remove sole  *)
(* owner", without the condition that calls come one at a time.            *)
HasOwner == Owners # {}
=============================================================================
