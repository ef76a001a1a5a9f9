---------------------------- MODULE Registration ----------------------------
(***************************************************************************)
(* How identities come to be: src/services/user-auth.ts, invites.ts and    *)
(* the vault that auth.ts creates, called by http/routes/auth.ts.  A human *)
(* registers with a beta code, with an invitation to the organization of   *)
(* Membership or with both; an administrator provisions; the deployment's  *)
(* owner is created at the first sign-in.  The founder is registered, so   *)
(* that the deployment has users and no one registers without either.      *)
(*                                                                         *)
(* A registration runs in a slot of Calls and ends, where it brings an     *)
(* invitation, with acceptInvite in that slot.  No transaction spans its   *)
(* statements: what fails is undone by hand.                               *)
(***************************************************************************)
EXTENDS Membership

CONSTANTS
  Forms,      \* which of AllForms are called
  Codes,      \* beta codes
  MaxFaults   \* bound: statements of registrations that fail, and workers lost

AllForms == {"register", "provision", "bootstrap"}
ASSUME FormsAssumption == Forms \subseteq AllForms
ASSUME FaultsAssumption == MaxFaults \in Nat

VARIABLES
  users,      \* table users, each with its tenant
  claims,     \* table identity_email_claims, unique on the address
  secrets,    \* table user_auth_credentials
  codes,      \* table beta_invites
  regs,       \* the registrations in flight
  issued,     \* the user ids given out
  answered,   \* history: the users whose registration answered
  admitted,   \* history: those of them who came with each code
  mishap,     \* history: a call was lost, or an undo or a swallowed statement failed
  faults      \* history: how much has failed

vaults == <<users, claims, secrets>>
history == <<issued, answered, admitted, mishap, faults>>
registrationVars == <<memberVars, vaults, codes, regs, history>>

(* A code that is used is its user's; when it would have expired is forgotten. *)
CodeRow == {"open", "late"} \union Users
ASSUME CodesAssumption == None \notin Codes /\ Users \intersect {"open", "late"} = {}
RegState == [pc : {"idle", "invitation", "code", "claim", "user", "secret", "consume",
                   "session", "accept", "undoUser", "undoClaim"},
             form : AllForms \union {None}, address : Addresses \union {None},
             user : Users \union {None}, code : Codes \union {None},
             invite : Invites \union {None}]
IdleReg == [pc |-> "idle", form |-> None, address |-> None, user |-> None, code |-> None,
            invite |-> None]

RegistrationInit ==
  /\ MembershipInit
  /\ users = {Founder} /\ secrets = {Founder} /\ issued = {Founder}
  /\ claims = [a \in Addresses |-> IF a = Address[Founder] THEN Founder ELSE None]
  /\ codes = [k \in Codes |-> None]
  /\ regs = [c \in Calls |-> IdleReg]
  /\ answered = {Founder} /\ admitted = [k \in Codes |-> {}]
  /\ mishap = FALSE /\ faults = 0

RegAt(c, pc) == regs[c].pc = pc
RegGoto(c, pc) == regs' = [regs EXCEPT ![c].pc = pc]
RegEnd(c) == /\ regs' = [regs EXCEPT ![c] = IdleReg]
             /\ calls' = [calls EXCEPT ![c] = IdleCall]
OnlyRegs == UNCHANGED <<members, joins, invites, entered, raced, codes, history>>
Fault == faults < MaxFaults /\ faults' = faults + 1
InSlot == UNCHANGED <<calls, members, joins, invites, entered, raced>>

-----------------------------------------------------------------------------
WithAddress(a) == {u \in users : Address[u] = a}

(* authenticateUser: one user with the address, and its secret. *)
CanSignIn(u) == WithAddress(Address[u]) = {u} /\ u \in secrets

(* registerUser, provisionPrivateBetaUser and authenticateUser, where it   *)
(* bootstraps, begin by looking the address up, and go on if no one has it.*)
BeginIn(c, pc, form, a, k, i) ==
  /\ form \in Forms
  /\ At(c, "idle")
  /\ WithAddress(a) = {}
  /\ regs' = [regs EXCEPT ![c] = [IdleReg EXCEPT !.pc = pc, !.form = form,
                                    !.address = a, !.code = k, !.invite = i]]
  /\ calls' = [calls EXCEPT ![c] = [IdleCall EXCEPT !.kind = SignUp, !.pc = "waits"]]
  /\ CountRace(SignUp)
  /\ UNCHANGED <<members, joins, invites, entered, vaults, codes, history>>

BeginRegister(c, a, k, i) ==
  /\ k # None \/ i # None
  /\ BeginIn(c, IF i # None THEN "invitation" ELSE "code", "register", a, k, i)
BeginProvision(c, form, a) == form # "register" /\ BeginIn(c, "claim", form, a, None, None)

(* validateInviteForRegistration *)
CheckInvitation(c) ==
  LET reg == regs[c] IN
  /\ RegAt(c, "invitation")
  /\ IF Open(reg.invite) /\ invites[reg.invite].lock \in {None, reg.address}
       THEN RegGoto(c, IF reg.code # None THEN "code" ELSE "claim") /\ UNCHANGED calls
       ELSE RegEnd(c)
  /\ UNCHANGED vaults /\ OnlyRegs

(* validateInvite; that a code may be reserved for an address is left out. *)
Usable(k) == codes[k] = "open"
CheckCode(c) ==
  /\ RegAt(c, "code")
  /\ IF Usable(regs[c].code) THEN RegGoto(c, "claim") /\ UNCHANGED calls ELSE RegEnd(c)
  /\ UNCHANGED vaults /\ OnlyRegs

-----------------------------------------------------------------------------
(* createTenantAndOwner: the claim of the address, the user with its       *)
(* tenant, and the membership and signatures of the vault.                 *)
ClaimedOrNot(a) == TRUE               \* an insert that replaces another's claim
Unclaimed(a) == claims[a] = None

ClaimAddress(c) ==
  LET a == regs[c].address IN
  /\ RegAt(c, "claim")
  /\ IF Unclaimed(a)
       THEN \E u \in Users \ issued :
              /\ Address[u] = a
              /\ claims' = [claims EXCEPT ![a] = u]
              /\ issued' = issued \union {u}
              /\ regs' = [regs EXCEPT ![c].pc = "user", ![c].user = u]
              /\ UNCHANGED calls
       ELSE RegEnd(c) /\ UNCHANGED <<claims, issued>>
  /\ UNCHANGED <<members, joins, invites, entered, raced, users, secrets, codes, answered,
                 admitted, mishap, faults>>

InsertUser(c) ==
  /\ RegAt(c, "user")
  /\ users' = users \union {regs[c].user}
  /\ \/ RegGoto(c, "secret") /\ UNCHANGED faults
     \/ RegGoto(c, "undoUser") /\ Fault        \* the rest of the vault
  /\ InSlot /\ UNCHANGED <<claims, secrets, codes, issued, answered, admitted, mishap>>

(* The answer to who was created, and with what code. *)
Answered(c) ==
  LET reg == regs[c] IN
  /\ answered' = answered \union {reg.user}
  /\ admitted' = IF reg.code = None THEN admitted
                 ELSE [admitted EXCEPT ![reg.code] = @ \union {reg.user}]
  /\ RegEnd(c)
  /\ UNCHANGED <<issued, mishap, faults>>

(* setLoginSecret, after which a provisioned user is there. *)
SetSecret(c) ==
  /\ RegAt(c, "secret")
  /\ secrets' = secrets \union {regs[c].user}
  /\ IF regs[c].form = "register"
       THEN RegGoto(c, IF regs[c].code # None THEN "consume" ELSE "session")
            /\ UNCHANGED <<calls, history>>
       ELSE Answered(c)
  /\ UNCHANGED <<members, joins, invites, entered, raced, users, claims, codes>>

(* consumeInvite, whose failure is swallowed. *)
ConsumeForgotten(c) ==
  /\ RegAt(c, "consume")
  /\ RegGoto(c, "session")
  /\ InSlot /\ UNCHANGED <<vaults, codes, history>>
Consume(c) ==
  /\ RegAt(c, "consume")
  /\ \/ codes' = [codes EXCEPT ![regs[c].code] = regs[c].user] /\ UNCHANGED <<mishap, faults>>
     \/ mishap' = TRUE /\ Fault /\ UNCHANGED codes
  /\ RegGoto(c, "session")
  /\ InSlot /\ UNCHANGED <<vaults, issued, answered, admitted>>

(* createToken, and acceptInvite of an invitation that is still open. *)
OpenSession(c) ==
  LET reg == regs[c] IN
  /\ RegAt(c, "session")
  /\ IF reg.invite = None THEN Answered(c)
     ELSE /\ IF Acceptable(reg.invite, reg.user)
               THEN /\ RegGoto(c, "accept")
                    /\ calls' = [calls EXCEPT ![c] = Acceptance(SignUp, reg.user, reg.invite)]
               ELSE RegGoto(c, "undoUser") /\ UNCHANGED calls
          /\ UNCHANGED history
  /\ UNCHANGED <<members, joins, invites, entered, raced, vaults, codes>>

(* acceptInvite ends with the membership it made, or throws. *)
Accepted(c) ==
  /\ RegAt(c, "accept")
  /\ \/ At(c, "joined") /\ IsMember(regs[c].user) /\ Answered(c)
     \/ /\ At(c, "refused") \/ (At(c, "joined") /\ ~IsMember(regs[c].user))
        /\ RegGoto(c, "undoUser")
        /\ calls' = [calls EXCEPT ![c].pc = "waits"]
        /\ UNCHANGED history
  /\ UNCHANGED <<members, joins, invites, entered, raced, vaults, codes>>

-----------------------------------------------------------------------------
(* A statement throws.  Within createTenantAndOwner, and within            *)
(* registerUser after it, what was created is deleted; a provisioned user  *)
(* without a secret stays.                                                 *)
Throws(c) ==
  /\ calls[c].pc = "waits"
  /\ \/ regs[c].pc \in {"invitation", "code", "claim"} /\ RegEnd(c)
     \/ RegAt(c, "secret") /\ regs[c].form # "register" /\ RegEnd(c)
     \/ /\ regs[c].pc \in {"user", "secret", "session"}
        /\ regs[c].pc # "user" => regs[c].form = "register"
        /\ RegGoto(c, "undoUser") /\ UNCHANGED calls
  /\ Fault
  /\ UNCHANGED <<members, joins, invites, entered, raced, vaults, codes, issued, answered,
                 admitted, mishap>>

(* The user goes, and with it its secret and its memberships. *)
UndoUser(c) ==
  LET u == regs[c].user IN
  /\ RegAt(c, "undoUser")
  /\ users' = users \ {u} /\ secrets' = secrets \ {u}
  /\ members' = [members EXCEPT ![u] = None]
  /\ RegGoto(c, "undoClaim")
  /\ UNCHANGED <<calls, joins, invites, entered, raced, claims, codes, history>>

(* The claim goes by its address. *)
UndoClaimForgotten(c) ==
  /\ RegAt(c, "undoClaim")
  /\ RegEnd(c)
  /\ UNCHANGED vaults /\ OnlyRegs
UndoClaim(c) ==
  /\ RegAt(c, "undoClaim")
  /\ claims' = [claims EXCEPT ![regs[c].address] = None]
  /\ RegEnd(c)
  /\ UNCHANGED <<users, secrets>> /\ OnlyRegs

(* The worker is gone, or a deletion fails and is swallowed. *)
Crash(c) ==
  /\ ~RegAt(c, "idle")
  /\ RegEnd(c)
  /\ mishap' = TRUE /\ Fault
  /\ UNCHANGED <<members, joins, invites, entered, raced, vaults, codes, issued, answered,
                 admitted>>

-----------------------------------------------------------------------------
(* rotatePrivateBetaSecret, and the owner's first sign-in without a secret.*)
RotateSecret(u) ==
  /\ u \in users \ secrets
  /\ secrets' = secrets \union {u}
  /\ UNCHANGED <<memberVars, users, claims, codes, regs, history>>

(* createInvite, by anyone signed in. *)
CreateCode(k) ==
  /\ codes[k] = None
  /\ codes' = [codes EXCEPT ![k] = "open"]
  /\ UNCHANGED <<memberVars, vaults, regs, history>>
ExpireCode(k) ==
  /\ codes[k] = "open"
  /\ codes' = [codes EXCEPT ![k] = "late"]
  /\ UNCHANGED <<memberVars, vaults, regs, history>>

(* A user signs in elsewhere when the registration is over. *)
Settled == {u \in users : CanSignIn(u) /\ \A c \in Calls : regs[c].user # u}

(* The portal's sign-up, its invitation of a friend, and the beta's        *)
(* administration; POST /auth/register and /auth/invites do the same.      *)
SignUpForm(c) ==
  \E a \in Addresses, k \in Codes \union {None}, i \in Invites \union {None} :
    BeginRegister(c, a, k, i)
InviteForm == \E k \in Codes : CreateCode(k)
BetaRoutes ==
  \/ \E c \in Calls, form \in Forms, a \in Addresses : BeginProvision(c, form, a)
  \/ \E u \in Users : RotateSecret(u)

RegistrationNext ==
  \/ MemberStep(Settled) /\ UNCHANGED <<vaults, codes, regs, history>>
  \/ /\ \/ \E c \in Calls : Fail(c) /\ Fault
             /\ UNCHANGED <<vaults, codes, regs, issued, answered, admitted, mishap>>
        \/ \E c \in Calls :
             \/ SignUpForm(c)
             \/ CheckInvitation(c) \/ CheckCode(c)
             \/ ClaimAddress(c) \/ InsertUser(c) \/ SetSecret(c)
             \/ Consume(c) \/ OpenSession(c) \/ Accepted(c)
             \/ Throws(c) \/ UndoUser(c) \/ UndoClaim(c) \/ Crash(c)
        \/ BetaRoutes \/ InviteForm
        \/ \E k \in Codes : ExpireCode(k)
     /\ UNCHANGED founded

RegistrationSpec == RegistrationInit /\ [][RegistrationNext]_registrationVars

-----------------------------------------------------------------------------
(* The tables of registration are of their types, and a user without a     *)
(* users row has neither secret nor membership.                            *)
RegistrationTypeOK ==
  /\ users \subseteq issued /\ issued \subseteq Users
  /\ secrets \union {u \in Users : IsMember(u)} \subseteq users
  /\ claims \in [Addresses -> Users \union {None}]
  /\ codes \in [Codes -> CodeRow \union {None}]
  /\ regs \in [Calls -> RegState]
  /\ mishap \in BOOLEAN /\ faults \in 0..MaxFaults

(* Who was told that a user was created can sign in as that user, whatever *)
(* overlaps, fails or is undone.                                           *)
AnsweredCanSignIn == \A u \in answered : CanSignIn(u)

(* user-auth.ts: "Rollback on any failure so user record is not orphaned". *)
(* Where no call was lost, and no deletion failed, an address that is      *)
(* claimed after the calls have ended is the address of a user: one whose  *)
(* registration failed can register again.                                 *)
FailedCanRetry ==
  ~mishap /\ (\A c \in Calls : RegAt(c, "idle")) =>
    \A a \in Addresses : claims[a] = None \/ claims[a] \in WithAddress(a)

(* As long as calls come one at a time and none of their statements is     *)
(* lost, a beta code makes one user.                                       *)
CodeAdmitsOneWhenAlone ==
  raced = 0 /\ ~mishap => \A k \in Codes : Cardinality(admitted[k]) <= 1
=============================================================================
