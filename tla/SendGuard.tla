----------------------------- MODULE SendGuard -----------------------------
(***************************************************************************)
(* The send guard: src/services/sending.ts and drafts.ts, with the review  *)
(* and confirm routes of http/routes/management.ts.                        *)
(*                                                                         *)
(* Every call runs in a Worker isolate of its own and no database          *)
(* transaction spans two statements, so each awaited statement is one      *)
(* action and the calls of all requests interleave between them.  A        *)
(* request keeps in its record what it read before the last await.         *)
(*                                                                         *)
(* One workspace and one user: every query of these handlers is scoped to  *)
(* the principal's own rows.                                               *)
(***************************************************************************)
EXTENDS Integers, FiniteSets

CONSTANTS
  Drafts,      \* ids of mail drafts
  Texts,       \* what a draft says in the fields the payload hash covers
  Approvals,   \* ids the approval table may hand out
  Keys,        \* idempotency keys, supplied or derived from draft and approval
  Editors, Askers, Confirmers, Senders,   \* requests, by the handler they run
  Validity,    \* lifetime of an approval, in ticks of the clock
  MaxTime,     \* bound on the clock
  Faults,      \* which of AllFaults may happen
  NoRow        \* an absent row, draft, approval or key

AllFaults == {"crash", "db", "provider", "poll"}

ASSUME TimeAssumption == Validity \in Nat \ {0} /\ MaxTime \in Nat
ASSUME FaultsAssumption == Faults \subseteq AllFaults

VARIABLES
  now,         \* the clock every isolate reads
  drafts,      \* table drafts
  approvals,   \* table send_approvals
  attempts,    \* table send_attempts, by its unique idempotency key
  viewed,      \* what the human has seen: <<approval, text>> of review pages
  mail,        \* what mail providers accepted
  editors, askers, confirmers, senders     \* the requests in flight

tables == <<drafts, approvals, attempts>>
vars == <<now, tables, viewed, mail, editors, askers, confirmers, senders>>

-----------------------------------------------------------------------------
(* Rows.  `extra` stands for the fields the hash leaves out: Bcc, an HTML  *)
(* body, attachments.                                                      *)
Payload == [text : Texts, extra : BOOLEAN]

(* The SHA-256 of the canonical payload tells two texts apart and nothing else. *)
HashOf(p) == p.text
NoPayload == [text |-> NoRow, extra |-> FALSE]

DraftRow == [payload : Payload, status : {"draft", "sent"}]
ApprovalRow == [draft : Drafts, hash : Texts, status : {"pending", "confirmed"},
                expiresAt : Nat, used : BOOLEAN]
AttemptStatus == {"in_progress", "sent", "failed"}
AttemptRow == [owner : Senders, approval : Approvals, status : AttemptStatus]

ASSUME NoRowAssumption ==
  /\ NoRow \notin Drafts \union Approvals \union Keys \union Texts
  /\ NoRow \notin DraftRow \union ApprovalRow \union AttemptRow

Message == [sender : Senders, approval : Approvals, draft : Drafts,
            key : Keys, payload : Payload]

Idle == "idle"
Ended == {"ok", "error"}     \* answered with success, or not

EditorState == [pc : {Idle, "edit", "sign"}, draft : Drafts \union {NoRow}]
AskerState == [pc : {Idle, "insert"}, draft : Drafts \union {NoRow},
               seen : Payload \union {NoPayload}]
ConfirmerState == [pc : {Idle, "hash", "cas"} \union Ended,
                   approval : Approvals \union {NoRow},
                   nonce : Approvals \union {NoRow}, at : Nat]
SenderPcs == {"approval", "hash", "insert", "poll", "dispatch",
              "markUsed", "markDraft", "markAttempt", "markFailed"}
SenderState == [pc : {Idle} \union SenderPcs \union Ended,
                draft : Drafts \union {NoRow}, approval : Approvals \union {NoRow},
                key : Keys \union {NoRow}, seen : Payload \union {NoPayload},
                owner : BOOLEAN]

IdleEditor == [pc |-> Idle, draft |-> NoRow]
IdleAsker == [pc |-> Idle, draft |-> NoRow, seen |-> NoPayload]
IdleConfirmer == [pc |-> Idle, approval |-> NoRow, nonce |-> NoRow, at |-> 0]
RefusedConfirmer == [IdleConfirmer EXCEPT !.pc = "error"]
IdleSender == [pc |-> Idle, draft |-> NoRow, approval |-> NoRow, key |-> NoRow,
               seen |-> NoPayload, owner |-> FALSE]

Init == /\ now = 0
        /\ drafts = [d \in Drafts |-> NoRow]
        /\ approvals = [a \in Approvals |-> NoRow]
        /\ attempts = [k \in Keys |-> NoRow]
        /\ viewed = {}
        /\ mail = {}
        /\ editors = [e \in Editors |-> IdleEditor]
        /\ askers = [q \in Askers |-> IdleAsker]
        /\ confirmers = [c \in Confirmers |-> IdleConfirmer]
        /\ senders = [s \in Senders |-> IdleSender]

-----------------------------------------------------------------------------
(* Drafts: DraftService.  Any number of edits may follow one another, so an *)
(* editor goes back to idle.                                               *)

(* createDraft is one insert of a fresh row. *)
CreateDraft(d, p) ==
  /\ drafts[d] = NoRow
  /\ drafts' = [drafts EXCEPT ![d] = [payload |-> p, status |-> "draft"]]
  /\ UNCHANGED <<now, approvals, attempts, viewed, mail, editors, askers, confirmers, senders>>

EditableStatus(d) == drafts[d].status # "sent"

(* editDraft reads the row and refuses one that is sent.  The refusal ends  *)
(* the request with nothing changed, so only the other outcome is a step.   *)
EditRead(e, d) ==
  /\ editors[e].pc = Idle
  /\ drafts[d] # NoRow
  /\ EditableStatus(d)
  /\ editors' = [editors EXCEPT ![e] = [pc |-> "edit", draft |-> d]]
  /\ UNCHANGED <<now, tables, viewed, mail, askers, confirmers, senders>>

(* Each field is the caller's or the one read before, so any payload may    *)
(* result; the status goes back to draft without another look at the row.   *)
EditWrite(e, p) ==
  /\ editors[e].pc = "edit"
  /\ drafts' = [drafts EXCEPT ![editors[e].draft] = [payload |-> p, status |-> "draft"]]
  /\ editors' = [editors EXCEPT ![e] = IdleEditor]
  /\ UNCHANGED <<now, approvals, attempts, viewed, mail, askers, confirmers, senders>>

(* setDraftSignature composes the new text from the body it read, whatever  *)
(* the status of the draft ...                                             *)
SignRead(e, d) ==
  /\ editors[e].pc = Idle
  /\ drafts[d] # NoRow
  /\ editors' = [editors EXCEPT ![e] = [pc |-> "sign", draft |-> d]]
  /\ UNCHANGED <<now, tables, viewed, mail, askers, confirmers, senders>>

(* ... and writes the text alone. *)
SignWrite(e, t) ==
  /\ editors[e].pc = "sign"
  /\ drafts' = [drafts EXCEPT ![editors[e].draft].payload.text = t]
  /\ editors' = [editors EXCEPT ![e] = IdleEditor]
  /\ UNCHANGED <<now, approvals, attempts, viewed, mail, askers, confirmers, senders>>

-----------------------------------------------------------------------------
(* requestSendApproval: read the draft, refuse what Gmail cannot send, then *)
(* insert a pending approval for the hash that was read.                    *)

DeliverableUnchecked(p) == TRUE    \* the outbound gate forgotten
Deliverable(p) == ~p.extra

AskRead(q, d) ==
  /\ askers[q].pc = Idle
  /\ drafts[d] # NoRow
  /\ Deliverable(drafts[d].payload)
  /\ askers' = [askers EXCEPT ![q] = [pc |-> "insert", draft |-> d,
                                      seen |-> drafts[d].payload]]
  /\ UNCHANGED <<now, tables, viewed, mail, editors, confirmers, senders>>

AskInsert(q, a) ==
  /\ askers[q].pc = "insert"
  /\ approvals[a] = NoRow
  /\ approvals' = [approvals EXCEPT ![a] =
       [draft |-> askers[q].draft, hash |-> HashOf(askers[q].seen),
        status |-> "pending", expiresAt |-> now + Validity, used |-> FALSE]]
  /\ askers' = [askers EXCEPT ![q] = IdleAsker]
  /\ UNCHANGED <<now, drafts, attempts, viewed, mail, editors, confirmers, senders>>

(* The database refuses the insert, or the isolate goes: no row, no answer. *)
AskLost(q) ==
  /\ askers[q].pc = "insert"
  /\ Faults \intersect {"crash", "db"} # {}
  /\ askers' = [askers EXCEPT ![q] = IdleAsker]
  /\ UNCHANGED <<now, tables, viewed, mail, editors, confirmers, senders>>

-----------------------------------------------------------------------------
(* The human.  The review page shows the draft as it is now, beside the     *)
(* approval's fingerprint and, in its form, the approval's nonce.           *)

Review(a) ==
  /\ approvals[a] # NoRow
  /\ viewed' = viewed \union {<<a, drafts[approvals[a].draft].payload.text>>}
  /\ UNCHANGED <<now, tables, mail, editors, askers, confirmers, senders>>

(* The nonces a human can post back: an approval's nonce is named by its id. *)
KnownNonces == {v[1] : v \in viewed}
NonceUnchecked(a, n) == TRUE    \* any nonce will do
NonceMatches(a, n) == a = n

(* confirmSendApproval: the row as it was read, ... *)
Confirmable(a, n) == /\ ~approvals[a].used
                     /\ approvals[a].expiresAt >= now
                     /\ NonceMatches(a, n)
                     /\ approvals[a].status # "confirmed"

ConfirmRead(c, a, n) ==
  /\ confirmers[c].pc = Idle
  /\ approvals[a] # NoRow
  /\ confirmers' = [confirmers EXCEPT ![c] =
       IF Confirmable(a, n)
         THEN [pc |-> "hash", approval |-> a, nonce |-> n, at |-> now]
         ELSE RefusedConfirmer]
  /\ UNCHANGED <<now, tables, viewed, mail, editors, askers, senders>>

(* ... the draft as it is a statement later, ... *)
ConfirmHash(c) ==
  LET a == confirmers[c].approval IN
  /\ confirmers[c].pc = "hash"
  /\ confirmers' = [confirmers EXCEPT ![c] =
       IF HashOf(drafts[approvals[a].draft].payload) = approvals[a].hash
         THEN [@ EXCEPT !.pc = "cas"] ELSE RefusedConfirmer]
  /\ UNCHANGED <<now, tables, viewed, mail, editors, askers, senders>>

(* ... and the compare-and-set, with the time of the first read. *)
StillPendingUnchecked(a) == TRUE  \* the update without its status condition
StillPending(a) == approvals[a].status = "pending"

CasMatches(c) == LET a == confirmers[c].approval IN
  /\ StillPending(a)
  /\ ~approvals[a].used
  /\ approvals[a].expiresAt > confirmers[c].at
  /\ NonceMatches(a, confirmers[c].nonce)

ConfirmCas(c) ==
  /\ confirmers[c].pc = "cas"
  /\ IF CasMatches(c)
       THEN /\ approvals' = [approvals EXCEPT ![confirmers[c].approval].status = "confirmed"]
            /\ confirmers' = [confirmers EXCEPT ![c].pc = "ok"]
       ELSE /\ approvals' = approvals
            /\ confirmers' = [confirmers EXCEPT ![c] = RefusedConfirmer]
  /\ UNCHANGED <<now, drafts, attempts, viewed, mail, editors, askers, senders>>

ConfirmCrash(c) ==
  /\ "crash" \in Faults
  /\ confirmers[c].pc \in {"hash", "cas"}
  /\ confirmers' = [confirmers EXCEPT ![c] = RefusedConfirmer]
  /\ UNCHANGED <<now, tables, viewed, mail, editors, askers, senders>>
-----------------------------------------------------------------------------
(* sendDraft.  A request is one call; a retry is another request with the   *)
(* same key.                                                               *)

Goto(s, pc) == senders' = [senders EXCEPT ![s].pc = pc]

(* The end of a request: of its locals only the key still matters. *)
End(s, pc, k) == senders' = [senders EXCEPT ![s] = [IdleSender EXCEPT !.pc = pc, !.key = k]]
Succeed(s) == End(s, "ok", senders[s].key)
Fail(s) == End(s, "error", senders[s].key)
OnlySender == UNCHANGED <<now, tables, viewed, mail, editors, askers, confirmers>>

(* Step 1: a key whose attempt is sent is answered from the attempt. *)
AnsweredByAnyAttempt(k) == attempts[k] # NoRow  \* the status not looked at
AnsweredByAttempt(k) == attempts[k] # NoRow /\ attempts[k].status = "sent"

SendStart(s, d, a, k) ==
  /\ senders[s].pc = Idle
  /\ drafts[d] # NoRow
  /\ approvals[a] # NoRow
  /\ IF AnsweredByAttempt(k)
       THEN End(s, "ok", k)
       ELSE senders' = [senders EXCEPT ![s] =
              [IdleSender EXCEPT !.pc = "approval", !.draft = d, !.approval = a, !.key = k]]
  /\ OnlySender

(* Steps 2 to 5: confirmed, not used, not expired. *)
UnusedUnchecked(a) == TRUE      \* single use not enforced
Unused(a) == ~approvals[a].used

UsableUnconfirmed(a) == /\ Unused(a)   \* a pending approval is enough
                        /\ approvals[a].expiresAt >= now

Usable(a) == /\ approvals[a].status = "confirmed"
             /\ Unused(a)
             /\ approvals[a].expiresAt >= now

SendApproval(s) ==
  /\ senders[s].pc = "approval"
  /\ IF Usable(senders[s].approval) THEN Goto(s, "hash") ELSE Fail(s)
  /\ OnlySender

(* Step 6: the draft is read once more; what is read here is what will be   *)
(* handed to the provider.                                                 *)
MatchesUnchecked(p, a) == TRUE    \* the hash not compared again
MatchesApproval(p, a) == HashOf(p) = approvals[a].hash

SendHash(s) ==
  LET p == drafts[senders[s].draft].payload IN
  /\ senders[s].pc = "hash"
  /\ IF MatchesApproval(p, senders[s].approval) /\ Deliverable(p)
       THEN senders' = [senders EXCEPT ![s].pc = "insert", ![s].seen = p]
       ELSE Fail(s)
  /\ OnlySender

(* Step 7: the unique index lets one insert per key through. *)
KeyAlwaysFree(k) == TRUE        \* no unique index
KeyFree(k) == attempts[k] = NoRow

SendInsert(s) ==
  /\ senders[s].pc = "insert"
  /\ KeyFree(senders[s].key)
  /\ attempts' = [attempts EXCEPT ![senders[s].key] =
       [owner |-> s, approval |-> senders[s].approval, status |-> "in_progress"]]
  /\ senders' = [senders EXCEPT ![s].pc = "dispatch", ![s].owner = TRUE]
  /\ UNCHANGED <<now, drafts, approvals, viewed, mail, editors, askers, confirmers>>

(* Any error of the insert, a taken key or another, starts the poll. *)
SendInsertRefused(s) ==
  /\ senders[s].pc = "insert"
  /\ attempts[senders[s].key] # NoRow \/ "db" \in Faults
  /\ Goto(s, "poll")
  /\ OnlySender

PollAnswered(s) ==
  /\ senders[s].pc = "poll"
  /\ AnsweredByAttempt(senders[s].key)
  /\ Succeed(s)
  /\ OnlySender

(* Twenty polls without a sent attempt: the loser goes on to the provider. *)
PollExhausted(s) ==
  /\ senders[s].pc = "poll"
  /\ "poll" \in Faults
  /\ ~AnsweredByAttempt(senders[s].key)
  /\ Goto(s, "dispatch")
  /\ OnlySender

(* Step 8: the provider takes the message, and the answer comes or is lost, *)
(* or it refuses it.                                                       *)
MessageOf(s) == [sender |-> s, approval |-> senders[s].approval, draft |-> senders[s].draft,
                 key |-> senders[s].key, payload |-> senders[s].seen]

Dispatch(s) ==
  /\ senders[s].pc = "dispatch"
  /\ mail' = mail \union {MessageOf(s)}
  /\ \/ Goto(s, "markUsed")
     \/ "provider" \in Faults /\ Goto(s, "markFailed")
  /\ UNCHANGED <<now, tables, viewed, editors, askers, confirmers>>

DispatchRefused(s) ==
  /\ senders[s].pc = "dispatch"
  /\ "provider" \in Faults
  /\ Goto(s, "markFailed")
  /\ OnlySender

(* Step 9: three updates, none conditional on the row it overwrites. *)
MarkUsedForgotten(s) ==      \* the approval is not marked used
  /\ senders[s].pc = "markUsed"
  /\ Goto(s, "markDraft")
  /\ OnlySender

MarkUsed(s) ==
  /\ senders[s].pc = "markUsed"
  /\ approvals' = [approvals EXCEPT ![senders[s].approval].used = TRUE]
  /\ Goto(s, "markDraft")
  /\ UNCHANGED <<now, drafts, attempts, viewed, mail, editors, askers, confirmers>>

MarkDraftAndStop(s) ==       \* the attempt is never settled
  /\ senders[s].pc = "markDraft"
  /\ drafts' = [drafts EXCEPT ![senders[s].draft].status = "sent"]
  /\ Succeed(s)
  /\ UNCHANGED <<now, approvals, attempts, viewed, mail, editors, askers, confirmers>>

MarkDraft(s) ==
  /\ senders[s].pc = "markDraft"
  /\ drafts' = [drafts EXCEPT ![senders[s].draft].status = "sent"]
  /\ IF senders[s].owner THEN Goto(s, "markAttempt") ELSE Succeed(s)
  /\ UNCHANGED <<now, approvals, attempts, viewed, mail, editors, askers, confirmers>>

MarkAttempt(s) ==
  /\ senders[s].pc = "markAttempt"
  /\ attempts' = [attempts EXCEPT ![senders[s].key].status = "sent"]
  /\ Succeed(s)
  /\ UNCHANGED <<now, drafts, approvals, viewed, mail, editors, askers, confirmers>>

(* A failed update is caught like a failed dispatch: the owner marks its    *)
(* attempt failed, though the message has gone.                             *)
MarkLost(s) ==
  /\ senders[s].pc \in {"markUsed", "markDraft", "markAttempt"}
  /\ "db" \in Faults
  /\ Goto(s, "markFailed")
  /\ OnlySender

MarkFailed(s) ==
  /\ senders[s].pc = "markFailed"
  /\ attempts' = IF senders[s].owner
                   THEN [attempts EXCEPT ![senders[s].key].status = "failed"]
                   ELSE attempts
  /\ Fail(s)
  /\ UNCHANGED <<now, drafts, approvals, viewed, mail, editors, askers, confirmers>>

(* The isolate goes, or a statement outside every try block is refused. *)
SendCrash(s) ==
  /\ "crash" \in Faults
  /\ senders[s].pc \in SenderPcs
  /\ Fail(s)
  /\ OnlySender

-----------------------------------------------------------------------------
Tick == /\ now < MaxTime
        /\ now' = now + 1
        /\ UNCHANGED <<tables, viewed, mail, editors, askers, confirmers, senders>>

EditorNext(e) == \/ \E d \in Drafts : EditRead(e, d) \/ SignRead(e, d)
                 \/ \E p \in Payload : EditWrite(e, p)
                 \/ \E t \in Texts : SignWrite(e, t)

AskerNext(q) == \/ \E d \in Drafts : AskRead(q, d)
                \/ \E a \in Approvals : AskInsert(q, a)
                \/ AskLost(q)

ConfirmerStep(c) == ConfirmHash(c) \/ ConfirmCas(c)

ConfirmerNext(c) == \/ \E a \in Approvals, n \in KnownNonces : ConfirmRead(c, a, n)
                    \/ ConfirmerStep(c)
                    \/ ConfirmCrash(c)

(* What a send request does once it has started, whatever the faults. *)
SenderStep(s) == \/ SendApproval(s) \/ SendHash(s) \/ SendInsert(s) \/ SendInsertRefused(s)
                 \/ PollAnswered(s) \/ PollExhausted(s)
                 \/ Dispatch(s) \/ DispatchRefused(s)
                 \/ MarkUsed(s) \/ MarkDraft(s) \/ MarkAttempt(s) \/ MarkLost(s)
                 \/ MarkFailed(s)

SenderNext(s) == \/ \E d \in Drafts, a \in Approvals, k \in Keys : SendStart(s, d, a, k)
                 \/ SenderStep(s)
                 \/ SendCrash(s)

Next == \/ Tick
        \/ \E d \in Drafts, p \in Payload : CreateDraft(d, p)
        \/ \E e \in Editors : EditorNext(e)
        \/ \E q \in Askers : AskerNext(q)
        \/ \E a \in Approvals : Review(a)
        \/ \E c \in Confirmers : ConfirmerNext(c)
        \/ \E s \in Senders : SenderNext(s)

Spec == Init /\ [][Next]_vars

(* A request that has started is driven by its isolate: its awaits resolve  *)
(* or reject.  Nobody has to start one, and the clock may stop.             *)
FairSpec == Spec /\ \A s \in Senders : WF_vars(SenderStep(s))
-----------------------------------------------------------------------------
(* Type invariant of the tables, the history and the requests' records. *)
TypeOK ==
  /\ now \in 0..MaxTime
  /\ drafts \in [Drafts -> DraftRow \union {NoRow}]
  /\ approvals \in [Approvals -> ApprovalRow \union {NoRow}]
  /\ attempts \in [Keys -> AttemptRow \union {NoRow}]
  /\ viewed \subseteq Approvals \X Texts
  /\ mail \subseteq Message
  /\ editors \in [Editors -> EditorState]
  /\ askers \in [Askers -> AskerState]
  /\ confirmers \in [Confirmers -> ConfirmerState]
  /\ senders \in [Senders -> SenderState]

(* Every message a provider took has exactly the hash a confirmed approval *)
(* was opened for, however edits interleave with sendDraft's reads.        *)
MailWasConfirmed ==
  \A m \in mail : /\ approvals[m.approval] # NoRow
                  /\ approvals[m.approval].status = "confirmed"
                  /\ approvals[m.approval].hash = HashOf(m.payload)

(* Bcc, HTML and attachments are not hashed, so only the gate before the   *)
(* dispatch keeps out what an edit added after the confirmation.           *)
UnhashedNeverMailed == \A m \in mail : ~m.payload.extra

(* An approval is confirmed only by someone its review page was shown to:  *)
(* the nonce of one approval does not confirm another.                     *)
ConfirmedAfterReview ==
  \A a \in Approvals :
    approvals[a] # NoRow /\ approvals[a].status = "confirmed" => a \in KnownNonces

(* Of any number of concurrent confirmations of an approval one succeeds. *)
ConfirmedOnce ==
  \A c1, c2 \in Confirmers :
    /\ confirmers[c1].pc = "ok" /\ confirmers[c2].pc = "ok"
    /\ confirmers[c1].approval = confirmers[c2].approval
    => c1 = c2

(* An attempt that says sent, from which later calls are answered without  *)
(* any check, is backed by its owner's message and a used approval.        *)
SentAttemptIsBacked ==
  \A k \in Keys :
    attempts[k] # NoRow /\ attempts[k].status = "sent" =>
      /\ approvals[attempts[k].approval].used
      /\ \E m \in mail : m.sender = attempts[k].owner /\ m.key = k

(* A call that reports success does so because a message under its key has *)
(* gone out, its own or that of the call it lost the key to.               *)
SuccessMeansMailed ==
  \A s \in Senders : senders[s].pc = "ok" => \E m \in mail : m.key = senders[s].key

(* The handlers implement the promise of ApprovedDelivery. *)
Promise == INSTANCE ApprovedDelivery WITH
  Challenges <- Approvals, Hashes <- Texts, Messages <- Senders, NoHash <- NoRow,
  bound <- [a \in Approvals |-> IF approvals[a] = NoRow THEN NoRow ELSE approvals[a].hash],
  approved <- {a \in Approvals : approvals[a] # NoRow /\ approvals[a].status = "confirmed"},
  sent <- {[message |-> m.sender, hash |-> HashOf(m.payload)] : m \in mail}

(* Refinement: a challenge keeps the hash it was opened for, is approved    *)
(* once and for good, and mail leaves only under an approved challenge.    *)
KeepsPromise == Promise!ASpec

(* One key, one message: what the unique index of send_attempts is for. *)
OneMailPerKey == \A m1, m2 \in mail : m1.key = m2.key => m1 = m2

(* One approval, one message: the single-use constraint of step 4. *)
OneMailPerApproval == \A m1, m2 \in mail : m1.approval = m2.approval => m1 = m2

(* What was mailed had been shown to the human on the approval's review page. *)
MailedAsReviewed == \A m \in mail : <<m.approval, m.payload.text>> \in viewed

(* A call that reaches the approval after it was used never mails anything. *)
UsedApprovalStaysShut ==
  \A s \in Senders :
    []( /\ senders[s].pc = "approval"
        /\ approvals[senders[s].approval].used
        => [](\A m \in mail : m.sender # s) )

(* Every send request ends: no sender waits for ever on the one that holds *)
(* its key.                                                                *)
EverySendEnds ==
  \A s \in Senders : senders[s].pc \in SenderPcs ~> senders[s].pc \in Ended
=============================================================================
