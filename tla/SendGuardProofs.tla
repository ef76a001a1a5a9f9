-------------------------- MODULE SendGuardProofs --------------------------
(***************************************************************************)
(* Proofs about SendGuard, for every set of drafts, texts, approvals, keys *)
(* and requests, every lifetime of an approval and every set of faults.    *)
(***************************************************************************)
EXTENDS SendGuard, TLAPS

USE DEF Idle, Ended, SenderPcs, tables

(* The steps of a send request that come after its checks of the approval, *)
(* and those that come after its check of the draft as well.               *)
PastDraft == {"insert", "poll", "dispatch", "markUsed", "markDraft", "markAttempt", "markFailed"}
PastApproval == {"hash"} \union PastDraft

(* Whatever an approval or a request in flight points at is there: the     *)
(* tables lose no row.                                                     *)
RowsExist ==
  /\ \A a \in Approvals : approvals[a] # NoRow => drafts[approvals[a].draft] # NoRow
  /\ \A e \in Editors : editors[e].pc # Idle =>
       editors[e].draft \in Drafts /\ drafts[editors[e].draft] # NoRow
  /\ \A q \in Askers : askers[q].pc # Idle =>
       /\ askers[q].draft \in Drafts
       /\ drafts[askers[q].draft] # NoRow
       /\ askers[q].seen \in Payload
  /\ \A c \in Confirmers : confirmers[c].pc \in {"hash", "cas"} =>
       /\ confirmers[c].approval \in Approvals
       /\ approvals[confirmers[c].approval] # NoRow
  /\ \A s \in Senders : senders[s].pc \in SenderPcs =>
       /\ senders[s].draft \in Drafts
       /\ drafts[senders[s].draft] # NoRow
       /\ senders[s].approval \in Approvals
       /\ approvals[senders[s].approval] # NoRow
       /\ senders[s].key \in Keys

(* The owner of an attempt finds its row when it settles it, and only the  *)
(* owner comes to settle it as sent.                                       *)
OwnersHaveAttempts ==
  \A s \in Senders :
    /\ senders[s].owner => /\ senders[s].pc \in PastDraft
                           /\ attempts[senders[s].key] # NoRow
    /\ senders[s].pc = "markAttempt" => senders[s].owner

(* What a request has checked stays true until it dispatches: an approval  *)
(* is never unconfirmed, and neither its hash nor the request's copy of the *)
(* draft changes, whatever edits the draft itself goes through.            *)
ChecksHold ==
  \A s \in Senders :
    /\ senders[s].pc \in PastApproval => approvals[senders[s].approval].status = "confirmed"
    /\ senders[s].pc \in PastDraft =>
         /\ senders[s].seen \in Payload
         /\ HashOf(senders[s].seen) = approvals[senders[s].approval].hash
         /\ ~senders[s].seen.extra

IInv == TypeOK /\ RowsExist /\ OwnersHaveAttempts /\ ChecksHold
          /\ MailWasConfirmed /\ UnhashedNeverMailed

(* What [senders EXCEPT ![s].pc = pc] is, field by field. *)
LEMMA GotoFields ==
  ASSUME senders \in [Senders -> SenderState], NEW s \in Senders, NEW pc \in SenderPcs, Goto(s, pc)
  PROVE  /\ senders' \in [Senders -> SenderState]
         /\ \A x \in Senders : x # s => senders'[x] = senders[x]
         /\ senders'[s].pc = pc
         /\ senders'[s].draft = senders[s].draft
         /\ senders'[s].approval = senders[s].approval
         /\ senders'[s].key = senders[s].key
         /\ senders'[s].seen = senders[s].seen
         /\ senders'[s].owner = senders[s].owner
<1> DEFINE new == [senders[s] EXCEPT !.pc = pc]
<1>1. senders[s] \in SenderState
  OBVIOUS
<1>2. new \in SenderState
  BY <1>1 DEF SenderState
<1>3. /\ new.pc = pc /\ new.draft = senders[s].draft /\ new.approval = senders[s].approval
      /\ new.key = senders[s].key /\ new.seen = senders[s].seen /\ new.owner = senders[s].owner
  BY <1>1 DEF SenderState
<1>4. senders' = [senders EXCEPT ![s] = new]
  BY DEF Goto
<1> HIDE DEF new
<1> QED  BY <1>2, <1>3, <1>4

(* What a request that ended keeps of its record. *)
LEMMA EndFields ==
  ASSUME senders \in [Senders -> SenderState], NEW s \in Senders, NEW pc \in Ended,
         NEW k \in Keys, End(s, pc, k)
  PROVE  /\ senders' \in [Senders -> SenderState]
         /\ \A x \in Senders : x # s => senders'[x] = senders[x]
         /\ senders'[s].pc = pc
         /\ senders'[s].owner = FALSE
<1> DEFINE new == [IdleSender EXCEPT !.pc = pc, !.key = k]
<1>1. new \in SenderState /\ new.pc = pc /\ new.owner = FALSE
  BY DEF SenderState, IdleSender, NoPayload
<1>2. senders' = [senders EXCEPT ![s] = new]
  BY DEF End
<1> HIDE DEF new
<1> QED  BY <1>1, <1>2

(* A request that only moves on, with what the next step relies on. *)
LEMMA MoveKeeps ==
  ASSUME IInv, NEW s \in Senders, NEW pc \in SenderPcs, senders[s].pc \in SenderPcs,
         Goto(s, pc), OnlySender,
         senders[s].pc \in PastDraft => pc \in PastDraft,
         pc \in PastDraft => senders[s].pc \in PastDraft,
         pc \in PastApproval => approvals[senders[s].approval].status = "confirmed",
         pc = "markAttempt" => senders[s].owner
  PROVE  IInv'
<1>0. senders \in [Senders -> SenderState]
  BY DEF IInv, TypeOK
<1>1. /\ senders' \in [Senders -> SenderState]
      /\ \A x \in Senders : x # s => senders'[x] = senders[x]
      /\ senders'[s].pc = pc
      /\ senders'[s].draft = senders[s].draft
      /\ senders'[s].approval = senders[s].approval
      /\ senders'[s].key = senders[s].key
      /\ senders'[s].seen = senders[s].seen
      /\ senders'[s].owner = senders[s].owner
  BY <1>0, GotoFields
<1>2. UNCHANGED <<now, drafts, approvals, attempts, viewed, mail, editors, askers, confirmers>>
  BY DEF OnlySender
<1>3. TypeOK'
  BY <1>1, <1>2 DEF IInv, TypeOK
<1>4. RowsExist'
  BY <1>1, <1>2 DEF IInv, RowsExist
<1>5. OwnersHaveAttempts'
  BY <1>1, <1>2 DEF IInv, OwnersHaveAttempts
<1>6. ChecksHold'
  BY <1>1, <1>2 DEF IInv, ChecksHold
<1>7. MailWasConfirmed' /\ UnhashedNeverMailed'
  BY <1>2 DEF IInv, MailWasConfirmed, UnhashedNeverMailed
<1> QED  BY <1>3, <1>4, <1>5, <1>6, <1>7 DEF IInv

(* A request that only ends. *)
LEMMA EndKeeps ==
  ASSUME IInv, NEW s \in Senders, NEW pc \in Ended, NEW k \in Keys, End(s, pc, k), OnlySender
  PROVE  IInv'
<1>0. senders \in [Senders -> SenderState]
  BY DEF IInv, TypeOK
<1>1. /\ senders' \in [Senders -> SenderState]
      /\ \A x \in Senders : x # s => senders'[x] = senders[x]
      /\ senders'[s].pc = pc
      /\ senders'[s].owner = FALSE
  BY <1>0, EndFields
<1>2. UNCHANGED <<now, drafts, approvals, attempts, viewed, mail, editors, askers, confirmers>>
  BY DEF OnlySender
<1>3. TypeOK'
  BY <1>1, <1>2 DEF IInv, TypeOK
<1>4. RowsExist'
  BY <1>1, <1>2 DEF IInv, RowsExist
<1>5. OwnersHaveAttempts'
  BY <1>1, <1>2 DEF IInv, OwnersHaveAttempts
<1>6. ChecksHold'
  BY <1>1, <1>2 DEF IInv, ChecksHold, PastApproval, PastDraft
<1>7. MailWasConfirmed' /\ UnhashedNeverMailed'
  BY <1>2 DEF IInv, MailWasConfirmed, UnhashedNeverMailed
<1> QED  BY <1>3, <1>4, <1>5, <1>6, <1>7 DEF IInv

(* The steps of sendDraft. *)
LEMMA SendStartKeeps ==
  ASSUME IInv, NEW s \in Senders, NEW d \in Drafts, NEW a \in Approvals, NEW k \in Keys,
         SendStart(s, d, a, k)
  PROVE  IInv'
<1>1. CASE AnsweredByAttempt(k)
  BY <1>1, EndKeeps DEF SendStart
<1>2. CASE ~AnsweredByAttempt(k)
  <2> DEFINE new == [IdleSender EXCEPT !.pc = "approval", !.draft = d, !.approval = a, !.key = k]
  <2>1. /\ senders' = [senders EXCEPT ![s] = new]
        /\ drafts[d] # NoRow /\ approvals[a] # NoRow
        /\ UNCHANGED <<now, drafts, approvals, attempts, viewed, mail, editors, askers, confirmers>>
    BY <1>2 DEF SendStart, OnlySender
  <2>2. /\ new \in SenderState /\ new.pc = "approval" /\ new.owner = FALSE
        /\ new.draft = d /\ new.approval = a /\ new.key = k
    BY DEF SenderState, IdleSender, NoPayload
  <2> HIDE DEF new
  <2>3. TypeOK'
    BY <2>1, <2>2 DEF IInv, TypeOK
  <2>4. RowsExist'
    BY <2>1, <2>2 DEF IInv, TypeOK, RowsExist
  <2>5. OwnersHaveAttempts'
    BY <2>1, <2>2 DEF IInv, TypeOK, OwnersHaveAttempts
  <2>6. ChecksHold'
    BY <2>1, <2>2 DEF IInv, TypeOK, ChecksHold, PastApproval, PastDraft
  <2>7. MailWasConfirmed' /\ UnhashedNeverMailed'
    BY <2>1 DEF IInv, MailWasConfirmed, UnhashedNeverMailed
  <2> QED  BY <2>3, <2>4, <2>5, <2>6, <2>7 DEF IInv
<1> QED  BY <1>1, <1>2

(* The key of a request in flight is there to be kept when it ends. *)
LEMMA FailOrSucceedKeeps ==
  ASSUME IInv, NEW s \in Senders, senders[s].pc \in SenderPcs, Fail(s) \/ Succeed(s), OnlySender
  PROVE  IInv'
<1>1. senders[s].key \in Keys
  BY DEF IInv, RowsExist
<1> QED  BY <1>1, EndKeeps DEF Fail, Succeed

LEMMA SendApprovalKeeps ==
  ASSUME IInv, NEW s \in Senders, SendApproval(s)
  PROVE  IInv'
<1>1. CASE Usable(senders[s].approval)
  BY <1>1, MoveKeeps DEF SendApproval, Usable, PastApproval, PastDraft
<1>2. CASE ~Usable(senders[s].approval)
  BY <1>2, FailOrSucceedKeeps DEF SendApproval
<1> QED  BY <1>1, <1>2

(* What the hash check and the gate establish is what ChecksHold asks of a *)
(* request that goes on: its copy of the draft carries the approved hash.  *)
LEMMA SendHashKeeps ==
  ASSUME IInv, NEW s \in Senders, SendHash(s)
  PROVE  IInv'
<1> DEFINE p == drafts[senders[s].draft].payload
           passed == MatchesApproval(p, senders[s].approval) /\ Deliverable(p)
<1>1. CASE ~passed
  BY <1>1, FailOrSucceedKeeps DEF SendHash
<1>2. CASE passed
  <2> DEFINE new == [senders[s] EXCEPT !.pc = "insert", !.seen = p]
  <2>0. senders[s] \in SenderState /\ senders[s].pc = "hash"
    BY DEF SendHash, IInv, TypeOK
  <2>1. p \in Payload
    BY <2>0 DEF IInv, TypeOK, RowsExist, DraftRow
  <2>2. /\ senders' = [senders EXCEPT ![s] = new]
        /\ UNCHANGED <<now, drafts, approvals, attempts, viewed, mail, editors, askers, confirmers>>
    BY <1>2 DEF SendHash, OnlySender
  <2>3. /\ new \in SenderState /\ new.pc = "insert" /\ new.owner = senders[s].owner
        /\ new.draft = senders[s].draft /\ new.approval = senders[s].approval
        /\ new.key = senders[s].key /\ new.seen = p
    BY <2>0, <2>1 DEF SenderState
  <2>4. HashOf(p) = approvals[senders[s].approval].hash /\ ~p.extra
    BY <1>2 DEF MatchesApproval, Deliverable
  <2> HIDE DEF new, p
  <2>5. TypeOK'
    BY <2>2, <2>3 DEF IInv, TypeOK
  <2>6. RowsExist'
    BY <2>0, <2>2, <2>3 DEF IInv, TypeOK, RowsExist
  <2>7. OwnersHaveAttempts'
    BY <2>0, <2>2, <2>3 DEF IInv, TypeOK, OwnersHaveAttempts, PastDraft
  <2>8. ChecksHold'
    BY <2>0, <2>1, <2>2, <2>3, <2>4 DEF IInv, TypeOK, ChecksHold, PastApproval, PastDraft
  <2>9. MailWasConfirmed' /\ UnhashedNeverMailed'
    BY <2>2 DEF IInv, MailWasConfirmed, UnhashedNeverMailed
  <2> QED  BY <2>5, <2>6, <2>7, <2>8, <2>9 DEF IInv
<1> QED  BY <1>1, <1>2

LEMMA SendInsertKeeps ==
  ASSUME IInv, NEW s \in Senders, SendInsert(s)
  PROVE  IInv'
<1> DEFINE new == [senders[s] EXCEPT !.pc = "dispatch", !.owner = TRUE]
           k == senders[s].key
           row == [owner |-> s, approval |-> senders[s].approval, status |-> "in_progress"]
<1>0. /\ senders[s] \in SenderState /\ senders[s].pc = "insert"
      /\ k \in Keys /\ senders[s].approval \in Approvals
  BY DEF SendInsert, IInv, TypeOK, RowsExist
<1>1. /\ senders' = [senders EXCEPT ![s] = new]
      /\ attempts' = [attempts EXCEPT ![k] = row]
      /\ UNCHANGED <<now, drafts, approvals, viewed, mail, editors, askers, confirmers>>
  BY DEF SendInsert
<1>2. /\ new \in SenderState /\ new.pc = "dispatch"
      /\ new.draft = senders[s].draft /\ new.approval = senders[s].approval
      /\ new.key = k /\ new.seen = senders[s].seen
  BY <1>0 DEF SenderState
<1>3. row \in AttemptRow /\ row # NoRow
  BY <1>0, NoRowAssumption DEF AttemptRow, AttemptStatus
<1> HIDE DEF new, row
<1>4. TypeOK'
  BY <1>1, <1>2, <1>3 DEF IInv, TypeOK
<1>5. RowsExist'
  BY <1>0, <1>1, <1>2 DEF IInv, TypeOK, RowsExist
<1>6. OwnersHaveAttempts'
  BY <1>0, <1>1, <1>2, <1>3 DEF IInv, TypeOK, OwnersHaveAttempts, PastDraft
<1>7. ChecksHold'
  BY <1>0, <1>1, <1>2 DEF IInv, TypeOK, ChecksHold, PastApproval, PastDraft
<1>8. MailWasConfirmed' /\ UnhashedNeverMailed'
  BY <1>1 DEF IInv, MailWasConfirmed, UnhashedNeverMailed
<1> QED  BY <1>4, <1>5, <1>6, <1>7, <1>8 DEF IInv

(* The steps that move on and touch no table. *)
LEMMA SenderMovesKeep ==
  ASSUME IInv, NEW s \in Senders,
         SendInsertRefused(s) \/ PollExhausted(s) \/ DispatchRefused(s) \/ MarkLost(s)
  PROVE  IInv'
<1>1. /\ senders[s].pc \in PastDraft /\ OnlySender
      /\ \E pc \in {"poll", "dispatch", "markFailed"} : Goto(s, pc)
  BY DEF SendInsertRefused, PollExhausted, DispatchRefused, MarkLost, PastDraft
<1>2. approvals[senders[s].approval].status = "confirmed"
  BY <1>1 DEF IInv, ChecksHold, PastApproval
<1> QED  BY <1>1, <1>2, MoveKeeps DEF PastDraft

(* The dispatch: what goes out is the copy that was checked. *)
LEMMA DispatchKeeps ==
  ASSUME IInv, NEW s \in Senders, Dispatch(s)
  PROVE  IInv'
<1>0. /\ senders \in [Senders -> SenderState] /\ senders[s].pc = "dispatch"
      /\ mail' = mail \union {MessageOf(s)}
      /\ UNCHANGED <<now, drafts, approvals, attempts, viewed, editors, askers, confirmers>>
  BY DEF Dispatch, IInv, TypeOK
<1>1. PICK pc \in {"markUsed", "markFailed"} : Goto(s, pc)
  BY DEF Dispatch
<1>2. /\ senders' \in [Senders -> SenderState]
      /\ \A x \in Senders : x # s => senders'[x] = senders[x]
      /\ senders'[s].pc = pc
      /\ senders'[s].draft = senders[s].draft
      /\ senders'[s].approval = senders[s].approval
      /\ senders'[s].key = senders[s].key
      /\ senders'[s].seen = senders[s].seen
      /\ senders'[s].owner = senders[s].owner
  BY <1>0, <1>1, GotoFields
<1>3. /\ senders[s].draft \in Drafts /\ senders[s].key \in Keys
      /\ senders[s].approval \in Approvals /\ approvals[senders[s].approval] # NoRow
  BY <1>0 DEF IInv, RowsExist
<1>4. /\ approvals[senders[s].approval].status = "confirmed"
      /\ senders[s].seen \in Payload
      /\ HashOf(senders[s].seen) = approvals[senders[s].approval].hash
      /\ ~senders[s].seen.extra
  BY <1>0 DEF IInv, ChecksHold, PastApproval, PastDraft
<1>5. /\ MessageOf(s) \in Message
      /\ MessageOf(s).approval = senders[s].approval
      /\ MessageOf(s).payload = senders[s].seen
  BY <1>3, <1>4 DEF MessageOf, Message
<1>6. TypeOK'
  BY <1>0, <1>2, <1>5 DEF IInv, TypeOK
<1>7. RowsExist'
  BY <1>0, <1>2 DEF IInv, RowsExist
<1>8. OwnersHaveAttempts'
  BY <1>0, <1>2 DEF IInv, OwnersHaveAttempts, PastDraft
<1>9. ChecksHold'
  BY <1>0, <1>2 DEF IInv, ChecksHold, PastApproval, PastDraft
<1>10. MailWasConfirmed'
  BY <1>0, <1>3, <1>4, <1>5 DEF IInv, MailWasConfirmed
<1>11. UnhashedNeverMailed'
  BY <1>0, <1>4, <1>5 DEF IInv, UnhashedNeverMailed
<1> QED  BY <1>6, <1>7, <1>8, <1>9, <1>10, <1>11 DEF IInv

(* The three updates after the dispatch, and the one of the failed branch.  *)
(* Their rows exist, so each update is of one field of one row.             *)
LEMMA MarkUsedKeeps ==
  ASSUME IInv, NEW s \in Senders, MarkUsed(s)
  PROVE  IInv'
<1> DEFINE a == senders[s].approval
           row == [approvals[a] EXCEPT !.used = TRUE]
<1>0. /\ senders \in [Senders -> SenderState] /\ senders[s].pc = "markUsed"
      /\ approvals \in [Approvals -> ApprovalRow \union {NoRow}]
      /\ a \in Approvals /\ approvals[a] \in ApprovalRow
      /\ UNCHANGED <<now, drafts, attempts, viewed, mail, editors, askers, confirmers>>
  BY DEF MarkUsed, IInv, TypeOK, RowsExist
<1>1. /\ row \in ApprovalRow /\ row # NoRow /\ row.draft = approvals[a].draft
      /\ row.hash = approvals[a].hash /\ row.status = approvals[a].status
  BY <1>0, NoRowAssumption DEF ApprovalRow
<1>2. approvals' = [approvals EXCEPT ![a] = row]
  BY DEF MarkUsed
<1> HIDE DEF row, a
<1>3. /\ approvals' \in [Approvals -> ApprovalRow \union {NoRow}]
      /\ \A x \in Approvals : x # a => approvals'[x] = approvals[x]
      /\ approvals'[a] = row
  BY <1>0, <1>1, <1>2
<1>4. /\ senders' \in [Senders -> SenderState]
      /\ \A x \in Senders : x # s => senders'[x] = senders[x]
      /\ senders'[s].pc = "markDraft"
      /\ senders'[s].draft = senders[s].draft
      /\ senders'[s].approval = senders[s].approval
      /\ senders'[s].key = senders[s].key
      /\ senders'[s].seen = senders[s].seen
      /\ senders'[s].owner = senders[s].owner
  BY <1>0, GotoFields DEF MarkUsed
<1>5. TypeOK'
  BY <1>0, <1>3, <1>4 DEF IInv, TypeOK
<1>6. RowsExist'
  <2>1. \A x \in Approvals : /\ approvals'[x] # NoRow <=> approvals[x] # NoRow
                             /\ approvals'[x].draft = approvals[x].draft
    BY <1>0, <1>1, <1>3, NoRowAssumption
  <2> QED  BY <1>0, <1>4, <2>1 DEF IInv, RowsExist
<1>7. OwnersHaveAttempts'
  BY <1>0, <1>4 DEF IInv, OwnersHaveAttempts, PastDraft
<1>8. ChecksHold'
  <2>1. \A x \in Senders : x # s => ChecksHold!(x)'
    BY <1>0, <1>1, <1>3, <1>4 DEF IInv, RowsExist, ChecksHold, PastApproval, PastDraft
  <2>2. ChecksHold!(s)'
    BY <1>0, <1>1, <1>3, <1>4 DEF IInv, RowsExist, ChecksHold, PastApproval, PastDraft
  <2> QED  BY <2>1, <2>2 DEF ChecksHold
<1>9. MailWasConfirmed'
  BY <1>0, <1>1, <1>3 DEF IInv, TypeOK, Message, MailWasConfirmed
<1>10. UnhashedNeverMailed'
  BY <1>0 DEF IInv, UnhashedNeverMailed
<1> QED  BY <1>5, <1>6, <1>7, <1>8, <1>9, <1>10 DEF IInv

LEMMA MarkDraftKeeps ==
  ASSUME IInv, NEW s \in Senders, MarkDraft(s)
  PROVE  IInv'
<1> DEFINE d == senders[s].draft
           row == [drafts[d] EXCEPT !.status = "sent"]
<1>0. /\ senders \in [Senders -> SenderState] /\ senders[s].pc = "markDraft"
      /\ drafts \in [Drafts -> DraftRow \union {NoRow}]
      /\ d \in Drafts /\ drafts[d] \in DraftRow /\ senders[s].key \in Keys
      /\ UNCHANGED <<now, approvals, attempts, viewed, mail, editors, askers, confirmers>>
  BY DEF MarkDraft, IInv, TypeOK, RowsExist
<1>1. row \in DraftRow /\ row # NoRow
  BY <1>0, NoRowAssumption DEF DraftRow
<1>2. drafts' = [drafts EXCEPT ![d] = row]
  BY DEF MarkDraft
<1> HIDE DEF row, d
<1>3. /\ drafts' \in [Drafts -> DraftRow \union {NoRow}]
      /\ \A x \in Drafts : drafts[x] # NoRow => drafts'[x] # NoRow
  BY <1>0, <1>1, <1>2
<1>4. /\ senders' \in [Senders -> SenderState]
      /\ \A x \in Senders : x # s => senders'[x] = senders[x]
      /\ \/ /\ senders'[s].pc = "markAttempt"
            /\ senders'[s].draft = senders[s].draft
            /\ senders'[s].approval = senders[s].approval
            /\ senders'[s].key = senders[s].key
            /\ senders'[s].seen = senders[s].seen
            /\ senders'[s].owner /\ senders[s].owner
         \/ senders'[s].pc = "ok" /\ senders'[s].owner = FALSE
  <2>1. CASE senders[s].owner
    BY <1>0, <2>1, GotoFields DEF MarkDraft
  <2>2. CASE ~senders[s].owner
    BY <1>0, <2>2, EndFields DEF MarkDraft, Succeed
  <2> QED  BY <2>1, <2>2
<1>5. TypeOK'
  BY <1>0, <1>3, <1>4 DEF IInv, TypeOK
<1>6. RowsExist'
  <2>1. \A a \in Approvals : approvals[a] # NoRow => approvals[a].draft \in Drafts
    BY DEF IInv, TypeOK, ApprovalRow
  <2> QED  BY <1>0, <1>3, <1>4, <2>1 DEF IInv, RowsExist
<1>7. OwnersHaveAttempts'
  BY <1>0, <1>4 DEF IInv, OwnersHaveAttempts, PastDraft
<1>8. ChecksHold'
  BY <1>0, <1>4 DEF IInv, ChecksHold, PastApproval, PastDraft
<1>9. MailWasConfirmed' /\ UnhashedNeverMailed'
  BY <1>0 DEF IInv, MailWasConfirmed, UnhashedNeverMailed
<1> QED  BY <1>5, <1>6, <1>7, <1>8, <1>9 DEF IInv

LEMMA AttemptUpdateKeeps ==
  ASSUME IInv, NEW s \in Senders, senders[s].owner, NEW status \in AttemptStatus,
         attempts' = [attempts EXCEPT ![senders[s].key].status = status],
         Fail(s) \/ Succeed(s),
         UNCHANGED <<now, drafts, approvals, viewed, mail, editors, askers, confirmers>>
  PROVE  IInv'
<1> DEFINE k == senders[s].key
           row == [attempts[k] EXCEPT !.status = status]
<1>0. /\ senders \in [Senders -> SenderState]
      /\ attempts \in [Keys -> AttemptRow \union {NoRow}]
      /\ k \in Keys /\ attempts[k] \in AttemptRow
  BY DEF IInv, TypeOK, RowsExist, OwnersHaveAttempts, PastDraft
<1>1. row \in AttemptRow /\ row # NoRow
  BY <1>0, NoRowAssumption DEF AttemptRow, AttemptStatus
<1>2. attempts' = [attempts EXCEPT ![k] = row]
  OBVIOUS
<1> HIDE DEF row, k
<1>3. /\ attempts' \in [Keys -> AttemptRow \union {NoRow}]
      /\ \A x \in Keys : attempts[x] # NoRow => attempts'[x] # NoRow
  BY <1>0, <1>1, <1>2
<1>4. /\ senders' \in [Senders -> SenderState]
      /\ \A x \in Senders : x # s => senders'[x] = senders[x]
      /\ senders'[s].pc \in Ended /\ senders'[s].owner = FALSE
  BY <1>0, EndFields DEF Fail, Succeed, k
<1>5. TypeOK'
  BY <1>3, <1>4 DEF IInv, TypeOK
<1>6. RowsExist'
  BY <1>4 DEF IInv, RowsExist
<1>7. OwnersHaveAttempts'
  BY <1>3, <1>4 DEF IInv, OwnersHaveAttempts, RowsExist, PastDraft
<1>8. ChecksHold'
  BY <1>4 DEF IInv, ChecksHold, PastApproval, PastDraft
<1>9. MailWasConfirmed' /\ UnhashedNeverMailed'
  BY DEF IInv, MailWasConfirmed, UnhashedNeverMailed
<1> QED  BY <1>5, <1>6, <1>7, <1>8, <1>9 DEF IInv

(* The steps with which a request ends, whatever they write. *)
LEMMA SenderEndsKeep ==
  ASSUME IInv, NEW s \in Senders,
         PollAnswered(s) \/ SendCrash(s) \/ MarkAttempt(s) \/ MarkFailed(s)
  PROVE  IInv'
<1>1. CASE PollAnswered(s) \/ SendCrash(s)
  BY <1>1, FailOrSucceedKeeps DEF PollAnswered, SendCrash
<1>2. CASE MarkAttempt(s)
  <2>1. senders[s].owner
    BY <1>2 DEF MarkAttempt, IInv, OwnersHaveAttempts
  <2> QED  BY <1>2, <2>1, AttemptUpdateKeeps DEF MarkAttempt, AttemptStatus
<1>3. CASE MarkFailed(s) /\ senders[s].owner
  BY <1>3, AttemptUpdateKeeps DEF MarkFailed, AttemptStatus
<1>4. CASE MarkFailed(s) /\ ~senders[s].owner
  BY <1>4, FailOrSucceedKeeps DEF MarkFailed, OnlySender
<1> QED  BY <1>1, <1>2, <1>3, <1>4

(* A draft may change in any way: no later step trusts more of it than its *)
(* being there.                                                            *)
LEMMA DraftChangeKeeps ==
  ASSUME IInv, NEW d \in Drafts, NEW row \in DraftRow, drafts' = [drafts EXCEPT ![d] = row],
         editors' \in [Editors -> EditorState],
         \A e \in Editors : editors'[e].pc # Idle => editors'[e] = editors[e],
         UNCHANGED <<now, approvals, attempts, viewed, mail, askers, confirmers, senders>>
  PROVE  IInv'
<1>1. /\ drafts' \in [Drafts -> DraftRow \union {NoRow}]
      /\ \A x \in Drafts : drafts[x] # NoRow => drafts'[x] # NoRow
  BY NoRowAssumption DEF IInv, TypeOK
<1>2. TypeOK'
  BY <1>1 DEF IInv, TypeOK
<1>3. RowsExist'
  <2>1. \A a \in Approvals : approvals[a] # NoRow => approvals[a].draft \in Drafts
    BY DEF IInv, TypeOK, ApprovalRow
  <2> QED  BY <1>1, <2>1 DEF IInv, RowsExist
<1>4. OwnersHaveAttempts' /\ ChecksHold'
  BY DEF IInv, OwnersHaveAttempts, ChecksHold
<1>5. MailWasConfirmed' /\ UnhashedNeverMailed'
  BY DEF IInv, MailWasConfirmed, UnhashedNeverMailed
<1> QED  BY <1>2, <1>3, <1>4, <1>5 DEF IInv

LEMMA CreateDraftKeeps ==
  ASSUME IInv, NEW d \in Drafts, NEW p \in Payload, CreateDraft(d, p)
  PROVE  IInv'
<1>1. [payload |-> p, status |-> "draft"] \in DraftRow
  BY DEF DraftRow
<1> QED  BY <1>1, DraftChangeKeeps DEF CreateDraft, IInv, TypeOK

LEMMA EditorKeeps ==
  ASSUME IInv, NEW e \in Editors, EditorNext(e)
  PROVE  IInv'
<1>0. /\ editors \in [Editors -> EditorState] /\ IdleEditor \in EditorState /\ IdleEditor.pc = Idle
      /\ editors[e].pc # Idle =>
           editors[e].draft \in Drafts /\ drafts[editors[e].draft] \in DraftRow
  BY DEF IInv, TypeOK, RowsExist, EditorState, IdleEditor
<1>1. CASE \E d \in Drafts : EditRead(e, d) \/ SignRead(e, d)
  <2>1. PICK d \in Drafts, pc \in {"edit", "sign"} :
          /\ drafts[d] # NoRow
          /\ editors' = [editors EXCEPT ![e] = [pc |-> pc, draft |-> d]]
          /\ UNCHANGED <<now, drafts, approvals, attempts, viewed, mail, askers, confirmers, senders>>
    BY <1>1 DEF EditRead, SignRead
  <2>2. TypeOK'
    BY <2>1 DEF IInv, TypeOK, EditorState
  <2>3. RowsExist'
    BY <2>1, <1>0 DEF IInv, RowsExist
  <2>4. OwnersHaveAttempts' /\ ChecksHold' /\ MailWasConfirmed' /\ UnhashedNeverMailed'
    BY <2>1 DEF IInv, OwnersHaveAttempts, ChecksHold, MailWasConfirmed, UnhashedNeverMailed
  <2> QED  BY <2>2, <2>3, <2>4 DEF IInv
<1>2. CASE \E p \in Payload : EditWrite(e, p)
  <2>1. PICK p \in Payload : EditWrite(e, p)
    BY <1>2
  <2>2. [payload |-> p, status |-> "draft"] \in DraftRow
    BY DEF DraftRow
  <2>3. editors[e].draft \in Drafts
    BY <2>1, <1>0 DEF EditWrite
  <2> QED  BY <2>1, <2>2, <2>3, <1>0, DraftChangeKeeps DEF EditWrite
<1>3. CASE \E t \in Texts : SignWrite(e, t)
  <2>1. PICK t \in Texts : SignWrite(e, t)
    BY <1>3
  <2> DEFINE d == editors[e].draft
             row == [drafts[d] EXCEPT !.payload = [@ EXCEPT !.text = t]]
  <2>2. d \in Drafts /\ row \in DraftRow
    BY <2>1, <1>0 DEF SignWrite, DraftRow, Payload
  <2>3. drafts' = [drafts EXCEPT ![d] = row]
    BY <2>1 DEF SignWrite
  <2> HIDE DEF d, row
  <2> QED  BY <2>1, <2>2, <2>3, <1>0, DraftChangeKeeps DEF SignWrite
<1> QED  BY <1>1, <1>2, <1>3 DEF EditorNext

LEMMA AskerKeeps ==
  ASSUME IInv, NEW q \in Askers, AskerNext(q)
  PROVE  IInv'
<1>0. /\ askers \in [Askers -> AskerState] /\ IdleAsker \in AskerState /\ IdleAsker.pc = Idle
  BY DEF IInv, TypeOK, AskerState, IdleAsker
<1>1. CASE \E d \in Drafts : AskRead(q, d)
  <2>1. PICK d \in Drafts : AskRead(q, d)
    BY <1>1
  <2>2. drafts[d].payload \in Payload
    BY <2>1 DEF AskRead, IInv, TypeOK, DraftRow
  <2>3. TypeOK'
    BY <2>1, <2>2 DEF IInv, TypeOK, AskRead, AskerState
  <2>4. RowsExist'
    BY <2>1, <2>2, <1>0 DEF IInv, RowsExist, AskRead
  <2>5. OwnersHaveAttempts' /\ ChecksHold' /\ MailWasConfirmed' /\ UnhashedNeverMailed'
    BY <2>1 DEF AskRead, IInv, OwnersHaveAttempts, ChecksHold, MailWasConfirmed, UnhashedNeverMailed
  <2> QED  BY <2>3, <2>4, <2>5 DEF IInv
<1>2. CASE \E a \in Approvals : AskInsert(q, a)
  <2>1. PICK a \in Approvals : AskInsert(q, a)
    BY <1>2
  <2> DEFINE row == [draft |-> askers[q].draft, hash |-> HashOf(askers[q].seen),
                     status |-> "pending", expiresAt |-> now + Validity, used |-> FALSE]
  <2>2. /\ askers[q].draft \in Drafts /\ drafts[askers[q].draft] # NoRow
        /\ row \in ApprovalRow /\ row.draft = askers[q].draft
    BY <2>1, TimeAssumption DEF AskInsert, IInv, TypeOK, RowsExist, ApprovalRow, HashOf, Payload
  <2>3. /\ approvals[a] = NoRow /\ approvals' = [approvals EXCEPT ![a] = row]
        /\ askers' = [askers EXCEPT ![q] = IdleAsker]
        /\ UNCHANGED <<now, drafts, attempts, viewed, mail, editors, confirmers, senders>>
    BY <2>1 DEF AskInsert
  <2> HIDE DEF row
  <2>4. /\ approvals \in [Approvals -> ApprovalRow \union {NoRow}]
        /\ \A x \in Approvals : x # a => approvals'[x] = approvals[x]
        /\ approvals'[a] = row
    BY <2>3 DEF IInv, TypeOK
  <2>5. TypeOK'
    BY <2>2, <2>3, <1>0 DEF IInv, TypeOK
  <2>6. RowsExist'
    <3>1. row # NoRow
      BY <2>2, NoRowAssumption
    <3> QED  BY <3>1, <2>2, <2>3, <2>4, <1>0 DEF IInv, RowsExist
  <2>7. OwnersHaveAttempts'
    BY <2>3 DEF IInv, OwnersHaveAttempts
  <2>8. ChecksHold'
    BY <2>3, <2>4 DEF IInv, RowsExist, ChecksHold, PastApproval, PastDraft
  <2>9. MailWasConfirmed' /\ UnhashedNeverMailed'
    BY <2>3, <2>4 DEF IInv, TypeOK, Message, MailWasConfirmed, UnhashedNeverMailed
  <2> QED  BY <2>5, <2>6, <2>7, <2>8, <2>9 DEF IInv
<1>3. CASE AskLost(q)
  <2>1. TypeOK' /\ RowsExist'
    BY <1>3, <1>0 DEF IInv, TypeOK, RowsExist, AskLost
  <2>2. OwnersHaveAttempts' /\ ChecksHold' /\ MailWasConfirmed' /\ UnhashedNeverMailed'
    BY <1>3 DEF AskLost, IInv, OwnersHaveAttempts, ChecksHold, MailWasConfirmed, UnhashedNeverMailed
  <2> QED  BY <2>1, <2>2 DEF IInv
<1> QED  BY <1>1, <1>2, <1>3 DEF AskerNext

(* The confirmation takes an approval forward and changes nothing else of it. *)
LEMMA ConfirmCasKeeps ==
  ASSUME IInv, NEW c \in Confirmers, ConfirmCas(c)
  PROVE  IInv'
<1> DEFINE a == confirmers[c].approval
           row == [approvals[a] EXCEPT !.status = "confirmed"]
<1>0. /\ confirmers \in [Confirmers -> ConfirmerState] /\ confirmers[c].pc = "cas"
      /\ approvals \in [Approvals -> ApprovalRow \union {NoRow}]
      /\ a \in Approvals /\ approvals[a] \in ApprovalRow
      /\ UNCHANGED <<now, drafts, attempts, viewed, mail, editors, askers, senders>>
  BY DEF ConfirmCas, IInv, TypeOK, RowsExist
<1>1. /\ row \in ApprovalRow /\ row # NoRow /\ row.draft = approvals[a].draft
      /\ row.hash = approvals[a].hash /\ row.status = "confirmed"
  BY <1>0, NoRowAssumption DEF ApprovalRow
<1>2. approvals' = approvals \/ approvals' = [approvals EXCEPT ![a] = row]
  BY DEF ConfirmCas
<1> HIDE DEF row, a
<1>3. approvals' \in [Approvals -> ApprovalRow \union {NoRow}]
  BY <1>0, <1>1, <1>2
<1>others. \A x \in Approvals : x # a => approvals'[x] = approvals[x]
  BY <1>0, <1>2
<1>this. approvals'[a] = approvals[a] \/ approvals'[a] = row
  BY <1>0, <1>2
<1>rows. \A x \in Approvals :
           /\ approvals'[x] # NoRow <=> approvals[x] # NoRow
           /\ approvals'[x].draft = approvals[x].draft
  BY <1>0, <1>1, <1>others, <1>this, NoRowAssumption
<1>hashes. \A x \in Approvals :
             /\ approvals'[x].hash = approvals[x].hash
             /\ approvals[x].status = "confirmed" => approvals'[x].status = "confirmed"
  BY <1>1, <1>others, <1>this
<1>4. /\ confirmers' \in [Confirmers -> ConfirmerState]
      /\ \A x \in Confirmers : x # c => confirmers'[x] = confirmers[x]
      /\ confirmers'[c].pc \in Ended
  <2>1. confirmers' = [confirmers EXCEPT ![c] = [@ EXCEPT !.pc = "ok"]]
          \/ confirmers' = [confirmers EXCEPT ![c] = RefusedConfirmer]
    BY DEF ConfirmCas
  <2>2. /\ [confirmers[c] EXCEPT !.pc = "ok"] \in ConfirmerState
        /\ [confirmers[c] EXCEPT !.pc = "ok"].pc = "ok"
    BY <1>0 DEF ConfirmerState
  <2>3. RefusedConfirmer \in ConfirmerState /\ RefusedConfirmer.pc = "error"
    BY DEF ConfirmerState, RefusedConfirmer, IdleConfirmer
  <2> QED  BY <1>0, <2>1, <2>2, <2>3
<1>5. TypeOK'
  BY <1>0, <1>3, <1>4 DEF IInv, TypeOK
<1>6. RowsExist'
  BY <1>0, <1>rows, <1>4 DEF IInv, RowsExist
<1>7. OwnersHaveAttempts'
  BY <1>0 DEF IInv, OwnersHaveAttempts
<1>8. ChecksHold'
  BY <1>0, <1>hashes DEF IInv, RowsExist, ChecksHold, PastApproval, PastDraft
<1>9. MailWasConfirmed'
  BY <1>0, <1>rows, <1>hashes DEF IInv, TypeOK, Message, MailWasConfirmed
<1>10. UnhashedNeverMailed'
  BY <1>0 DEF IInv, UnhashedNeverMailed
<1> QED  BY <1>5, <1>6, <1>7, <1>8, <1>9, <1>10 DEF IInv

(* The other steps of a confirmation only change its own record. *)
LEMMA ConfirmerMovesKeep ==
  ASSUME IInv, NEW c \in Confirmers,
         \/ \E a \in Approvals, n \in KnownNonces : ConfirmRead(c, a, n)
         \/ ConfirmHash(c)
         \/ ConfirmCrash(c)
  PROVE  IInv'
<1>0. confirmers \in [Confirmers -> ConfirmerState] /\ KnownNonces \subseteq Approvals
  BY DEF IInv, TypeOK, KnownNonces
<1>1. UNCHANGED <<now, drafts, approvals, attempts, viewed, mail, editors, askers, senders>>
  BY DEF ConfirmRead, ConfirmHash, ConfirmCrash
<1>2. /\ confirmers' \in [Confirmers -> ConfirmerState]
      /\ \A x \in Confirmers : x # c => confirmers'[x] = confirmers[x]
      /\ confirmers'[c].pc \in {"hash", "cas"} =>
           confirmers'[c].approval \in Approvals /\ approvals[confirmers'[c].approval] # NoRow
  <2>0. RefusedConfirmer \in ConfirmerState /\ RefusedConfirmer.pc = "error"
    BY DEF ConfirmerState, RefusedConfirmer, IdleConfirmer
  <2>1. CASE \E a \in Approvals, n \in KnownNonces : ConfirmRead(c, a, n)
    <3>1. PICK a \in Approvals, n \in KnownNonces : ConfirmRead(c, a, n)
      BY <2>1
    <3> DEFINE new == [pc |-> "hash", approval |-> a, nonce |-> n, at |-> now]
    <3>2. new \in ConfirmerState /\ new.approval = a /\ approvals[a] # NoRow
      BY <1>0, <3>1 DEF ConfirmRead, ConfirmerState, IInv, TypeOK
    <3>3. confirmers' = [confirmers EXCEPT ![c] = new]
            \/ confirmers' = [confirmers EXCEPT ![c] = RefusedConfirmer]
      BY <3>1 DEF ConfirmRead
    <3> HIDE DEF new
    <3> QED  BY <1>0, <2>0, <3>2, <3>3
  <2>2. CASE ConfirmHash(c)
    <3> DEFINE new == [confirmers[c] EXCEPT !.pc = "cas"]
    <3>1. /\ new \in ConfirmerState /\ new.approval = confirmers[c].approval
          /\ confirmers[c].approval \in Approvals /\ approvals[confirmers[c].approval] # NoRow
      BY <1>0, <2>2 DEF ConfirmHash, ConfirmerState, IInv, RowsExist
    <3>2. confirmers' = [confirmers EXCEPT ![c] = new]
            \/ confirmers' = [confirmers EXCEPT ![c] = RefusedConfirmer]
      BY <2>2 DEF ConfirmHash
    <3> HIDE DEF new
    <3> QED  BY <1>0, <2>0, <3>1, <3>2
  <2>3. CASE ConfirmCrash(c)
    BY <1>0, <2>0, <2>3 DEF ConfirmCrash
  <2> QED  BY <2>1, <2>2, <2>3
<1>3. TypeOK'
  BY <1>1, <1>2 DEF IInv, TypeOK
<1>4. RowsExist'
  BY <1>1, <1>2 DEF IInv, RowsExist
<1>5. OwnersHaveAttempts' /\ ChecksHold' /\ MailWasConfirmed' /\ UnhashedNeverMailed'
  BY <1>1 DEF IInv, OwnersHaveAttempts, ChecksHold, MailWasConfirmed, UnhashedNeverMailed
<1> QED  BY <1>3, <1>4, <1>5 DEF IInv

(* What a human sees and the clock are read by nothing the invariant names. *)
LEMMA ReviewAndTickKeep ==
  ASSUME IInv, Tick \/ \E a \in Approvals : Review(a)
  PROVE  IInv'
<1>1. UNCHANGED <<drafts, approvals, attempts, mail, editors, askers, confirmers, senders>>
  BY DEF Tick, Review, tables
<1>2. CASE Tick
  <2>1. now' \in 0..MaxTime /\ viewed' = viewed
    BY <1>2, TimeAssumption DEF Tick, IInv, TypeOK
  <2> QED  BY <1>1, <2>1 DEF IInv, TypeOK, RowsExist, OwnersHaveAttempts, ChecksHold,
                             MailWasConfirmed, UnhashedNeverMailed
<1>3. CASE \E a \in Approvals : Review(a)
  <2>1. PICK a \in Approvals : Review(a)
    BY <1>3
  <2>2. drafts[approvals[a].draft].payload.text \in Texts
    BY <2>1 DEF Review, IInv, TypeOK, RowsExist, ApprovalRow, DraftRow, Payload
  <2>3. viewed' \subseteq Approvals \X Texts /\ now' = now
    BY <2>1, <2>2 DEF Review, IInv, TypeOK
  <2> QED  BY <1>1, <2>3 DEF IInv, TypeOK, RowsExist, OwnersHaveAttempts, ChecksHold,
                             MailWasConfirmed, UnhashedNeverMailed
<1> QED  BY <1>2, <1>3

-----------------------------------------------------------------------------
LEMMA InitIInv == Init => IInv
<1> SUFFICES ASSUME Init PROVE IInv
  OBVIOUS
<1>1. /\ IdleEditor \in EditorState /\ IdleAsker \in AskerState
      /\ IdleConfirmer \in ConfirmerState /\ IdleSender \in SenderState
      /\ IdleEditor.pc = Idle /\ IdleAsker.pc = Idle /\ IdleConfirmer.pc = Idle
      /\ IdleSender.pc = Idle /\ ~IdleSender.owner
  BY DEF IdleEditor, IdleAsker, IdleConfirmer, IdleSender,
         EditorState, AskerState, ConfirmerState, SenderState, NoPayload
<1>2. TypeOK
  BY <1>1, TimeAssumption DEF Init, TypeOK
<1>3. RowsExist /\ OwnersHaveAttempts /\ ChecksHold
  BY <1>1 DEF Init, RowsExist, OwnersHaveAttempts, ChecksHold, PastApproval, PastDraft
<1>4. MailWasConfirmed /\ UnhashedNeverMailed
  BY DEF Init, MailWasConfirmed, UnhashedNeverMailed
<1> QED  BY <1>2, <1>3, <1>4 DEF IInv

LEMMA NextIInv == IInv /\ [Next]_vars => IInv'
<1> SUFFICES ASSUME IInv, [Next]_vars PROVE IInv'
  OBVIOUS
<1>1. CASE Tick \/ \E a \in Approvals : Review(a)
  BY <1>1, ReviewAndTickKeep
<1>2. CASE \E d \in Drafts, p \in Payload : CreateDraft(d, p)
  BY <1>2, CreateDraftKeeps
<1>3. CASE \E e \in Editors : EditorNext(e)
  BY <1>3, EditorKeeps
<1>4. CASE \E q \in Askers : AskerNext(q)
  BY <1>4, AskerKeeps
<1>5. CASE \E c \in Confirmers : ConfirmerNext(c)
  BY <1>5, ConfirmerMovesKeep, ConfirmCasKeeps DEF ConfirmerNext, ConfirmerStep
<1>6. CASE \E s \in Senders : SenderNext(s)
  <2>1. PICK s \in Senders : SenderNext(s)
    BY <1>6
  <2>2. CASE \E d \in Drafts, a \in Approvals, k \in Keys : SendStart(s, d, a, k)
    BY <2>2, SendStartKeeps
  <2>3. CASE SenderStep(s)
    BY <2>3, SendApprovalKeeps, SendHashKeeps, SendInsertKeeps, SenderMovesKeep,
       DispatchKeeps, MarkUsedKeeps, MarkDraftKeeps, SenderEndsKeep DEF SenderStep
  <2>4. CASE SendCrash(s)
    BY <2>4, SenderEndsKeep
  <2> QED  BY <2>1, <2>2, <2>3, <2>4 DEF SenderNext
<1>7. CASE UNCHANGED vars
  BY <1>7 DEF vars, IInv, TypeOK, RowsExist, OwnersHaveAttempts, ChecksHold,
              MailWasConfirmed, UnhashedNeverMailed
<1> QED  BY <1>1, <1>2, <1>3, <1>4, <1>5, <1>6, <1>7 DEF Next

(* Every reachable state satisfies the inductive invariant. *)
THEOREM Invariance == Spec => []IInv
BY InitIInv, NextIInv, PTL DEF Spec

(* The tables and the requests' records keep their types. *)
THEOREM TypeCorrect == Spec => []TypeOK
<1>1. IInv => TypeOK
  BY DEF IInv
<1> QED  BY <1>1, Invariance, PTL

(* Mail that left carries the hash of a confirmed approval, for any number *)
(* of concurrent edits, approvals, confirmations and sends, under crashes, *)
(* refused statements, lost answers and exhausted polls.                   *)
THEOREM MailIsConfirmed == Spec => []MailWasConfirmed
<1>1. IInv => MailWasConfirmed
  BY DEF IInv
<1> QED  BY <1>1, Invariance, PTL

(* And it never has the fields that the hash leaves out. *)
THEOREM UnhashedIsNotMailed == Spec => []UnhashedNeverMailed
<1>1. IInv => UnhashedNeverMailed
  BY DEF IInv
<1> QED  BY <1>1, Invariance, PTL

-----------------------------------------------------------------------------
(* What no step takes back: an approval stays, with its draft and its hash, *)
(* and once used or confirmed stays so; what was seen or mailed stays too.  *)
NothingTakenBack ==
  /\ \A a \in Approvals : approvals[a] # NoRow =>
       /\ approvals'[a] # NoRow
       /\ approvals'[a].draft = approvals[a].draft
       /\ approvals'[a].hash = approvals[a].hash
       /\ approvals[a].used => approvals'[a].used
       /\ approvals[a].status = "confirmed" => approvals'[a].status = "confirmed"
  /\ viewed \subseteq viewed'
  /\ mail \subseteq mail'

LEMMA ApprovalUpdate ==
  ASSUME approvals \in [Approvals -> ApprovalRow \union {NoRow}],
         NEW a \in Approvals, approvals[a] # NoRow,
         \/ approvals' = [approvals EXCEPT ![a].used = TRUE]
         \/ approvals' = [approvals EXCEPT ![a].status = "confirmed"]
  PROVE  /\ \A x \in Approvals : x # a => approvals'[x] = approvals[x]
         /\ approvals'[a] \in ApprovalRow
         /\ approvals'[a] # NoRow
         /\ approvals'[a].draft = approvals[a].draft
         /\ approvals'[a].hash = approvals[a].hash
         /\ approvals[a].used => approvals'[a].used
         /\ approvals[a].status = "confirmed" => approvals'[a].status = "confirmed"
<1> DEFINE used == [approvals[a] EXCEPT !.used = TRUE]
           confirmed == [approvals[a] EXCEPT !.status = "confirmed"]
<1>1. /\ used \in ApprovalRow /\ used.used /\ used.draft = approvals[a].draft
      /\ used.hash = approvals[a].hash /\ used.status = approvals[a].status
  BY DEF ApprovalRow
<1>2. /\ confirmed \in ApprovalRow /\ confirmed.used = approvals[a].used
      /\ confirmed.draft = approvals[a].draft
      /\ confirmed.hash = approvals[a].hash /\ confirmed.status = "confirmed"
  BY DEF ApprovalRow
<1>3. approvals' = [approvals EXCEPT ![a] = used] \/ approvals' = [approvals EXCEPT ![a] = confirmed]
  OBVIOUS
<1> HIDE DEF used, confirmed
<1> QED  BY <1>1, <1>2, <1>3, NoRowAssumption

LEMMA StepTakesNothingBack ==
  ASSUME IInv, [Next]_vars
  PROVE  NothingTakenBack
<1>0. approvals \in [Approvals -> ApprovalRow \union {NoRow}]
  BY DEF IInv, TypeOK
<1>1. CASE \E q \in Askers, a \in Approvals : AskInsert(q, a)
  BY <1>0, <1>1 DEF AskInsert, NothingTakenBack
<1>2. CASE \E c \in Confirmers : ConfirmCas(c)
  <2>1. PICK c \in Confirmers : ConfirmCas(c)
    BY <1>2
  <2>2. confirmers[c].approval \in Approvals /\ approvals[confirmers[c].approval] # NoRow
    BY <2>1 DEF ConfirmCas, IInv, RowsExist
  <2>3. CASE approvals' = approvals
    BY <2>1, <2>3 DEF ConfirmCas, NothingTakenBack
  <2>4. CASE approvals' = [approvals EXCEPT ![confirmers[c].approval].status = "confirmed"]
    BY <1>0, <2>1, <2>2, <2>4, ApprovalUpdate DEF ConfirmCas, NothingTakenBack
  <2> QED  BY <2>1, <2>3, <2>4 DEF ConfirmCas
<1>3. CASE \E s \in Senders : MarkUsed(s)
  <2>1. PICK s \in Senders : MarkUsed(s)
    BY <1>3
  <2>2. senders[s].approval \in Approvals /\ approvals[senders[s].approval] # NoRow
    BY <2>1 DEF MarkUsed, IInv, RowsExist
  <2> QED  BY <1>0, <2>1, <2>2, ApprovalUpdate DEF MarkUsed, NothingTakenBack
<1>4. CASE approvals' = approvals /\ viewed \subseteq viewed' /\ mail \subseteq mail'
  BY <1>4 DEF NothingTakenBack
<1>5. CASE \E e \in Editors : EditorNext(e)
  BY <1>4, <1>5 DEF EditorNext, EditRead, SignRead, EditWrite, SignWrite
<1>6. CASE \E q \in Askers : (\E d \in Drafts : AskRead(q, d)) \/ AskLost(q)
  BY <1>4, <1>6 DEF AskRead, AskLost
<1>7. CASE \E c \in Confirmers : \/ \E a \in Approvals, n \in KnownNonces : ConfirmRead(c, a, n)
                                 \/ ConfirmHash(c) \/ ConfirmCrash(c)
  BY <1>4, <1>7 DEF ConfirmRead, ConfirmHash, ConfirmCrash
<1>8. CASE \E s \in Senders : SenderNext(s) /\ ~MarkUsed(s)
  BY <1>4, <1>8 DEF SenderNext, SenderStep, OnlySender, SendStart, SendApproval, SendHash, SendInsert,
       SendInsertRefused, PollAnswered, PollExhausted, Dispatch, DispatchRefused, MarkDraft,
       MarkAttempt, MarkLost, MarkFailed, SendCrash
<1>9. CASE Tick \/ (\E d \in Drafts, p \in Payload : CreateDraft(d, p)) \/ (\E a \in Approvals : Review(a))
  BY <1>4, <1>9 DEF Tick, CreateDraft, Review
<1>10. CASE UNCHANGED vars
  BY <1>4, <1>10 DEF vars
<1> QED  BY <1>1, <1>2, <1>3, <1>5, <1>6, <1>7, <1>8, <1>9, <1>10
         DEF Next, AskerNext, ConfirmerNext, ConfirmerStep

-----------------------------------------------------------------------------
(* The steps of a request after the provider took its message.             *)
Sending == {"markUsed", "markDraft", "markAttempt"}
(* And those before: a request dispatches once.                            *)
Unsent == {Idle, "approval", "hash", "insert", "poll", "dispatch"}

(* An attempt is for an approval that is there, and it is its owner's: the *)
(* request that inserted it and no other.                                  *)
AttemptsAreOwned ==
  /\ \A k \in Keys : attempts[k] # NoRow => approvals[attempts[k].approval] # NoRow
  /\ \A s \in Senders : senders[s].owner =>
       /\ attempts[senders[s].key].owner = s
       /\ attempts[senders[s].key].approval = senders[s].approval

(* A request has mailed by the time it writes that it has, and not before  *)
(* it dispatches; when it settles its attempt the approval is used.        *)
MailIsInStep ==
  \A s \in Senders :
    /\ senders[s].pc \in Sending =>
         \E m \in mail : m.sender = s /\ m.key = senders[s].key
    /\ senders[s].pc \in {"markDraft", "markAttempt"} => approvals[senders[s].approval].used
    /\ senders[s].pc \in Unsent => \A m \in mail : m.sender # s

SendInv == AttemptsAreOwned /\ MailIsInStep /\ SentAttemptIsBacked /\ SuccessMeansMailed

LEMMA OthersKeepSendInv ==
  ASSUME IInv, IInv', SendInv, NothingTakenBack, UNCHANGED <<attempts, mail, senders>>
  PROVE  SendInv'
<1> USE DEF IInv, TypeOK, AttemptRow, RowsExist, SendInv, NothingTakenBack
<1>1. AttemptsAreOwned'
  BY DEF AttemptsAreOwned
<1>2. MailIsInStep'
  BY DEF MailIsInStep
<1>3. SentAttemptIsBacked'
  BY DEF SentAttemptIsBacked, AttemptsAreOwned
<1>4. SuccessMeansMailed'
  BY DEF SuccessMeansMailed
<1> QED  BY <1>1, <1>2, <1>3, <1>4

LEMMA MoveKeepsSendInv ==
  ASSUME IInv, IInv', SendInv, NothingTakenBack, NEW s \in Senders, NEW pc \in SenderPcs \ Sending,
         senders[s].pc \in SenderPcs, Goto(s, pc), OnlySender,
         pc \in Unsent => senders[s].pc \in Unsent
  PROVE  SendInv'
<1>1. /\ \A x \in Senders : x # s => senders'[x] = senders[x]
      /\ senders'[s].pc = pc
      /\ senders'[s].approval = senders[s].approval
      /\ senders'[s].key = senders[s].key
      /\ senders'[s].owner = senders[s].owner
  BY GotoFields DEF IInv, TypeOK
<1>2. UNCHANGED <<attempts, approvals, mail>>
  BY DEF OnlySender
<1>3. AttemptsAreOwned'
  BY <1>1, <1>2 DEF SendInv, AttemptsAreOwned
<1>4. MailIsInStep'
  BY <1>1, <1>2 DEF SendInv, MailIsInStep, Sending
<1>5. SentAttemptIsBacked' /\ SuccessMeansMailed'
  BY <1>1, <1>2 DEF SendInv, SentAttemptIsBacked, SuccessMeansMailed
<1> QED  BY <1>3, <1>4, <1>5 DEF SendInv

LEMMA EndKeepsSendInv ==
  ASSUME IInv, IInv', SendInv, NEW s \in Senders, NEW pc \in Ended, NEW k \in Keys,
         End(s, pc, k), OnlySender,
         pc = "ok" => \E m \in mail : m.key = k
  PROVE  SendInv'
<1>1. senders' = [senders EXCEPT ![s] = [IdleSender EXCEPT !.pc = pc, !.key = k]]
  BY DEF End
<1>2. /\ \A x \in Senders : x # s => senders'[x] = senders[x]
      /\ senders'[s].pc = pc /\ senders'[s].owner = FALSE /\ senders'[s].key = k
  BY <1>1 DEF IInv, TypeOK, IdleSender
<1>3. UNCHANGED <<attempts, approvals, mail>>
  BY DEF OnlySender
<1>4. AttemptsAreOwned'
  BY <1>2, <1>3 DEF SendInv, AttemptsAreOwned
<1>5. MailIsInStep'
  BY <1>2, <1>3 DEF SendInv, MailIsInStep, Sending, Unsent
<1>6. SentAttemptIsBacked' /\ SuccessMeansMailed'
  BY <1>2, <1>3 DEF SendInv, SentAttemptIsBacked, SuccessMeansMailed
<1> QED  BY <1>4, <1>5, <1>6 DEF SendInv

(* A key whose attempt is sent answers for a message that went out.        *)
LEMMA AnsweredIsMailed ==
  ASSUME SendInv, NEW k \in Keys, AnsweredByAttempt(k)
  PROVE  \E m \in mail : m.key = k
BY DEF SendInv, SentAttemptIsBacked, AnsweredByAttempt

LEMMA SendStartKeepsSendInv ==
  ASSUME IInv, IInv', SendInv, NEW s \in Senders, NEW d \in Drafts, NEW a \in Approvals,
         NEW k \in Keys, SendStart(s, d, a, k)
  PROVE  SendInv'
<1>1. CASE AnsweredByAttempt(k)
  BY <1>1, AnsweredIsMailed, EndKeepsSendInv DEF SendStart
<1>2. CASE ~AnsweredByAttempt(k)
  <2>1. senders' = [senders EXCEPT ![s] =
          [IdleSender EXCEPT !.pc = "approval", !.draft = d, !.approval = a, !.key = k]]
    BY <1>2 DEF SendStart
  <2>2. /\ \A x \in Senders : x # s => senders'[x] = senders[x]
        /\ senders'[s].pc = "approval" /\ senders'[s].owner = FALSE
        /\ senders[s].pc = Idle
        /\ UNCHANGED <<attempts, approvals, mail>>
    BY <2>1 DEF IInv, TypeOK, IdleSender, SendStart, OnlySender
  <2> QED  BY <2>2 DEF SendInv, AttemptsAreOwned, MailIsInStep, SentAttemptIsBacked,
                     SuccessMeansMailed, Sending, Unsent
<1> QED  BY <1>1, <1>2

LEMMA ChecksKeepSendInv ==
  ASSUME IInv, IInv', SendInv, NothingTakenBack, NEW s \in Senders, SendApproval(s) \/ SendHash(s)
  PROVE  SendInv'
<1>0. /\ senders[s].pc \in {"approval", "hash"} /\ senders[s].key \in Keys /\ OnlySender
      /\ senders \in [Senders -> SenderState]
  BY DEF SendApproval, SendHash, IInv, TypeOK, RowsExist
<1>1. CASE Fail(s)
  BY <1>0, <1>1, EndKeepsSendInv DEF Fail
<1>2. CASE Goto(s, "hash") /\ SendApproval(s)
  BY <1>0, <1>2, MoveKeepsSendInv DEF SendApproval, Unsent, Sending
<1>3. CASE senders' = [senders EXCEPT ![s].pc = "insert",
                                      ![s].seen = drafts[senders[s].draft].payload]
  <2>1. /\ \A x \in Senders : x # s => senders'[x] = senders[x]
        /\ senders'[s].pc = "insert" /\ senders'[s].owner = senders[s].owner
        /\ senders'[s].key = senders[s].key /\ senders'[s].approval = senders[s].approval
    <3> DEFINE new == [senders[s] EXCEPT !.pc = "insert", !.seen = drafts[senders[s].draft].payload]
    <3>1. /\ new.pc = "insert" /\ new.owner = senders[s].owner
          /\ new.key = senders[s].key /\ new.approval = senders[s].approval
      BY <1>0 DEF SenderState
    <3>2. senders' = [senders EXCEPT ![s] = new]
      BY <1>3
    <3> HIDE DEF new
    <3> QED  BY <1>0, <3>1, <3>2
  <2>2. UNCHANGED <<attempts, approvals, mail>>
    BY <1>0 DEF OnlySender
  <2> QED  BY <1>0, <2>1, <2>2 DEF SendInv, AttemptsAreOwned, MailIsInStep, SentAttemptIsBacked,
                                 SuccessMeansMailed, Sending, Unsent
<1> QED  BY <1>1, <1>2, <1>3 DEF SendApproval, SendHash

LEMMA SendInsertKeepsSendInv ==
  ASSUME IInv, IInv', SendInv, NEW s \in Senders, SendInsert(s)
  PROVE  SendInv'
<1> DEFINE k == senders[s].key
<1>0. /\ senders \in [Senders -> SenderState] /\ k \in Keys /\ senders[s].pc = "insert"
      /\ attempts[k] = NoRow /\ UNCHANGED <<approvals, mail>>
      /\ senders[s].approval \in Approvals /\ approvals[senders[s].approval] # NoRow
      /\ attempts \in [Keys -> AttemptRow \union {NoRow}]
  BY DEF SendInsert, KeyFree, IInv, TypeOK, RowsExist
<1>1. /\ \A x \in Senders : x # s => senders'[x] = senders[x]
      /\ senders'[s].pc = "dispatch"
      /\ senders'[s].key = k /\ senders'[s].approval = senders[s].approval
  <2> DEFINE new == [senders[s] EXCEPT !.pc = "dispatch", !.owner = TRUE]
  <2>1. new.pc = "dispatch" /\ new.key = k /\ new.approval = senders[s].approval
    BY <1>0 DEF SenderState
  <2>2. senders' = [senders EXCEPT ![s] = new]
    BY DEF SendInsert
  <2> HIDE DEF new
  <2> QED  BY <1>0, <2>1, <2>2
<1>2. /\ \A x \in Keys : x # k => attempts'[x] = attempts[x]
      /\ attempts'[k].owner = s /\ attempts'[k].approval = senders[s].approval
      /\ attempts'[k].status = "in_progress"
  BY <1>0 DEF SendInsert
<1>3. \A x \in Senders \ {s} : senders[x].owner => senders[x].key # k /\ senders[x].key \in Keys
  BY <1>0 DEF IInv, OwnersHaveAttempts, RowsExist, PastDraft
<1> HIDE DEF k
<1>4. AttemptsAreOwned'
  BY <1>0, <1>1, <1>2, <1>3 DEF SendInv, AttemptsAreOwned
<1>5. MailIsInStep'
  BY <1>0, <1>1 DEF SendInv, MailIsInStep, Sending, Unsent
<1>6. SentAttemptIsBacked'
  BY <1>0, <1>2 DEF SendInv, SentAttemptIsBacked
<1>7. SuccessMeansMailed'
  BY <1>0, <1>1 DEF SendInv, SuccessMeansMailed
<1> QED  BY <1>4, <1>5, <1>6, <1>7 DEF SendInv

LEMMA DispatchKeepsSendInv ==
  ASSUME IInv, IInv', SendInv, NEW s \in Senders, Dispatch(s)
  PROVE  SendInv'
<1>0. /\ senders \in [Senders -> SenderState] /\ senders[s].pc = "dispatch"
      /\ UNCHANGED <<attempts, approvals>> /\ mail' = mail \union {MessageOf(s)}
      /\ MessageOf(s).sender = s /\ MessageOf(s).key = senders[s].key
  BY DEF Dispatch, IInv, TypeOK, MessageOf
<1>1. PICK pc \in {"markUsed", "markFailed"} : Goto(s, pc)
  BY DEF Dispatch
<1>2. /\ \A x \in Senders : x # s => senders'[x] = senders[x]
      /\ senders'[s].pc = pc
      /\ senders'[s].approval = senders[s].approval
      /\ senders'[s].key = senders[s].key
      /\ senders'[s].owner = senders[s].owner
  BY <1>0, <1>1, GotoFields
<1>3. AttemptsAreOwned'
  BY <1>0, <1>2 DEF SendInv, AttemptsAreOwned
<1>4. MailIsInStep'
  BY <1>0, <1>2 DEF SendInv, MailIsInStep, Sending, Unsent
<1>5. SentAttemptIsBacked' /\ SuccessMeansMailed'
  BY <1>0, <1>2 DEF SendInv, SentAttemptIsBacked, SuccessMeansMailed
<1> QED  BY <1>3, <1>4, <1>5 DEF SendInv

LEMMA MarkUsedKeepsSendInv ==
  ASSUME IInv, IInv', SendInv, NothingTakenBack, NEW s \in Senders, MarkUsed(s)
  PROVE  SendInv'
<1>0. /\ senders \in [Senders -> SenderState] /\ senders[s].pc = "markUsed"
      /\ UNCHANGED <<attempts, mail>>
      /\ senders[s].approval \in Approvals /\ approvals[senders[s].approval] \in ApprovalRow
      /\ approvals \in [Approvals -> ApprovalRow \union {NoRow}]
  BY DEF MarkUsed, IInv, TypeOK, RowsExist
<1>1. /\ \A x \in Senders : x # s => senders'[x] = senders[x]
      /\ senders'[s].pc = "markDraft"
      /\ senders'[s].approval = senders[s].approval
      /\ senders'[s].key = senders[s].key
      /\ senders'[s].owner = senders[s].owner
  BY <1>0, GotoFields DEF MarkUsed
<1>2. approvals'[senders[s].approval].used
  <2> DEFINE row == [approvals[senders[s].approval] EXCEPT !.used = TRUE]
  <2>1. row.used
    BY <1>0 DEF ApprovalRow
  <2>2. approvals' = [approvals EXCEPT ![senders[s].approval] = row]
    BY DEF MarkUsed
  <2> HIDE DEF row
  <2> QED  BY <1>0, <2>1, <2>2
<1>3. /\ \A x \in Approvals : approvals[x] # NoRow =>
             approvals'[x] # NoRow /\ (approvals[x].used => approvals'[x].used)
      /\ \A k \in Keys : attempts[k] # NoRow =>
             attempts[k].approval \in Approvals /\ approvals[attempts[k].approval] # NoRow
  BY DEF NothingTakenBack, SendInv, AttemptsAreOwned, IInv, TypeOK, AttemptRow
<1>4. AttemptsAreOwned'
  BY <1>0, <1>1, <1>3 DEF SendInv, AttemptsAreOwned
<1>5. MailIsInStep'
  <2>1. \A x \in Senders : x # s => MailIsInStep!(x)'
    BY <1>0, <1>1, <1>3 DEF SendInv, MailIsInStep, Sending, Unsent, IInv, RowsExist
  <2>2. MailIsInStep!(s)'
    BY <1>0, <1>1, <1>2 DEF SendInv, MailIsInStep, Sending, Unsent
  <2> QED  BY <2>1, <2>2 DEF MailIsInStep
<1>6. SentAttemptIsBacked'
  BY <1>0, <1>3 DEF SendInv, SentAttemptIsBacked
<1>7. SuccessMeansMailed'
  BY <1>0, <1>1 DEF SendInv, SuccessMeansMailed
<1> QED  BY <1>4, <1>5, <1>6, <1>7 DEF SendInv

LEMMA MarkDraftKeepsSendInv ==
  ASSUME IInv, IInv', SendInv, NEW s \in Senders, MarkDraft(s)
  PROVE  SendInv'
<1>0. /\ senders \in [Senders -> SenderState] /\ senders[s].pc = "markDraft"
      /\ UNCHANGED <<attempts, approvals, mail>> /\ senders[s].key \in Keys
  BY DEF MarkDraft, IInv, TypeOK, RowsExist
<1>1. CASE Goto(s, "markAttempt")
  <2>1. /\ \A x \in Senders : x # s => senders'[x] = senders[x]
        /\ senders'[s].pc = "markAttempt"
        /\ senders'[s].approval = senders[s].approval
        /\ senders'[s].key = senders[s].key
        /\ senders'[s].owner = senders[s].owner
    BY <1>0, <1>1, GotoFields
  <2> QED  BY <1>0, <2>1 DEF SendInv, AttemptsAreOwned, MailIsInStep, SentAttemptIsBacked,
                             SuccessMeansMailed, Sending, Unsent
<1>2. CASE Succeed(s)
  <2>1. senders' = [senders EXCEPT ![s] = [IdleSender EXCEPT !.pc = "ok", !.key = senders[s].key]]
    BY <1>2 DEF Succeed, End
  <2>2. /\ \A x \in Senders : x # s => senders'[x] = senders[x]
        /\ senders'[s].pc = "ok" /\ senders'[s].owner = FALSE
        /\ senders'[s].key = senders[s].key
    BY <1>0, <2>1 DEF IdleSender
  <2> QED  BY <1>0, <2>2 DEF SendInv, AttemptsAreOwned, MailIsInStep, SentAttemptIsBacked,
                             SuccessMeansMailed, Sending, Unsent
<1> QED  BY <1>1, <1>2 DEF MarkDraft

(* The owner settles its attempt: only as sent is more than its ending     *)
(* claimed, and by then it has mailed and the approval is used.            *)
LEMMA SettleKeepsSendInv ==
  ASSUME IInv, IInv', SendInv, NEW s \in Senders,
         MarkAttempt(s) \/ (MarkFailed(s) /\ senders[s].owner)
  PROVE  SendInv'
<1> DEFINE k == senders[s].key
<1>0. /\ senders \in [Senders -> SenderState] /\ k \in Keys /\ senders[s].owner
      /\ attempts \in [Keys -> AttemptRow \union {NoRow}] /\ attempts[k] \in AttemptRow
      /\ senders[s].pc \in {"markAttempt", "markFailed"}
      /\ UNCHANGED <<approvals, mail>>
  BY DEF MarkAttempt, MarkFailed, IInv, TypeOK, RowsExist, OwnersHaveAttempts
<1>1. PICK pc \in Ended : senders' = [senders EXCEPT ![s] = [IdleSender EXCEPT !.pc = pc, !.key = k]]
                           /\ (pc = "ok" => senders[s].pc = "markAttempt")
  BY DEF MarkAttempt, MarkFailed, Succeed, Fail, End
<1>2. /\ \A x \in Senders : x # s => senders'[x] = senders[x]
      /\ senders'[s].pc = pc /\ senders'[s].owner = FALSE /\ senders'[s].key = k
  BY <1>0, <1>1 DEF IdleSender
<1>3. /\ \A x \in Keys : x # k => attempts'[x] = attempts[x]
      /\ attempts'[k].owner = attempts[k].owner
      /\ attempts'[k].approval = attempts[k].approval
      /\ attempts'[k].status = "sent" => senders[s].pc = "markAttempt"
  <2>1. PICK status \in AttemptStatus :
          /\ attempts' = [attempts EXCEPT ![k] = [attempts[k] EXCEPT !.status = status]]
          /\ status = "sent" => senders[s].pc = "markAttempt"
    BY <1>0 DEF MarkAttempt, MarkFailed, AttemptStatus
  <2> DEFINE row == [attempts[k] EXCEPT !.status = status]
  <2>2. row.owner = attempts[k].owner /\ row.approval = attempts[k].approval /\ row.status = status
    BY <1>0 DEF AttemptRow
  <2> HIDE DEF row
  <2> QED  BY <1>0, <2>1, <2>2
<1>4. /\ attempts[k] # NoRow /\ attempts[k].owner = s
      /\ attempts[k].approval = senders[s].approval
  BY <1>0, NoRowAssumption DEF SendInv, AttemptsAreOwned
<1>5. AttemptsAreOwned'
  <2>1. \A x \in Senders \ {s} : senders[x].owner => senders[x].key \in Keys \ {k}
    BY <1>0, <1>4 DEF SendInv, AttemptsAreOwned, IInv, OwnersHaveAttempts, RowsExist, PastDraft
  <2>2. \A x \in Keys : attempts'[x] # NoRow => attempts'[x].approval = attempts[x].approval
                                              /\ attempts[x] # NoRow
    BY <1>3, <1>4
  <2> QED  BY <1>0, <1>2, <1>3, <2>1, <2>2 DEF SendInv, AttemptsAreOwned
<1>6. MailIsInStep'
  BY <1>0, <1>2 DEF SendInv, MailIsInStep, Sending, Unsent
<1>7. senders[s].pc = "markAttempt" => /\ approvals[senders[s].approval].used
                                       /\ \E m \in mail : m.sender = s /\ m.key = k
  BY <1>0 DEF SendInv, MailIsInStep, Sending
<1> HIDE DEF k
<1>8. SentAttemptIsBacked'
  BY <1>0, <1>3, <1>4, <1>7 DEF SendInv, SentAttemptIsBacked
<1>9. SuccessMeansMailed'
  BY <1>0, <1>1, <1>2, <1>7 DEF SendInv, SuccessMeansMailed
<1> QED  BY <1>5, <1>6, <1>8, <1>9 DEF SendInv

LEMMA NextSendInv == IInv /\ IInv' /\ SendInv /\ [Next]_vars => SendInv'
<1> SUFFICES ASSUME IInv, IInv', SendInv, [Next]_vars PROVE SendInv'
  OBVIOUS
<1>0. NothingTakenBack
  BY StepTakesNothingBack
<1>1. CASE UNCHANGED <<attempts, mail, senders>>
  BY <1>0, <1>1, OthersKeepSendInv
<1>2. CASE \E s \in Senders : SenderNext(s)
  <2>1. PICK s \in Senders : SenderNext(s)
    BY <1>2
  <2>2. CASE \E d \in Drafts, a \in Approvals, k \in Keys : SendStart(s, d, a, k)
    BY <2>2, SendStartKeepsSendInv
  <2>3. CASE SendInsertRefused(s) \/ PollExhausted(s) \/ DispatchRefused(s) \/ MarkLost(s)
    <3>1. /\ OnlySender
          /\ \/ senders[s].pc \in Unsent \ {Idle} /\ \E pc \in {"poll", "dispatch"} : Goto(s, pc)
             \/ senders[s].pc \in SenderPcs /\ Goto(s, "markFailed")
      BY <2>3 DEF SendInsertRefused, PollExhausted, DispatchRefused, MarkLost, Unsent
    <3> QED  BY <1>0, <3>1, MoveKeepsSendInv DEF Unsent, Sending
  <2>4. CASE PollAnswered(s) \/ SendCrash(s) \/ (MarkFailed(s) /\ ~senders[s].owner)
    <3>1. /\ OnlySender /\ senders[s].key \in Keys
          /\ Fail(s) \/ (Succeed(s) /\ AnsweredByAttempt(senders[s].key))
      BY <2>4 DEF PollAnswered, SendCrash, MarkFailed, OnlySender, IInv, RowsExist
    <3> QED  BY <3>1, AnsweredIsMailed, EndKeepsSendInv DEF Fail, Succeed
  <2> QED  BY <1>0, <2>1, <2>2, <2>3, <2>4, ChecksKeepSendInv, SendInsertKeepsSendInv,
              DispatchKeepsSendInv, MarkUsedKeepsSendInv, MarkDraftKeepsSendInv, SettleKeepsSendInv
           DEF SenderNext, SenderStep
<1>3. CASE \E e \in Editors : EditorNext(e)
  BY <1>1, <1>3 DEF EditorNext, EditRead, SignRead, EditWrite, SignWrite
<1>4. CASE \E q \in Askers : AskerNext(q)
  BY <1>1, <1>4 DEF AskerNext, AskRead, AskInsert, AskLost
<1>5. CASE \E c \in Confirmers : ConfirmerNext(c)
  BY <1>1, <1>5 DEF ConfirmerNext, ConfirmerStep, ConfirmRead, ConfirmHash, ConfirmCas, ConfirmCrash
<1>6. CASE Tick \/ (\E d \in Drafts, p \in Payload : CreateDraft(d, p)) \/ (\E a \in Approvals : Review(a))
  BY <1>1, <1>6 DEF Tick, CreateDraft, Review
<1> QED  BY <1>1, <1>2, <1>3, <1>4, <1>5, <1>6 DEF Next, vars

LEMMA InitSendInv == Init => SendInv
BY DEF Init, SendInv, AttemptsAreOwned, MailIsInStep, SentAttemptIsBacked, SuccessMeansMailed,
       IdleSender, Sending

(* What a sent attempt and a successful call say is backed by the mail, in *)
(* every reachable state.                                                  *)
LEMMA SendInvariance == Spec => []SendInv
BY Invariance, InitSendInv, NextSendInv, PTL DEF Spec

(* An attempt marked sent has its owner's message and a used approval      *)
(* behind it, whatever crashes or fails between the dispatch and the three *)
(* updates that follow it.                                                 *)
THEOREM SentIsBacked == Spec => []SentAttemptIsBacked
<1>1. SendInv => SentAttemptIsBacked
  BY DEF SendInv
<1> QED  BY <1>1, SendInvariance, PTL

(* A call that answers with success, for itself or from the attempt of the *)
(* call it lost the key to, does so for a message that went out.           *)
THEOREM SuccessIsMailed == Spec => []SuccessMeansMailed
<1>1. SendInv => SuccessMeansMailed
  BY DEF SendInv
<1> QED  BY <1>1, SendInvariance, PTL

-----------------------------------------------------------------------------
(* A confirmation in flight came with a nonce of a page that was shown; one *)
(* that succeeded left its approval confirmed.                             *)
ConfirmersInStep ==
  \A c \in Confirmers :
    /\ confirmers[c].pc \in {"hash", "cas"} => confirmers[c].nonce \in KnownNonces
    /\ confirmers[c].pc = "ok" =>
         /\ confirmers[c].approval \in Approvals
         /\ approvals[confirmers[c].approval] # NoRow
         /\ approvals[confirmers[c].approval].status = "confirmed"

ReviewInv == ConfirmersInStep /\ ConfirmedAfterReview /\ ConfirmedOnce

LEMMA KnownStayKnown == NothingTakenBack => KnownNonces \subseteq KnownNonces'
BY DEF NothingTakenBack, KnownNonces

LEMMA OthersKeepReviewInv ==
  ASSUME IInv, ReviewInv, NothingTakenBack, UNCHANGED confirmers,
         \A a \in Approvals :
           approvals'[a] # NoRow /\ approvals'[a].status = "confirmed" =>
             approvals[a] # NoRow /\ approvals[a].status = "confirmed"
  PROVE  ReviewInv'
BY KnownStayKnown DEF ReviewInv, ConfirmersInStep, ConfirmedAfterReview, ConfirmedOnce, NothingTakenBack

LEMMA ConfirmCasKeepsReviewInv ==
  ASSUME IInv, ReviewInv, NothingTakenBack, NEW c \in Confirmers, ConfirmCas(c)
  PROVE  ReviewInv'
<1> DEFINE a == confirmers[c].approval
<1>0. /\ confirmers \in [Confirmers -> ConfirmerState] /\ confirmers[c].pc = "cas"
      /\ approvals \in [Approvals -> ApprovalRow \union {NoRow}]
      /\ a \in Approvals /\ approvals[a] \in ApprovalRow /\ approvals[a] # NoRow
      /\ KnownNonces' = KnownNonces
      /\ confirmers[c].nonce \in KnownNonces
  BY DEF ConfirmCas, IInv, TypeOK, RowsExist, ReviewInv, ConfirmersInStep, KnownNonces
<1>1. CASE CasMatches(c)
  <2>1. /\ approvals[a].status = "pending" /\ confirmers[c].nonce = a
        /\ approvals' = [approvals EXCEPT ![a] = [approvals[a] EXCEPT !.status = "confirmed"]]
        /\ confirmers' = [confirmers EXCEPT ![c] = [confirmers[c] EXCEPT !.pc = "ok"]]
    BY <1>1 DEF CasMatches, StillPending, NonceMatches, ConfirmCas
  <2>2. /\ [confirmers[c] EXCEPT !.pc = "ok"].pc = "ok"
        /\ [confirmers[c] EXCEPT !.pc = "ok"].approval = a
        /\ [approvals[a] EXCEPT !.status = "confirmed"].status = "confirmed"
    BY <1>0 DEF ConfirmerState, ApprovalRow
  <2>3. /\ \A x \in Confirmers : x # c => confirmers'[x] = confirmers[x]
        /\ confirmers'[c].pc = "ok" /\ confirmers'[c].approval = a
        /\ \A x \in Approvals : x # a => approvals'[x] = approvals[x]
        /\ approvals'[a].status = "confirmed" /\ approvals'[a] # NoRow
    BY <1>0, <2>1, <2>2 DEF NothingTakenBack
  <2> HIDE DEF a
  <2>4. \A x \in Confirmers : confirmers[x].pc = "ok" => confirmers[x].approval # a
    BY <2>1 DEF ReviewInv, ConfirmersInStep
  <2>5. ConfirmersInStep'
    BY <1>0, <2>3 DEF ReviewInv, ConfirmersInStep
  <2>6. ConfirmedAfterReview'
    BY <1>0, <2>1, <2>3 DEF ReviewInv, ConfirmedAfterReview
  <2>7. ConfirmedOnce'
    BY <2>3, <2>4 DEF ReviewInv, ConfirmedOnce
  <2> QED  BY <2>5, <2>6, <2>7 DEF ReviewInv
<1>2. CASE ~CasMatches(c)
  <2>1. /\ approvals' = approvals
        /\ confirmers' = [confirmers EXCEPT ![c] = RefusedConfirmer]
        /\ RefusedConfirmer.pc = "error"
    BY <1>2 DEF ConfirmCas, RefusedConfirmer, IdleConfirmer
  <2> QED  BY <1>0, <2>1 DEF ReviewInv, ConfirmersInStep, ConfirmedAfterReview, ConfirmedOnce
<1> QED  BY <1>1, <1>2

LEMMA ConfirmerMovesKeepReviewInv ==
  ASSUME IInv, ReviewInv, NEW c \in Confirmers,
         \/ \E a \in Approvals, n \in KnownNonces : ConfirmRead(c, a, n)
         \/ ConfirmHash(c)
         \/ ConfirmCrash(c)
  PROVE  ReviewInv'
<1>0. /\ confirmers \in [Confirmers -> ConfirmerState]
      /\ UNCHANGED approvals /\ KnownNonces' = KnownNonces
  BY DEF ConfirmRead, ConfirmHash, ConfirmCrash, IInv, TypeOK, KnownNonces
<1>1. /\ \A x \in Confirmers : x # c => confirmers'[x] = confirmers[x]
      /\ confirmers'[c].pc \in {"hash", "cas", "error"}
      /\ confirmers'[c].pc \in {"hash", "cas"} => confirmers'[c].nonce \in KnownNonces
  <2>0. RefusedConfirmer.pc = "error"
    BY DEF RefusedConfirmer, IdleConfirmer
  <2>1. CASE \E a \in Approvals, n \in KnownNonces : ConfirmRead(c, a, n)
    BY <1>0, <2>0, <2>1 DEF ConfirmRead
  <2>2. CASE ConfirmHash(c)
    <3> DEFINE new == [confirmers[c] EXCEPT !.pc = "cas"]
    <3>1. new.pc = "cas" /\ new.nonce = confirmers[c].nonce /\ confirmers[c].nonce \in KnownNonces
      BY <1>0, <2>2 DEF ConfirmHash, ConfirmerState, ReviewInv, ConfirmersInStep
    <3>2. confirmers' = [confirmers EXCEPT ![c] = new]
            \/ confirmers' = [confirmers EXCEPT ![c] = RefusedConfirmer]
      BY <2>2 DEF ConfirmHash
    <3> HIDE DEF new
    <3> QED  BY <1>0, <2>0, <3>1, <3>2
  <2>3. CASE ConfirmCrash(c)
    BY <1>0, <2>0, <2>3 DEF ConfirmCrash
  <2> QED  BY <2>1, <2>2, <2>3
<1> QED  BY <1>0, <1>1 DEF ReviewInv, ConfirmersInStep, ConfirmedAfterReview, ConfirmedOnce

LEMMA NextReviewInv == IInv /\ ReviewInv /\ [Next]_vars => ReviewInv'
<1> SUFFICES ASSUME IInv, ReviewInv, [Next]_vars PROVE ReviewInv'
  OBVIOUS
<1>0. NothingTakenBack /\ approvals \in [Approvals -> ApprovalRow \union {NoRow}]
  BY StepTakesNothingBack DEF IInv, TypeOK
<1>1. CASE UNCHANGED <<approvals, confirmers>>
  BY <1>0, <1>1, OthersKeepReviewInv
<1>2. CASE \E s \in Senders : SenderNext(s)
  <2>1. PICK s \in Senders : SenderNext(s)
    BY <1>2
  <2>2. CASE MarkUsed(s)
    <3> DEFINE a == senders[s].approval
               row == [approvals[a] EXCEPT !.used = TRUE]
    <3>1. a \in Approvals /\ approvals[a] \in ApprovalRow /\ approvals[a] # NoRow
      BY <2>2 DEF MarkUsed, IInv, TypeOK, RowsExist
    <3>2. row.status = approvals[a].status
      BY <3>1 DEF ApprovalRow
    <3>3. approvals' = [approvals EXCEPT ![a] = row] /\ UNCHANGED confirmers
      BY <2>2 DEF MarkUsed
    <3> HIDE DEF row, a
    <3> QED  BY <1>0, <3>1, <3>2, <3>3, OthersKeepReviewInv
  <2>3. CASE ~MarkUsed(s)
    BY <1>1, <2>1, <2>3 DEF SenderNext, SenderStep, OnlySender, SendStart, SendApproval, SendHash,
       SendInsert, SendInsertRefused, PollAnswered, PollExhausted, Dispatch, DispatchRefused, MarkDraft,
       MarkAttempt, MarkLost, MarkFailed, SendCrash
  <2> QED  BY <2>2, <2>3
<1>3. CASE \E e \in Editors : EditorNext(e)
  BY <1>1, <1>3 DEF EditorNext, EditRead, SignRead, EditWrite, SignWrite
<1>4. CASE \E q \in Askers : AskerNext(q)
  <2>1. CASE \E q \in Askers, a \in Approvals : AskInsert(q, a)
    BY <1>0, <2>1, OthersKeepReviewInv DEF AskInsert
  <2> QED  BY <1>1, <1>4, <2>1 DEF AskerNext, AskRead, AskLost
<1>5. CASE \E c \in Confirmers : ConfirmerNext(c)
  BY <1>0, <1>5, ConfirmCasKeepsReviewInv, ConfirmerMovesKeepReviewInv DEF ConfirmerNext, ConfirmerStep
<1>6. CASE Tick \/ (\E d \in Drafts, p \in Payload : CreateDraft(d, p)) \/ (\E a \in Approvals : Review(a))
  BY <1>1, <1>6 DEF Tick, CreateDraft, Review
<1> QED  BY <1>1, <1>2, <1>3, <1>4, <1>5, <1>6 DEF Next, vars

LEMMA InitReviewInv == Init => ReviewInv
BY NoRowAssumption DEF Init, ReviewInv, ConfirmersInStep, ConfirmedAfterReview, ConfirmedOnce, IdleConfirmer

-----------------------------------------------------------------------------
(* As long as no caller runs out of polls only the owner of a key's        *)
(* attempt dispatches under the key.                                       *)
OwnerDispatches ==
  /\ \A s \in Senders : senders[s].pc = "dispatch" => senders[s].owner
  /\ \A m \in mail : attempts[m.key] # NoRow /\ attempts[m.key].owner = m.sender

KeyInv == OwnerDispatches /\ OneMailPerKey

LEMMA NextKeyInv ==
  ASSUME "poll" \notin Faults, IInv, IInv', SendInv, KeyInv, [Next]_vars
  PROVE  KeyInv'
<1>0. /\ senders \in [Senders -> SenderState]
      /\ attempts \in [Keys -> AttemptRow \union {NoRow}]
      /\ mail \subseteq Message
  BY DEF IInv, TypeOK
<1>1. CASE UNCHANGED <<attempts, mail, senders>>
  BY <1>1 DEF KeyInv, OwnerDispatches, OneMailPerKey
<1>2. CASE \E s \in Senders : SenderNext(s)
  <2>1. PICK s \in Senders : SenderNext(s)
    BY <1>2
  <2>2. CASE Dispatch(s)
    <3>1. PICK pc \in {"markUsed", "markFailed"} : Goto(s, pc)
      BY <2>2 DEF Dispatch
    <3>2. /\ \A x \in Senders : x # s => senders'[x] = senders[x]
          /\ senders'[s].pc = pc
      BY <1>0, <3>1, GotoFields
    <3>3. /\ mail' = mail \union {MessageOf(s)} /\ UNCHANGED attempts
          /\ MessageOf(s).sender = s /\ MessageOf(s).key = senders[s].key
          /\ senders[s].pc = "dispatch"
      BY <2>2 DEF Dispatch, MessageOf
    <3>4. /\ senders[s].owner /\ attempts[senders[s].key] # NoRow
          /\ attempts[senders[s].key].owner = s
      BY <3>3 DEF KeyInv, OwnerDispatches, IInv, OwnersHaveAttempts, SendInv, AttemptsAreOwned
    <3>5. OwnerDispatches'
      BY <3>2, <3>3, <3>4 DEF KeyInv, OwnerDispatches
    <3>6. \A m \in mail : m.key # senders[s].key
      BY <3>3, <3>4 DEF KeyInv, OwnerDispatches, SendInv, MailIsInStep, Unsent
    <3>7. OneMailPerKey'
      BY <3>3, <3>6 DEF KeyInv, OneMailPerKey
    <3> QED  BY <3>5, <3>7 DEF KeyInv
  <2>3. CASE SendInsert(s)
    <3> DEFINE k == senders[s].key
               new == [senders[s] EXCEPT !.pc = "dispatch", !.owner = TRUE]
    <3>1. /\ k \in Keys /\ attempts[k] = NoRow /\ UNCHANGED mail
          /\ senders' = [senders EXCEPT ![s] = new]
          /\ \A x \in Keys : x # k => attempts'[x] = attempts[x]
      BY <1>0, <2>3 DEF SendInsert, KeyFree, IInv, RowsExist
    <3>2. new.owner
      BY <1>0 DEF SenderState
    <3> HIDE DEF new
    <3> QED  BY <1>0, <3>1, <3>2 DEF KeyInv, OwnerDispatches, OneMailPerKey, Message
  <2>4. CASE MarkAttempt(s) \/ (MarkFailed(s) /\ senders[s].owner)
    <3> DEFINE k == senders[s].key
    <3>1. PICK status \in AttemptStatus :
            attempts' = [attempts EXCEPT ![k] = [attempts[k] EXCEPT !.status = status]]
      BY <2>4 DEF MarkAttempt, MarkFailed, AttemptStatus
    <3>2. /\ k \in Keys /\ attempts[k] \in AttemptRow /\ UNCHANGED mail
          /\ senders' = [senders EXCEPT ![s] = [IdleSender EXCEPT !.pc = senders'[s].pc, !.key = k]]
          /\ senders'[s].pc \in Ended
      <4>1. /\ k \in Keys /\ attempts[k] \in AttemptRow /\ UNCHANGED mail
        BY <1>0, <2>4 DEF MarkAttempt, MarkFailed, IInv, RowsExist, OwnersHaveAttempts
      <4>2. PICK pc \in Ended : senders' = [senders EXCEPT ![s] = [IdleSender EXCEPT !.pc = pc, !.key = k]]
        BY <2>4 DEF MarkAttempt, MarkFailed, Succeed, Fail, End
      <4>3. senders'[s].pc = pc
        BY <1>0, <4>2 DEF IdleSender
      <4> QED  BY <4>1, <4>2, <4>3
    <3> DEFINE row == [attempts[k] EXCEPT !.status = status]
    <3>3. row \in AttemptRow /\ row.owner = attempts[k].owner /\ row # NoRow
      BY <3>2, NoRowAssumption DEF AttemptRow
    <3>4. \A x \in Senders : x # s => senders'[x] = senders[x]
      BY <1>0, <3>2
    <3> HIDE DEF row, k
    <3>5. \A x \in Keys : attempts[x] # NoRow =>
            attempts'[x] # NoRow /\ attempts'[x].owner = attempts[x].owner
      BY <1>0, <3>1, <3>2, <3>3 DEF row
    <3>6. OwnerDispatches'
      BY <1>0, <3>2, <3>4, <3>5 DEF KeyInv, OwnerDispatches, Message
    <3> QED  BY <3>2, <3>6 DEF KeyInv, OneMailPerKey
  <2>5. ASSUME UNCHANGED <<attempts, mail>>,
               \A x \in Senders : x # s => senders'[x] = senders[x],
               senders'[s].pc # "dispatch"
        PROVE  KeyInv'
    BY <2>5 DEF KeyInv, OwnerDispatches, OneMailPerKey
  <2>6. CASE /\ UNCHANGED <<attempts, mail>>
             /\ \E pc \in SenderPcs \ {"dispatch"} : Goto(s, pc)
    BY <1>0, <2>5, <2>6, GotoFields
  <2>7. CASE /\ UNCHANGED <<attempts, mail>>
             /\ \E pc \in Ended, k \in Keys : End(s, pc, k)
    BY <1>0, <2>5, <2>7, EndFields
  <2>8. CASE \E d \in Drafts, a \in Approvals, k \in Keys : SendStart(s, d, a, k)
    <3>1. PICK d \in Drafts, a \in Approvals, k \in Keys : SendStart(s, d, a, k)
      BY <2>8
    <3> DEFINE new == [IdleSender EXCEPT !.pc = "approval", !.draft = d, !.approval = a, !.key = k]
    <3>2. UNCHANGED <<attempts, mail>> /\ new.pc = "approval"
      BY <3>1 DEF SendStart, OnlySender, IdleSender
    <3>3. End(s, "ok", k) \/ senders' = [senders EXCEPT ![s] = new]
      BY <3>1 DEF SendStart
    <3> HIDE DEF new
    <3> QED  BY <1>0, <2>5, <2>7, <3>2, <3>3
  <2>9. CASE SendHash(s)
    <3> DEFINE new == [senders[s] EXCEPT !.pc = "insert", !.seen = drafts[senders[s].draft].payload]
    <3>1. /\ UNCHANGED <<attempts, mail>> /\ senders[s].key \in Keys
          /\ new.pc = "insert"
          /\ Fail(s) \/ senders' = [senders EXCEPT ![s] = new]
      BY <1>0, <2>9 DEF SendHash, OnlySender, SenderState, IInv, RowsExist
    <3> HIDE DEF new
    <3> QED  BY <1>0, <2>5, <2>7, <3>1 DEF Fail
  <2>10. CASE senders[s].pc \in SenderPcs /\ (Fail(s) \/ Succeed(s)) /\ UNCHANGED <<attempts, mail>>
    BY <2>7, <2>10 DEF Fail, Succeed, IInv, RowsExist
  <2>11. CASE SendApproval(s) \/ SendInsertRefused(s) \/ PollAnswered(s) \/ PollExhausted(s)
                \/ DispatchRefused(s) \/ MarkUsed(s) \/ MarkDraft(s) \/ MarkLost(s)
                \/ (MarkFailed(s) /\ ~senders[s].owner) \/ SendCrash(s)
    BY <2>6, <2>10, <2>11 DEF SendApproval, SendInsertRefused, PollAnswered, PollExhausted,
       DispatchRefused, MarkUsed, MarkDraft, MarkLost, MarkFailed, SendCrash, OnlySender
  <2> QED  BY <2>1, <2>2, <2>3, <2>4, <2>8, <2>9, <2>11 DEF SenderNext, SenderStep
<1>3. CASE \E e \in Editors : EditorNext(e)
  BY <1>1, <1>3 DEF EditorNext, EditRead, SignRead, EditWrite, SignWrite
<1>4. CASE \E q \in Askers : AskerNext(q)
  BY <1>1, <1>4 DEF AskerNext, AskRead, AskInsert, AskLost
<1>5. CASE \E c \in Confirmers : ConfirmerNext(c)
  BY <1>1, <1>5 DEF ConfirmerNext, ConfirmerStep, ConfirmRead, ConfirmHash, ConfirmCas, ConfirmCrash
<1>6. CASE Tick \/ (\E d \in Drafts, p \in Payload : CreateDraft(d, p)) \/ (\E a \in Approvals : Review(a))
  BY <1>1, <1>6 DEF Tick, CreateDraft, Review
<1> QED  BY <1>1, <1>2, <1>3, <1>4, <1>5, <1>6 DEF Next, vars

LEMMA InitKeyInv == Init => KeyInv
BY DEF Init, KeyInv, OwnerDispatches, OneMailPerKey, IdleSender

-----------------------------------------------------------------------------
(* The handlers implement the promise.  What an approval row says beyond   *)
(* its hash and its being confirmed is no part of it.                      *)
MapBound == [a \in Approvals |-> IF approvals[a] = NoRow THEN NoRow ELSE approvals[a].hash]
MapApproved == {a \in Approvals : approvals[a] # NoRow /\ approvals[a].status = "confirmed"}
MapSent == {[message |-> m.sender, hash |-> HashOf(m.payload)] : m \in mail}

LEMMA InitPromise == Init => Promise!AInit
<1> SUFFICES ASSUME Init PROVE Promise!AInit
  OBVIOUS
<1>1. MapBound = [a \in Approvals |-> NoRow] /\ MapApproved = {} /\ MapSent = {}
  BY DEF Init, MapBound, MapApproved, MapSent
<1> QED  BY <1>1 DEF Promise!AInit, MapBound, MapApproved, MapSent

(* The steps that change no approval's row but its used, and no mail. *)
LEMMA PromiseStutters ==
  ASSUME IInv, NothingTakenBack, UNCHANGED mail,
         \A a \in Approvals :
           /\ approvals[a] = NoRow => approvals'[a] = NoRow
           /\ approvals[a] # NoRow => approvals'[a].status = approvals[a].status
  PROVE  UNCHANGED <<MapBound, MapApproved, MapSent>>
<1>1. \A a \in Approvals : (approvals'[a] = NoRow) = (approvals[a] = NoRow)
  BY DEF NothingTakenBack
<1>2. MapBound' = MapBound
  BY <1>1 DEF MapBound, NothingTakenBack
<1>3. MapApproved' = MapApproved
  BY <1>1 DEF MapApproved
<1>4. MapSent' = MapSent
  BY DEF MapSent, HashOf
<1> QED  BY <1>2, <1>3, <1>4

LEMMA AskInsertOpens ==
  ASSUME IInv, NEW q \in Askers, NEW a \in Approvals, AskInsert(q, a)
  PROVE  \E h \in Texts : Promise!Open(a, h)
<1> DEFINE h == HashOf(askers[q].seen)
<1>1. /\ approvals \in [Approvals -> ApprovalRow \union {NoRow}]
      /\ approvals[a] = NoRow /\ UNCHANGED mail
      /\ h \in Texts /\ h # NoRow
  BY NoRowAssumption DEF AskInsert, IInv, TypeOK, RowsExist, Payload, HashOf
<1>2. /\ \A x \in Approvals : x # a => approvals'[x] = approvals[x]
      /\ approvals'[a].hash = h /\ approvals'[a].status = "pending" /\ approvals'[a] # NoRow
  <2> DEFINE row == [draft |-> askers[q].draft, hash |-> h, status |-> "pending",
                     expiresAt |-> now + Validity, used |-> FALSE]
  <2>1. row \in ApprovalRow
    BY <1>1, TimeAssumption DEF AskInsert, IInv, TypeOK, RowsExist, ApprovalRow
  <2> QED  BY <1>1, <2>1, NoRowAssumption DEF AskInsert
<1> HIDE DEF h
<1>3. MapBound[a] = NoRow /\ MapBound' = [MapBound EXCEPT ![a] = h]
  BY <1>1, <1>2 DEF MapBound
<1>4. MapApproved' = MapApproved
  BY <1>1, <1>2 DEF MapApproved
<1>5. MapSent' = MapSent
  BY <1>1 DEF MapSent, HashOf
<1> QED  BY <1>1, <1>3, <1>4, <1>5 DEF Promise!Open, MapBound, MapApproved, MapSent

LEMMA ConfirmCasApproves ==
  ASSUME IInv, NothingTakenBack, NEW c \in Confirmers, ConfirmCas(c), CasMatches(c)
  PROVE  \E a \in Approvals : Promise!Approve(a)
<1> DEFINE a == confirmers[c].approval
           row == [approvals[a] EXCEPT !.status = "confirmed"]
<1>1. /\ approvals \in [Approvals -> ApprovalRow \union {NoRow}]
      /\ a \in Approvals /\ approvals[a] \in ApprovalRow /\ approvals[a] # NoRow
      /\ approvals[a].status = "pending" /\ UNCHANGED mail
      /\ approvals' = [approvals EXCEPT ![a] = row]
  BY DEF ConfirmCas, CasMatches, StillPending, IInv, TypeOK, RowsExist
<1>2. row.status = "confirmed" /\ row.hash = approvals[a].hash /\ row # NoRow
  BY <1>1, NoRowAssumption DEF ApprovalRow
<1>3. approvals[a].hash \in Texts
  BY <1>1 DEF ApprovalRow
<1> HIDE DEF a, row
<1>4. /\ \A x \in Approvals : x # a => approvals'[x] = approvals[x]
      /\ approvals'[a] = row
  BY <1>1
<1>5. MapBound' = MapBound /\ MapBound[a] # NoRow
  BY <1>1, <1>2, <1>3, <1>4, NoRowAssumption DEF MapBound
<1>6. MapApproved' = MapApproved \union {a} /\ a \notin MapApproved
  BY <1>1, <1>2, <1>4 DEF MapApproved
<1>7. MapSent' = MapSent
  BY <1>1 DEF MapSent, HashOf
<1> QED  BY <1>1, <1>5, <1>6, <1>7 DEF Promise!Approve, MapBound, MapApproved, MapSent

LEMMA DispatchSends ==
  ASSUME IInv, SendInv, NEW s \in Senders, Dispatch(s)
  PROVE  \E a \in Approvals : Promise!Send(s, a)
<1> DEFINE a == senders[s].approval
           message == [message |-> s, hash |-> HashOf(senders[s].seen)]
<1>1. /\ senders[s].pc = "dispatch" /\ UNCHANGED approvals
      /\ mail' = mail \union {MessageOf(s)}
      /\ MessageOf(s).sender = s /\ MessageOf(s).payload = senders[s].seen
  BY DEF Dispatch, MessageOf
<1>2. /\ a \in Approvals /\ approvals[a] # NoRow /\ approvals[a].status = "confirmed"
      /\ HashOf(senders[s].seen) = approvals[a].hash
      /\ \A m \in mail : m.sender # s
  BY <1>1 DEF IInv, RowsExist, ChecksHold, PastApproval, PastDraft, SendInv, MailIsInStep, Unsent
<1>3. MapBound' = MapBound /\ MapApproved' = MapApproved
  BY <1>1 DEF MapBound, MapApproved
<1>4. a \in MapApproved /\ MapBound[a] = HashOf(senders[s].seen)
  BY <1>2 DEF MapApproved, MapBound
<1>5. MapSent' = MapSent \union {message}
  BY <1>1 DEF MapSent, HashOf
<1>6. \A x \in MapSent : x.message # s
  BY <1>2 DEF MapSent
<1> QED  BY <1>2, <1>3, <1>4, <1>5, <1>6 DEF Promise!Send, MapBound, MapApproved, MapSent

LEMMA NextPromise ==
  ASSUME IInv, SendInv, [Next]_vars
  PROVE  [Promise!ANext]_(Promise!avars)
<1>0. NothingTakenBack /\ approvals \in [Approvals -> ApprovalRow \union {NoRow}]
  BY StepTakesNothingBack DEF IInv, TypeOK
<1>1. CASE UNCHANGED <<MapBound, MapApproved, MapSent>>
  BY <1>1 DEF Promise!avars, MapBound, MapApproved, MapSent
<1>2. CASE UNCHANGED <<approvals, mail>>
  BY <1>0, <1>1, <1>2, PromiseStutters
<1>3. CASE \E s \in Senders : SenderNext(s)
  <2>1. PICK s \in Senders : SenderNext(s)
    BY <1>3
  <2>2. CASE MarkUsed(s)
    <3> DEFINE a == senders[s].approval
               row == [approvals[a] EXCEPT !.used = TRUE]
    <3>1. a \in Approvals /\ approvals[a] \in ApprovalRow /\ approvals[a] # NoRow
      BY <2>2 DEF MarkUsed, IInv, TypeOK, RowsExist
    <3>2. row.status = approvals[a].status
      BY <3>1 DEF ApprovalRow
    <3>3. approvals' = [approvals EXCEPT ![a] = row] /\ UNCHANGED mail
      BY <2>2 DEF MarkUsed
    <3> HIDE DEF row, a
    <3> QED  BY <1>0, <1>1, <3>1, <3>2, <3>3, PromiseStutters
  <2>3. CASE Dispatch(s)
    BY <2>3, DispatchSends DEF Promise!ANext
  <2>4. CASE ~MarkUsed(s) /\ ~Dispatch(s)
    BY <1>2, <2>1, <2>4 DEF SenderNext, SenderStep, OnlySender, SendStart, SendApproval, SendHash,
       SendInsert, SendInsertRefused, PollAnswered, PollExhausted, DispatchRefused, MarkDraft,
       MarkAttempt, MarkLost, MarkFailed, SendCrash
  <2> QED  BY <2>2, <2>3, <2>4
<1>4. CASE \E e \in Editors : EditorNext(e)
  BY <1>2, <1>4 DEF EditorNext, EditRead, SignRead, EditWrite, SignWrite
<1>5. CASE \E q \in Askers : AskerNext(q)
  <2>1. CASE \E q \in Askers, a \in Approvals : AskInsert(q, a)
    BY <2>1, AskInsertOpens DEF Promise!ANext
  <2> QED  BY <1>2, <1>5, <2>1 DEF AskerNext, AskRead, AskLost
<1>6. CASE \E c \in Confirmers : ConfirmerNext(c)
  <2>1. PICK c \in Confirmers : ConfirmerNext(c)
    BY <1>6
  <2>2. CASE ConfirmCas(c) /\ CasMatches(c)
    BY <1>0, <2>2, ConfirmCasApproves DEF Promise!ANext
  <2>3. CASE ~(ConfirmCas(c) /\ CasMatches(c))
    BY <1>2, <2>1, <2>3 DEF ConfirmerNext, ConfirmerStep, ConfirmRead, ConfirmHash, ConfirmCas, ConfirmCrash
  <2> QED  BY <2>2, <2>3
<1>7. CASE Tick \/ (\E d \in Drafts, p \in Payload : CreateDraft(d, p)) \/ (\E a \in Approvals : Review(a))
  BY <1>2, <1>7 DEF Tick, CreateDraft, Review
<1> QED  BY <1>2, <1>3, <1>4, <1>5, <1>6, <1>7 DEF Next, vars

(* The handlers, over their three tables and with every fault, implement    *)
(* ApprovedDelivery: each step is one of its steps or changes nothing of it. *)
THEOREM PromiseIsKept == Spec => KeepsPromise
<1>1. IInv /\ SendInv /\ [Next]_vars => [Promise!ANext]_(Promise!avars)
  BY NextPromise
<1> QED  BY InitPromise, <1>1, Invariance, SendInvariance, PTL DEF Spec, KeepsPromise, Promise!ASpec

LEMMA ReviewInvariance == Spec => []ReviewInv
BY Invariance, InitReviewInv, NextReviewInv, PTL DEF Spec

(* An approval is confirmed with the nonce of its own page, once that page *)
(* was shown.                                                              *)
THEOREM ConfirmedIsReviewed == Spec => []ConfirmedAfterReview
<1>1. ReviewInv => ConfirmedAfterReview
  BY DEF ReviewInv
<1> QED  BY <1>1, ReviewInvariance, PTL

(* Of any number of concurrent confirmations of an approval one succeeds.  *)
THEOREM OneConfirmationSucceeds == Spec => []ConfirmedOnce
<1>1. ReviewInv => ConfirmedOnce
  BY DEF ReviewInv
<1> QED  BY <1>1, ReviewInvariance, PTL

(* One key, one message, under crashes, refused statements and lost answers *)
(* of the provider: all that is assumed is that twenty polls suffice.      *)
THEOREM KeySendsOnce ==
  ASSUME "poll" \notin Faults
  PROVE  Spec => []OneMailPerKey
<1>1. IInv /\ IInv' /\ SendInv /\ KeyInv /\ [Next]_vars => KeyInv'
  BY NextKeyInv
<1>2. KeyInv => OneMailPerKey
  BY DEF KeyInv
<1> QED  BY <1>1, <1>2, InitKeyInv, Invariance, SendInvariance, PTL DEF Spec

(* No step takes back what was opened, confirmed, used, seen or mailed.    *)
THEOREM NothingIsTakenBack == Spec => [][NothingTakenBack]_vars
<1>1. IInv /\ [Next]_vars => [NothingTakenBack]_vars
  BY StepTakesNothingBack
<1> QED  BY <1>1, Invariance, PTL DEF Spec
=============================================================================
