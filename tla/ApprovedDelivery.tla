-------------------------- MODULE ApprovedDelivery --------------------------
(***************************************************************************)
(* What the send guard promises, with no request handlers, no tables and   *)
(* no clock: a challenge is opened for one payload hash, only its own      *)
(* confirmation makes it approved, and a message leaves for a mail provider *)
(* only while an approved challenge carries the hash of its payload.       *)
(***************************************************************************)
CONSTANTS Challenges, Hashes, Messages, NoHash

VARIABLES
  bound,      \* bound[c] : the hash challenge c was opened for, or NoHash
  approved,   \* the challenges a human confirmed
  sent        \* the messages the provider accepted, each with its hash

avars == <<bound, approved, sent>>

AInit == /\ bound = [c \in Challenges |-> NoHash]
         /\ approved = {}
         /\ sent = {}

Open(c, h) == /\ bound[c] = NoHash
              /\ bound' = [bound EXCEPT ![c] = h]
              /\ UNCHANGED <<approved, sent>>

Approve(c) == /\ bound[c] # NoHash
              /\ c \notin approved
              /\ approved' = approved \union {c}
              /\ UNCHANGED <<bound, sent>>

Send(m, c) == /\ c \in approved
              /\ \A s \in sent : s.message # m
              /\ sent' = sent \union {[message |-> m, hash |-> bound[c]]}
              /\ UNCHANGED <<bound, approved>>

ANext == \/ \E c \in Challenges, h \in Hashes : Open(c, h)
         \/ \E c \in Challenges : Approve(c)
         \/ \E m \in Messages, c \in Challenges : Send(m, c)

ASpec == AInit /\ [][ANext]_avars
=============================================================================
