\* No crash, no refused statement, no provider fault, and twenty polls suffice.
SPECIFICATION FairSpec
CONSTANTS
  Drafts = {d1}
  Texts = {t1, t2}
  Approvals = {a1, a2}
  Keys = {k1, k2}
  Editors = {}
  Askers = {q1}
  Confirmers = {c1}
  Senders = {s1, s2}
  Validity = 1
  MaxTime = 2
  Faults = {}
  NoRow = NoRow
INVARIANTS ConfirmedAfterReview OneMailPerKey
PROPERTY EverySendEnds
CHECK_DEADLOCK FALSE
