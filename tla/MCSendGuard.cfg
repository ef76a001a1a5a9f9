SPECIFICATION Spec
CONSTANTS
  Drafts = {d1}
  Texts = {t1, t2}
  Approvals = {a1}
  Keys = {k1}
  Editors = {e1}
  Askers = {q1}
  Confirmers = {c1, c2}
  Senders = {s1, s2}
  Validity = 1
  MaxTime = 2
  Faults = {"crash", "db", "provider", "poll"}
  NoRow = NoRow
SYMMETRY Symmetry
INVARIANTS
  MailWasConfirmed UnhashedNeverMailed
  SentAttemptIsBacked SuccessMeansMailed
PROPERTY KeepsPromise
CHECK_DEADLOCK FALSE
