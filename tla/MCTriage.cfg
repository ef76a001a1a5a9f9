SPECIFICATION TriageSpec
CONSTANTS
  m1 = m1
  m2 = m2
  m3 = m3
  Mails = {m1, m2, m3}
  Message <- MCMessage
  Events = {e1, e2, e3}
  Judgments <- MCJudgments
  Calls = {c1, c2}
  MayFail = TRUE
  MaxRaces = 1
  MaxClock = 2
  None = None
SYMMETRY Symmetry
INVARIANTS  ShownOnce ActionIsLive
CHECK_DEADLOCK FALSE
