SPECIFICATION AccessSpec
CONSTANTS
  ClientIds = {"https", "mw_client"}
  Redirects = {"chatgpt", "loopback"}
  CompatIds = {"https"}
  Documents <- MCDocuments
  ChatGPT = {"chatgpt"}
  Loopback = {"loopback"}
  DevAuth = TRUE
  Codes = {o1}
  Refreshes = {r1, r2}
  Sessions = {s1, s2}
  Tickets = {t1}
  Calls = {c1, c2}
  MaxEra = 2
  MaxRaces = 1
  None = None
SYMMETRY Symmetry
INVARIANTS HonouredOnce  ReuseEndsFamily CodesGoHome
CHECK_DEADLOCK FALSE
