SPECIFICATION TunnelSpec
CONSTANTS
  Devices = {d1, d2}
  Tunnels = {t1, t2}
  Fetches = {f1, f2}
  Revokes = {r1}
  Passes = {p1}
  Faults = {"refused", "lost", "crash", "db", "config"}
  MaxTrouble = 2
  None = None
INVARIANTS ActiveIsServed AnsweredIsKept
PROPERTIES PendingIsReleased
CHECK_DEADLOCK FALSE
