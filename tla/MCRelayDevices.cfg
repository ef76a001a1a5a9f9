SPECIFICATION RelaySpec
CONSTANTS
  Codes = {p1}
  Devices = {d1, d2}
  Creds = {k1, k2}
  Calls = {c1, c2}
  Kinds = {"authorize", "poll", "rotate", "renew", "revoke"}
  MaxDevices = 2
  Faults = {"crash","db","expiry"}
  NoRow = NoRow
SYMMETRY Symmetry
INVARIANT DeliveredIsKept
PROPERTIES KeepsEnrolment RevokedStaysDark
CHECK_DEADLOCK FALSE
