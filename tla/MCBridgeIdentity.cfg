SPECIFICATION FairSpec
CONSTANTS
  Codes = {p1}
  Devices = {d1}
  Creds = {k1, k2, k3}
  Calls = {c1, c2}
  Kinds = {"authorize", "poll", "renew", "revoke"}
  MaxDevices = 1
  Faults = {"crash"}
  Loops = {"heartbeat"}
  LinkFaults = {"lost"}
  NoRow = NoRow
INVARIANT ErasedForACause
PROPERTY RevokedIsForgotten
CHECK_DEADLOCK FALSE
