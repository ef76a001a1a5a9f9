SPECIFICATION AccountsSpec
CONSTANTS
  Users = {u1, u2}
  Admins = {u2}
  Addresses = {x1, x2}
  Accounts = {a1, a2}
  Creds = {s1, s2, s3}
  Messages = {m1}
  Forms = {"oauth", "imap", "proton", "portalImap", "portalProton"}
  Calls = {c1, c2}
  MaxMailboxes = 1
  MaxRaces = 1
  None = None
SYMMETRY Symmetry
INVARIANTS CredentialsAreOwners OffStaysOff
CHECK_DEADLOCK FALSE
