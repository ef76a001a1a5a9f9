SPECIFICATION RegistrationSpec
CONSTANTS
  u1 = u1
  u2 = u2
  u3 = u3
  u4 = u4
  Here = Here
  There = There
  Users = {u1, u2, u3, u4}
  Addresses <- MCAddresses
  Address <- MCAddress
  Founder = u1
  Invites = {i1}
  Offers = {"admin"}
  Locks = {None}
  Codes = {k1}
  Forms = {"register", "provision"}
  Calls = {c1, c2}
  Kinds = {"change", "remove", "invite", "revoke", "accept", "found"}
  Teams = {t1, t2}
  MaxSeats = 2
  MaxTeams = 2
  MaxJoins = 2
  Racing = {"revoke", "accept", "signup", "found"}
  MaxRaces = 1
  MaxFaults = 1
  None = None
SYMMETRY Symmetry
INVARIANTS InviteAdmitsOne OwnerWhenAlone AnsweredCanSignIn FailedCanRetry CodeAdmitsOneWhenAlone
CHECK_DEADLOCK FALSE
