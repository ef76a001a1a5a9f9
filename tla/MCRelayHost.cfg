SPECIFICATION HostSpec
CONSTANTS
  Calls = {c1, c2}
  Kinds = {"boot", "beat", "gateway", "tunnel", "refresh", "setup", "stop"}
  Tunnels = {t1, t2}
  Actions = {"gateway"}
  Environments <- MCEnvironments
  Window = 1
  MaxClock = 2
  MaxSent = 1
  MaxRaces = 1
  None = None
SYMMETRY Symmetry
INVARIANTS BrokenIsExplained AdviceWorks   StaysDark
CHECK_DEADLOCK FALSE
