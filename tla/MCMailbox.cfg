SPECIFICATION MailboxSpec
CONSTANTS
  LastUid = 2
  Window = 2
  Senders = {"s1"}
  Threads = {"t1"}
  SenderOf <- MCSenderOf
  ThreadOf <- MCThreadOf
  Actions = {"archive", "surface"}
  Types = {"client"}
  Projects = {"p1", "p2"}
  MaxRows = 3
  Calls = {c1, c2}
  Kinds = {"sync", "mutate", "relate", "associate", "look", "forget"}
  MaxTold = 2
  MaxRaces = 1
  None = None
SYMMETRY Symmetry
INVARIANTS ShownIsStored CountsWhenAlone MarksWhenAlone
CHECK_DEADLOCK FALSE
