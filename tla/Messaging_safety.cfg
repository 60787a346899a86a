SPECIFICATION Spec
CONSTANTS
  s1 = s1
  s2 = s2
  u1 = u1
  Session = {s1, s2}
  User = {u1}
  UserOf <- SameUser
  Channel = {c1, c2}
  Emoji = {heart}
  NoChannel = NoChannel
  NoSession = NoSession
  Failed = Failed
  Done = Done
  DbFaults = FALSE
  HistoryLimit = 2
  SummaryLimit = 64
  MaxMessages = 2
  MaxReactions = 200
  MaxRequests = 3
SYMMETRY Symmetry
INVARIANTS TypeOK NoLostMessage DeletionReaches
PROPERTY ImplementsRoom
CHECK_DEADLOCK FALSE
