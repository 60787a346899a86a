SPECIFICATION Spec
CONSTANTS
  s1 = s1
  s2 = s2
  u1 = u1
  Session = {s1, s2}
  User = {s1, s2}
  UserOf <- OwnUser
  Channel = {c1}
  Emoji = {heart}
  NoChannel = NoChannel
  NoSession = NoSession
  Failed = Failed
  Done = Done
  DbFaults = FALSE
  HistoryLimit = 50
  SummaryLimit = 64
  MaxMessages = 100
  MaxReactions = 200
  MaxRequests = 3
SYMMETRY Symmetry
CHECK_DEADLOCK FALSE
INVARIANT ReactionsLive
