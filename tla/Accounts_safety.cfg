\* Two sessions of three people, one of whom has no account yet, and a roster
\* with room for two of them.
SPECIFICATION FairSpec
CONSTANTS
  root = root
  guard = guard
  guest = guest
  s1 = s1
  s2 = s2
  Session = {s1, s2}
  User = {root, guard, guest}
  NoUser = NoUser
  NoSession = NoSession
  FirstRole <- Staff
  DbFaults <- AllButTheCheck
  RosterRoom = 2
  MaxRequests = 3
INVARIANTS
  TypeOK
  OnlineShown
  BansEntitled
PROPERTIES
  BanHolds
  HandlersReturn
CHECK_DEADLOCK FALSE
