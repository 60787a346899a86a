\* Two sessions of three people, one of whom has no account yet.
SPECIFICATION Spec
CONSTANTS
  root = root
  guard = guard
  guest = guest
  s1 = s1
  s2 = s2
  Session = {s1, s2}
  User = {root, guard, guest}
  NoUser = NoUser
  NoSession = NoSession
  FirstRole <- Staff
  DbFaults = {}
  RosterRoom = 3
  MaxRequests = 3
SYMMETRY SessionSymmetry
INVARIANT RosterLive
CHECK_DEADLOCK FALSE
