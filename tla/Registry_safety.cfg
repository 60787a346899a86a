\* Three connections competing for the mutex of a registry with two slots.
CONSTANTS
  c1 = c1
  c2 = c2
  c3 = c3
  k1 = k1
  Client <- ThreeClients
  Channel <- OneChannel
  NoChannel = NoChannel
  NoClient = NoClient
  Roster = Roster
  RosterFirst = RosterFirst
  NoJob = NoJob
  MaxClients = 2
  SendBuffer = 1
SPECIFICATION Spec
SYMMETRY ClientSymmetry
INVARIANTS
  TypeOK
  NoUseAfterFree
  RegistryConsistent
  BroadcastComplete
