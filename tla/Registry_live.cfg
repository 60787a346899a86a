\* Two connections, clients that read when they like.
CONSTANTS
  c1 = c1
  c2 = c2
  c3 = c3
  k1 = k1
  Client <- TwoClients
  Channel <- OneChannel
  NoChannel = NoChannel
  NoClient = NoClient
  Roster = Roster
  RosterFirst = RosterFirst
  NoJob = NoJob
  MaxClients = 2
  SendBuffer = 1
SPECIFICATION FairSpec
INVARIANT
  ServedAreRegistered
PROPERTY
  ConnectionReclaimed
  BroadcastEnds
