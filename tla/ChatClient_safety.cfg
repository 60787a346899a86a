\* A window of an admin and a user, who log in one after the other; room for
\* three channels; statements that fail.
SPECIFICATION FairSpec
CONSTANTS
  window = window
  Window = {window}
  User = {1, 2}
  Admin = {1}
  Name <- Names
  Text <- Texts
  NoName = NoName
  Cut <- Cuts
  Tokens <- Pieces
  Overlong = {"endless"}
  Truthy = {"t"}
  FirstChannels <- ThreeChannels
  FirstUsed = {1}
  DbFaults = TRUE
  ListLimit = 64
  MaxChannels = 3
  Typed = {"main"}
  MaxClicks = 4
INVARIANTS
  TypeOK
  IdentityRight
  ListTruthful
  CreationsListed
  LinesPlaced
PROPERTIES
  OrderlyRemoval
  
  PendingSettles
CHECK_DEADLOCK FALSE
