\* A window of two users neither of whom is an admin.
SPECIFICATION Spec
CONSTANTS
  window = window
  Window = {window}
  User = {1, 2}
  Admin = {}
  Name <- Names
  Text <- Texts
  NoName = NoName
  Cut <- Cuts
  Tokens <- Pieces
  Overlong = {"endless"}
  Truthy = {"t"}
  FirstChannels <- ThreeChannels
  FirstUsed = {1}
  DbFaults = TRUE
  ListLimit = 64
  MaxChannels = 3
  Typed = {"main"}
  MaxClicks = 4
PROPERTY
  RemovalConfirmed
CHECK_DEADLOCK FALSE
