\* An array of two entries, three messages in two channels.
SPECIFICATION FairSpec
CONSTANTS
  here = here
  there = there
  Id = {1, 2, 3}
  Channel = {here, there}
  ChannelOf <- TwoHere
  NoChannel = NoChannel
  MaxMessages = 2
  MaxArrivals = 3
  MaxTurns = 1
INVARIANTS TypeOK ArrayIsList FrameTrue
PROPERTIES TrashRight Shown
CHECK_DEADLOCK FALSE
