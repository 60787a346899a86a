\* Packets of at most six bytes on the wire, fields of two; three calls.
SPECIFICATION FairSpec
CONSTANTS
  a = a
  b = b
  Type = {post}
  Letter = {a, b}
  Pipe = Pipe
  NL = NL
  EscPipe = EscPipe
  EscNL = EscNL
  Malformed = Malformed
  PacketSize = 7
  FieldSize = 3
  MaxFields = 2
  AccumSize = 14
  Content <- Contents
  MaxSends = 3
INVARIANTS TypeOK NeverOverflows
PROPERTIES ImplementsQueue AllDispatched
CHECK_DEADLOCK FALSE
