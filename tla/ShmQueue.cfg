\* Readers of both kinds; a fits the buffer of those that copy, b does
\* not.
CONSTANTS
  a = a
  b = b
  over = over
  Messages = {a, b, over}
  SizeOf <- FittingSizes
  Size = 4
  DataSize = 10
  HdrSize = 5
  BufSize = 4
  ReadModes = {"zc", "copy"}
  Nothing = Nothing
  Garbled = Garbled
SPECIFICATION FairSpec
INVARIANTS
  TypeOK
  WriterOwnsItsSlot
  ReaderOwnsItsSlot
  MessagesIntact
  NeighbourIntact
PROPERTIES
  IsChannel
  FrontIsReleased
