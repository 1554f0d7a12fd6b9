\* b is as long as data_size allows.
CONSTANTS
  a = a
  b = b
  over = over
  Messages = {a, b}
  SizeOf <- FullSizes
  Size = 4
  DataSize = 10
  HdrSize = 5
  BufSize = 4
  ReadModes = {"zc", "copy"}
  Nothing = Nothing
  Garbled = Garbled
SPECIFICATION Spec
INVARIANT MessagesIntact
