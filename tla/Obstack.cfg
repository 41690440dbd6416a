SPECIFICATION Spec
CONSTANTS
  Low = 2
  High = 14
  SizeMax = 31
  Alignment = 2
  Header = 1
  ChunkSize = 4
  Extra = 1
  Buffer = 2
  Lengths = {0, 1, 3, 31}
  MaxObjects = 3
  Byte = {b}
  Junk = Junk
  b = b
INVARIANTS
  TypeOK
  ChainIsLive
  ObjectsLive
  Aligned
PROPERTIES
  StackOfObjects
CHECK_DEADLOCK FALSE
