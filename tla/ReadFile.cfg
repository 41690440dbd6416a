SPECIFICATION Spec
CONSTANTS
  Chunk = 3
  MaxLength = 7
  Below = 2
INVARIANTS
  TypeOK
  StaysInObject
  TextIsFile
  LeavesOnlyText
PROPERTIES
  ReadsToEnd
