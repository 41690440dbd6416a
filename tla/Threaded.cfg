SPECIFICATION FairSpec
CONSTANTS
  Threads = {t1, t2}
  NoThread = NoThread
  PROCESSTABLE_THREAD = TRUE
  NumFields = 3
  MaxProcs = 2
  MaxCalls = 3
  InitMayDie = FALSE
  TableMayCroak = FALSE
INVARIANTS
  TypeOK
  OwnTable
  FieldsAfterTable
PROPERTIES
  ReturnedTableStable
  CallsReturn
