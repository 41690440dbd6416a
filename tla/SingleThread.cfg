SPECIFICATION Spec
CONSTANTS
  Threads = {t1}
  NoThread = NoThread
  PROCESSTABLE_THREAD = FALSE
  NumFields = 3
  MaxProcs = 2
  MaxCalls = 5
  InitMayDie = TRUE
  TableMayCroak = TRUE
INVARIANTS
  FreshScan
  FieldsExact
