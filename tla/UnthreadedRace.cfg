SPECIFICATION Spec
CONSTANTS
  Threads = {t1, t2}
  NoThread = NoThread
  PROCESSTABLE_THREAD = FALSE
  NumFields = 3
  MaxProcs = 1
  MaxCalls = 2
  InitMayDie = FALSE
  TableMayCroak = FALSE
INVARIANT OwnTable
