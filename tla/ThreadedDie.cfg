SPECIFICATION FairSpec
CONSTANTS
  Threads = {t1, t2}
  NoThread = NoThread
  PROCESSTABLE_THREAD = TRUE
  NumFields = 3
  MaxProcs = 1
  MaxCalls = 2
  InitMayDie = TRUE
  TableMayCroak = FALSE
PROPERTY CallsReturn
CHECK_DEADLOCK FALSE
