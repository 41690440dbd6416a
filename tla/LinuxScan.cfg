SPECIFICATION FairSpec
CONSTANTS
  Pids = {p1, p2}
  Others = {meminfo}
  MaxForks = 2
  WarnMayDie = TRUE
INVARIANTS
  TypeOK
  Complete
  NoGhost
  ScrapedOnly
  PointersLive
  PoolAccounting
PROPERTIES
  ScanEnds
