SPECIFICATION Spec
CONSTANTS
  p1 = p1
  p2 = p2
  p3 = p3
  u1 = u1
  u2 = u2
  None = None
  Procs <- MCProcs
  User <- MCUser
  MaxCalls = 2
  MaxChanges = 1
  MaxRemovals = 1
  MaxKills = 1
  DiskMayFill = FALSE
INVARIANTS
  TypeOK
  DiesOnlyWithoutCache
  NoLitter
PROPERTIES
  Publishes
