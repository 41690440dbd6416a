SPECIFICATION FairSpec
CONSTANTS
  Slots = 3
  Block = 2
  Cap = 2
  MaxInUse = 2
  MaxForks = 1
  MaxTries = 2
  Backends = {"Solaris", "Solaris25", "UnixWare", "IRIX", "FreeBSD", "NetBSD",
              "Cygwin", "HPUX", "DecOSF", "AIX", "Getprocs", "BSDi", "OpenBSD",
              "FreeBSDKvm", "SunOS", "Windows", "WindowsCygwin", "Darwin"}
INVARIANTS
  TypeOK
  Complete
  ReportedOnce
  OwnValues
  GivesBack
PROPERTIES
  ScanEnds
