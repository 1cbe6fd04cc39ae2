SPECIFICATION FairSpec
CONSTANTS
  Cap = 2
  MaxOut = 3
  MaxConn = 2
  MaxCrash = 1
  MaxBoot = 0
  Windows = {}
  gap = gap
  None = None
CHECK_DEADLOCK FALSE
INVARIANTS NothingSkipped
PROPERTY CaughtUp
