SPECIFICATION Spec
CONSTANTS
  Cap = 2
  MaxOut = 3
  MaxConn = 2
  MaxCrash = 0
  MaxBoot = 1
  Windows = {"early", "drain", "relays", "socket", "purge"}
  gap = gap
  None = None
CHECK_DEADLOCK FALSE
INVARIANTS GapsAreMarked
