SPECIFICATION FairSpec
CONSTANTS
  Procs = {p1}
  Edits = {}
  MaxConn = 2
  MaxCrash = 1
  MaxBoot = 1
  MaxRestart = 1
  Windows = {}
CHECK_DEADLOCK FALSE
INVARIANTS ExitNotMissed
PROPERTIES ExitIsRecorded KillArrives
