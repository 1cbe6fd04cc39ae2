SPECIFICATION Spec
CONSTANTS
  Procs = {p1}
  Edits = {}
  MaxConn = 2
  MaxCrash = 0
  MaxBoot = 0
  MaxRestart = 0
  Windows = {"lost", "drain", "stale", "cut"}
CHECK_DEADLOCK FALSE
INVARIANTS RecordedExitIsTrue ExitAfterSync LiveIsBound
