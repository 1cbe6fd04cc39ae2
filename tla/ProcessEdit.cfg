SPECIFICATION Spec
CONSTANTS
  Procs = {p1}
  Edits = {p1}
  MaxConn = 2
  MaxCrash = 1
  MaxBoot = 1
  MaxRestart = 1
  Windows = {"lost", "stale", "kill", "readback"}
CHECK_DEADLOCK FALSE
INVARIANTS ViewersAgree LostIsLost
PROPERTY FinalIsFinal
