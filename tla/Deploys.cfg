SPECIFICATION Spec
CONSTANTS
  MaxDep = 1
  Steps = 2
  Backs = 1
  MaxTry = 0
  MaxSingle = 1
  Users = {u1, u2}
  Flushers = {f1, f2}
  AutoBuilds = {TRUE}
  MaxConn = 2
  MaxReset = 0
  MaxBoot = 0
  MaxCancel = 1
  Windows = {"leak"}
CHECK_DEADLOCK FALSE
SYMMETRY Symmetry
INVARIANTS OkIsReal SkippedNeverRan BusyAgrees
PROPERTY ResultsAreFinal
