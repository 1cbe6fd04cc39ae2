SPECIFICATION FairSpec
CONSTANTS
  MaxDep = 2
  Steps = 1
  Backs = 1
  MaxTry = 1
  MaxSingle = 0
  Users = {u1, u2}
  Flushers = {f1}
  AutoBuilds = {FALSE}
  MaxConn = 2
  MaxReset = 1
  MaxBoot = 1
  MaxCancel = 0
  Windows = {"tardy"}
CHECK_DEADLOCK FALSE
INVARIANTS SummaryAgrees UndoesNewest InstalledAgrees
PROPERTY DeploysEnd
