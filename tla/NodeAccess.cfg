CONSTANTS
  Users = {ann, bob}
  Procs = {p}
  MaxNode = 4
  MaxDepth = 3
  Threads = {h1, h2}
  Folders = 2
  Given = {0, 10, 30}
  MaxReq = 2
  Windows = {}
SPECIFICATION Spec
INVARIANTS TreeIsSound QueriesAgree SubscribedAgrees ListsAgree
PROPERTIES RightsKept
SYMMETRY Symmetry
CHECK_DEADLOCK FALSE
