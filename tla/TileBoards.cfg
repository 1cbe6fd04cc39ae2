SPECIFICATION Spec
CONSTANTS
  Procs = {1, 2}
  Own = {1}
  Nodes = {1}
  Folders <- Above
  Videos = {1}
  Threads = {h1, h2}
  Ops = {"get", "exec", "attach", "bind", "take", "move", "delete", "share", "video", "purge", "create"}
  Edits = {"open", "go", "close", "place"}
  MaxReq = 2
  MaxEdit = 1
  MaxLoad = 1
  MaxLost = 1
  Windows = {}
CHECK_DEADLOCK FALSE
INVARIANTS BoardsAreSound NothingLost AbandonedIsForced BrowserAgrees
SYMMETRY Symmetry
