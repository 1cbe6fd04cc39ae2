SPECIFICATION Spec
CONSTANTS
  esc = esc
  mid = mid
  on = on
  no = no
  Zero = Zero
  Bytes <- MCBytes
  AltSeqs <- MCAltSeqs
  AltCarry = 2
  Cap = 3
  MaxLen = 5
CHECK_DEADLOCK FALSE
INVARIANTS IsWindow
PROPERTY ImplementsLog
