SPECIFICATION Spec
CONSTANTS
  Builds = {b1, b2}
  Commons = {c1}
  Texts = {x, y}
  Threads = {h1, h2}
  Size = 2
  MaxReq = 4
  Windows = {}
  Null = Null
  Hole = Hole
CHECK_DEADLOCK FALSE
INVARIANTS DiskAgrees UsesAreNamed LockedWasDeployed UploadsAreWhole
PROPERTY LockedStays
SYMMETRY Symmetry
