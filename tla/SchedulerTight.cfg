\* Too few rows and KV cells: every way the loop can die is reached.
SPECIFICATION Spec
CONSTANTS
  r1 = r1
  r2 = r2
  r3 = r3
  Reqs = {r1, r2, r3}
  NumRows = 2
  NumSlots = 2
  KvSize = 9
  Cells <- MCCells
  BlockSize = 2
  MaxRunning = 3
  ClipMaxNew = 4
  MaxPrefillTokens = 8
  NewTokenRatio = 70
  Asked <- AskedMany
  IgnoreEosReqs = {}
  WaitingTimeout = TRUE
SYMMETRY Symmetry
\* The process ends when an exception is raised.
CHECK_DEADLOCK FALSE
INVARIANTS
  LoopInv
PROPERTIES
  ImplementsContract
