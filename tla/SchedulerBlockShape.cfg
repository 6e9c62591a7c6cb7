\* A pool with less than a block left for a staged request.
SPECIFICATION Spec
CONSTANTS
  r1 = r1
  r2 = r2
  Reqs = {r1, r2}
  NumRows = 2
  NumSlots = 2
  KvSize = 15
  Cells <- MCCells
  BlockSize = 2
  MaxRunning = 2
  ClipMaxNew = 4
  MaxPrefillTokens = 8
  NewTokenRatio = 70
  Asked <- AskedMany
  IgnoreEosReqs = {}
  WaitingTimeout = FALSE
\* The process ends when an exception is raised.
CHECK_DEADLOCK FALSE
INVARIANTS
  ExtendIsOneBlock
