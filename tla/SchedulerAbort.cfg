\* An abort for a request that is parked in the manager.
SPECIFICATION Spec
CONSTANTS
  r1 = r1
  r2 = r2
  Reqs = {r1, r2}
  NumRows = 2
  NumSlots = 2
  KvSize = 16
  Cells <- MCCells
  BlockSize = 2
  MaxRunning = 2
  ClipMaxNew = 4
  MaxPrefillTokens = 8
  NewTokenRatio = 70
  Asked <- AskedMany
  IgnoreEosReqs = {}
  WaitingTimeout = FALSE
INVARIANTS
  AbortTakesEffect
