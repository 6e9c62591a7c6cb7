\* Three requests for two places; the KV pool is small enough for an admission to
\* be rejected, and large enough for the loop not to die.
SPECIFICATION FairSpec
CONSTANTS
  r1 = r1
  r2 = r2
  r3 = r3
  Reqs = {r1, r2, r3}
  NumRows = 2
  NumSlots = 2
  KvSize = 10
  Cells <- MCCells
  BlockSize = 2
  MaxRunning = 2
  ClipMaxNew = 4
  MaxPrefillTokens = 8
  NewTokenRatio = 70
  Asked <- AskedFew
  IgnoreEosReqs = {r1}
  WaitingTimeout = FALSE
PROPERTIES
  EveryRequestAnswered
