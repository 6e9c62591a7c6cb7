\* Three requests for two places in the batch; the KV pool is never short.
SPECIFICATION Spec
CONSTANTS
  r1 = r1
  r2 = r2
  r3 = r3
  Reqs = {r1, r2, r3}
  NumRows = 2
  NumSlots = 2
  KvSize = 16
  Cells <- MCCells
  BlockSize = 2
  MaxRunning = 2
  ClipMaxNew = 4
  MaxPrefillTokens = 8
  NewTokenRatio = 70
  Asked <- AskedMore
  IgnoreEosReqs = {r1}
  WaitingTimeout = TRUE
SYMMETRY Symmetry
INVARIANTS
  TypeOK
  NoCrash
  QueuesPartitionRequests
  PositionsMatchPrefix
  PhaseIsCurrent
  OnlyKnownTokensCommitted
  OvershootWithinBlock
PROPERTIES
  ImplementsContract
  AnsweredIsFinal
