\* Every batch size is captured, or batches of two are too large for the graphs.
SPECIFICATION GSpec
CONSTANTS
  r1 = r1
  r2 = r2
  c1 = c1
  c2 = c2
  c3 = c3
  c4 = c4
  Reqs = {r1, r2}
  NumRows = 2
  NumSlots = 2
  Cells = {c1, c2, c3, c4}
  BlockSize = 2
  CaptureSizes = {{1}, {1, 2}}
SYMMETRY Symmetry
\* The pool may be full of parked requests: what follows is the scheduler's matter.
CHECK_DEADLOCK FALSE
INVARIANTS
  Ownership
  StateMatchesPrefix
  StagedStateIsRow
  Inductive
  ReplayWritesOwnStates
PROPERTIES
  CommitsAppendOneBlock
  ReplayImplementsContract
