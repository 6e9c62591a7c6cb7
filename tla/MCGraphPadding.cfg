\* A batch of one request is padded to two.
SPECIFICATION GSpec
CONSTANTS
  r1 = r1
  r2 = r2
  c1 = c1
  c2 = c2
  c3 = c3
  c4 = c4
  Reqs = {r1, r2}
  NumRows = 2
  NumSlots = 2
  Cells = {c1, c2, c3, c4}
  BlockSize = 2
  CaptureSizes = {{2}}
SYMMETRY Symmetry
\* The pool may be full of parked requests: what follows is the scheduler's matter.
CHECK_DEADLOCK FALSE
INVARIANT ReplayWritesOwnStates
