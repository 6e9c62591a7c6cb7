\* Two requests that finish in different iterations, under either algorithm.
SPECIFICATION AlgorithmSpec
CONSTANTS
  i1 = i1
  i2 = i2
  a = a
  b = b
  Mask = Mask
  Batch = {i1, i2}
  Vocab = {a, b}
  BlockSize = 2
  MaxPostEdit = 2
INVARIANTS
  FreshOnReturn
  NoMaskReturned
  EditsBounded
  Inductive
PROPERTIES
  KeepsContract
  RunReturns
\* run ends when it returns.
CHECK_DEADLOCK FALSE
