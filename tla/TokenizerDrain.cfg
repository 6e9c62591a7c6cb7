\* A shutdown that waits for the state of a call that has ended.
SPECIFICATION Spec
CONSTANTS
  c1 = c1
  c2 = c2
  i1 = i1
  i2 = i2
  None = None
  Updater = Updater
  Calls = {c1, c2}
  Rids = {i1, i2}
  StreamCalls = {c1}
  MaxQueue = 1
  MaxEvents = 2
  RidChoices <- MCRidChoices
\* The server may end, and so may everything that was asked of it.
CHECK_DEADLOCK FALSE
PROPERTY DrainEnds
