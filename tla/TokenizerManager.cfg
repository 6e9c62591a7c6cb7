\* A streamed call and one that is not, with one id or two, and two disturbances.
SPECIFICATION Spec
CONSTANTS
  c1 = c1
  c2 = c2
  i1 = i1
  i2 = i2
  None = None
  Updater = Updater
  Calls = {c1, c2}
  Rids = {i1, i2}
  StreamCalls = {c1}
  MaxQueue = 1
  MaxEvents = 2
  RidChoices <- MCRidChoices
\* The server may end, and so may everything that was asked of it.
CHECK_DEADLOCK FALSE
INVARIANTS
  OwnAnswer
  NoKeyError
  UpdateExclusive
  FlushFailureHasCause
  AbortHasCause
  StatesAccounted
PROPERTIES
  CallsEnd
  OperationsReturn
