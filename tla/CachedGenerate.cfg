\* Two rows; prompts that end inside a block and at its end, and a generation that is
\* shorter than a block.
SPECIFICATION CachedSpec
CONSTANTS
  b1 = b1
  b2 = b2
  a = a
  e = e
  Mask = Mask
  Calls <- MCCalls
  BlockLength = 2
  StepsArg = 3
  MinimalTopk = 1
  MaxPostSteps = 1
  NumToTransfer = 1
  Vocab = {a, e}
  Eos = e
  PromptTokens = {e}
  NumLayers = 3
  LinearLayers = {2}
INVARIANTS
  CachedInv
  MaskReturnedOnlyIf
  CacheIsCurrent
PROPERTIES
  OnlyCurrentBlockChanges
  ReadOnlyInRefinement
  ImplementsGenerate
  Returns
\* generate ends when it returns.
CHECK_DEADLOCK FALSE
