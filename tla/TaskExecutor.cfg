CONSTANTS
  TaskCount = 3
  MaxConcurrency = 3
  None = None
SPECIFICATION FairSpec
INVARIANT Exclusive
INVARIANT StopIsPrompt
INVARIANT HookIsTruthful
PROPERTY ImplementsBatch
PROPERTY BatchReturns
CHECK_DEADLOCK FALSE
