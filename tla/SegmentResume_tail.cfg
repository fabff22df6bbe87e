CONSTANTS
  Total = 3
  Cuts = 2
  Faults = {"stop"}
  Budget = 2
SPECIFICATION FairSpec
PROPERTY EventuallyDone
CHECK_DEADLOCK FALSE
