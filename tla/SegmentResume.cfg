CONSTANTS
  Total = 3
  Cuts = 3
  Faults = {"stop", "crash", "fail", "clean", "reset"}
  Budget = 4
SPECIFICATION FairSpec
INVARIANT OutputIsWhole
INVARIANT RecordedAreWhole
PROPERTY RecordedIsNotEncodedAgain
PROPERTY EventuallyDone
CHECK_DEADLOCK FALSE
