CONSTANTS
  a = a
  b = b
  q1 = q1
  q2 = q2
  Unset = Unset
  Ids = {a, b}
  InPlace = {a}
  Segmented = {b}
  Segs = 3
  Configs <- TwoSettings
  Plans <- AllPlans
  Faults = {"crash", "stop", "decline", "fail", "delete", "edit", "reconfig", "restart", "persist", "skip", "throw", "clean"}
  Budget = 4
SPECIFICATION FairSpec
INVARIANT TypeOK
PROPERTY FinishedStaysFinished
PROPERTY SegmentsNotForgotten
PROPERTY EventuallyAllDone
