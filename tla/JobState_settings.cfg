CONSTANTS
  a = a
  b = b
  q1 = q1
  q2 = q2
  Unset = Unset
  Ids = {a}
  InPlace = {}
  Segmented = {a}
  Segs = 1
  Configs <- TwoSettings
  Plans <- OnlyA
  Faults = {"crash", "reconfig"}
  Budget = 2
SPECIFICATION Spec
INVARIANT RecoveredUnderSettings
