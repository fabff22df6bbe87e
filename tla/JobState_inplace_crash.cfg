CONSTANTS
  a = a
  b = b
  q1 = q1
  q2 = q2
  Unset = Unset
  Ids = {a}
  InPlace = {a}
  Segmented = {}
  Segs = 1
  Configs <- OneConfig
  Plans <- OnlyA
  Faults = {"crash"}
  Budget = 1
SPECIFICATION Spec
INVARIANT PartialNeverRecovered
