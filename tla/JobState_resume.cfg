CONSTANTS
  a = a
  b = b
  q1 = q1
  q2 = q2
  Unset = Unset
  Ids = {a, b}
  InPlace = {}
  Segmented = {a}
  Segs = 2
  Configs <- PackConfigs
  Plans <- AnyPlan
  Faults = {"crash", "stop", "decline", "fail", "delete", "skip"}
  Budget = 4
SPECIFICATION Spec
 
PROPERTY NothingLeftRunning
