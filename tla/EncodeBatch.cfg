CONSTANTS
  Items = {i1, i2}
  Workers = {1, 2}
  None = None
  Configs <- SomeConfigs
SPECIFICATION FairSpec
INVARIANT SummaryIsHonest
INVARIANT FailuresAreTheirOwn
INVARIANT EndIsHonest
INVARIANT MonitorSeesAll
PROPERTY RunReturns
CHECK_DEADLOCK FALSE
