CONSTANTS
  Loose = {"i1", "i2"}
  Kept = {"k1", "k2"}
  Galleries <- SomeGalleries
  NoLook = NoLook
  NoWork = NoWork
  MinCharacterDf = 2
  SampleSize = 2
  FlushEvery = 2
  MaxOrgRuns = 2
  MaxFailed = 1
  MaxRenames = 1
SPECIFICATION OrgSpec
INVARIANT MixedTeachesNothing
CHECK_DEADLOCK FALSE
