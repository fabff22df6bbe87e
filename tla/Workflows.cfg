CONSTANTS
  Groups = {1, 2}
  Packers = {w1, w2}
  Entries = 2
  MaxPackRuns = 2
  Sizes = {1, 2, 4}
  Dirs = {1, 2}
  MaxFiles = 4
  MaxArchive = 4
  MaxPerPart = 3
  NoLimit = 99
  MaxFolders = 3
  Pics = {p1, p2}
  Clips = {c1}
  MaxPicRuns = 3
  MaxEdits = 1
  Images <- Collisions
  NoImage = NoImage
  Torn = Torn
  MaxSuffix = 5
  CopyFaults = {"crash", "stop", "stage", "rename"}
  CopyBudget = 3
  MaxCopyRuns = 3
  ClusterItems = {1, 2, 3, 4}
  PairScores = {3, 6}
  CombinedTau = 4
  FeatureOnlyTau = 5
  Ceilings = {2, 10}
  Loose = {"i1", "i2"}
  Kept = {"k1", "k2"}
  Galleries <- SomeGalleries
  NoLook = NoLook
  NoWork = NoWork
  MinCharacterDf = 2
  SampleSize = 2
  FlushEvery = 2
  MaxOrgRuns = 2
  MaxFailed = 1
  MaxRenames = 1
  WindowCount = 3
  WindowLen = 2
  ComparisonBudget = 6
  Durations = {0, 1, 5, 6, 7, 9}
  Ranges <- SomeRanges
  WindowScores <- SomeScores
  Unscored = Unscored
  PathOrder <- SomeFiles
  LabelOf <- SomeLabels
  MaxShuffled = 3
  WebpSizes = {12, 21, 25}
  WebpTarget = 20
  SmallGap = 3
  FirstQuality = 80
  MinQuality = 20
  QualityStep = 10
  FineQualityStep = 5
SPECIFICATION Spec
INVARIANT PackIsHonest
INVARIANT PlansAreSound
INVARIANT BatchIsHonest
INVARIANT ConversionsAreSound
INVARIANT OrganizeRunIsSound
INVARIANT CopyPhaseIsSound
INVARIANT PreviewIsSound
PROPERTY CopiesAreKept
PROPERTY PackReturns
CHECK_DEADLOCK FALSE
