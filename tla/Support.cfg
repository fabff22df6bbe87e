CONSTANTS
  Waiters = {w1, w2}
  Requests = {r1, r2}
  MaxOutput = 3
  Clocks = {1, 2}
  MaxBars = 2
  Full = 4
  SeedGain = 2
  SeedTime = 2
  MaxTime = 4
  MaxSnapshots = 6
  Torn = Torn
  Faults = {"crash", "write", "refuse", "remove", "move", "place", "restore"}
  Budget = 4
  Scores = {0, 1, 2}
  VmafFloor = 1
  XpsnrFloor = 2
  SsimFloor = 1
  NoPoint = NoPoint
  Probers = {p1, p2}
  NumVideos = 2
  MaxEntries = 2
  MaxVersion = 2
  MaxRuns = 2
  TornCache = TornCache
  OptionKeys = {ka, kb}
  Flags = {kb}
  TheKey = ka
  MaxCommands = 2
  ModelFiles = {f1, f2}
  Dlls = {d1}
  MaxVerifyRetries = 1
  MaxModelRuns = 2
SPECIFICATION Spec
INVARIANT StopIsHeard
INVARIANT CallIsTruthful
INVARIANT ScreenIsTruthful
INVARIANT BadgeIsSane
INVARIANT NeverTorn
INVARIANT NothingErased
INVARIANT ProbeIsSound
INVARIANT SettingsAreSound
INVARIANT ModelsAreSound
PROPERTY ImplementsRegister
PROPERTY SupportReturns
CHECK_DEADLOCK FALSE
