CONSTANTS
  Pics = {p1}
  Clips = {c1}
  MaxPicRuns = 3
  MaxEdits = 1
SPECIFICATION PicSpec
INVARIANT StaleClipsAreNotPacked
CHECK_DEADLOCK FALSE
