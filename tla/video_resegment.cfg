\* A labelled video is resegmented.
SPECIFICATION LSpec
CONSTANTS
  cut0 = cut0
  c = c
  g = g
  Cut = {cut0, k}
  Calls = {c}
  Ingesters = {}
  Resegmenters = {k}
  Structured = {"a"}
  Holistic = {}
  WindowSize = 2
  WindowStride = 1
  FirstRows <- TwoRows
  MaxReplies = 0
  Bootstrap = {FALSE}
  MaxShots = 2
  NoCut = nocut
  NoTask = notask
  Tasks <- NoRuns
  Failures = FALSE
INVARIANTS OverviewOfRows
CHECK_DEADLOCK FALSE
