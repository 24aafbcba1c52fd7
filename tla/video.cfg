\* A run that ingests and one that labels, a resegmentation by script, in any overlap; failures, restarts.
SPECIFICATION FairLSpec
CONSTANTS
  cut0 = cut0
  c = c
  g = g
  Cut = {cut0, g, k}
  Calls = {c}
  Ingesters = {g}
  Resegmenters = {k}
  Structured = {"a"}
  Holistic = {}
  WindowSize = 2
  WindowStride = 1
  FirstRows <- OneRow
  MaxReplies = 0
  Bootstrap = {FALSE}
  MaxShots = 2
  NoCut = nocut
  NoTask = notask
  Tasks <- TwoRuns
  Failures = TRUE
INVARIANTS LTypeOK LabelledEarned CutsAgree LabelsOfRows RunsTell
PROPERTIES RunsEnd
CHECK_DEADLOCK FALSE
