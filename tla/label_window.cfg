\* Free replies, bootstrap or not, any failure; five shots keep the limit tight.
SPECIFICATION FairSpec
CONSTANTS
  cut1 = cut1
  Cut = {cut1}
  Calls = {c}
  Structured = {a}
  Holistic = {h}
  WindowSize = 3
  WindowStride = 2
  FirstRows <- FiveShots
  MaxReplies = 1
  Bootstrap = {FALSE, TRUE}
  Failures = TRUE
INVARIANTS TypeOK LabelsInOrder NeverExhausted
PROPERTIES CallsEnd
CHECK_DEADLOCK FALSE
