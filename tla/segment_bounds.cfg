\* Three windows, answers within the video, a cap of two and a half seconds.  The run ends with the video.
SPECIFICATION SSpec
CONSTANTS
  Duration = 12
  Second = 2
  W = 6
  O = 2
  MaxSeconds = 5
  Reach = 12
  Summaries = {s, t}
SYMMETRY Interchangeable
INVARIANTS SegTypeOK Gapless Capped NoSlivers SummariesCarry
CHECK_DEADLOCK FALSE
