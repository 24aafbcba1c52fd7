\* One writer at a time next to two snapshotters and labellers.  The run stops at the bounds.
SPECIFICATION Spec
CONSTANTS
  Nodes = {n1}
  Contents = {a, b}
  Writers = {w1}
  Snapshotters = {k1, k2}
  MaxVersion = 3
  MaxSets = 2
  MaxPins = 1
  NoRow = NoRow
INVARIANTS PinsReproduce RowInHistory
PROPERTIES ImplementsLog
CHECK_DEADLOCK FALSE
