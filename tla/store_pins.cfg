\* Two writers overlap: a citation stops resolving to what was read.
SPECIFICATION Spec
CONSTANTS
  Nodes = {n1}
  Contents = {a, b}
  Writers = {w1, w2}
  Snapshotters = {k1}
  MaxVersion = 2
  MaxSets = 1
  MaxPins = 1
  NoRow = NoRow
INVARIANTS PinsReproduce
CHECK_DEADLOCK FALSE
