\* Two writers and a snapshotter, any overlap.  The run stops at the bounds.
SPECIFICATION Spec
CONSTANTS
  Nodes = {n1}
  Contents = {a, b}
  Writers = {w1, w2}
  Snapshotters = {k1}
  MaxVersion = 3
  MaxSets = 1
  MaxPins = 1
  NoRow = NoRow
SYMMETRY Interchangeable
INVARIANTS TypeOK HistoryDense PinsResolve
PROPERTIES HistoryTextFrozen
CHECK_DEADLOCK FALSE
