\* Three labels, one more shot or two; train, change, track, preview.
SPECIFICATION Spec
CONSTANTS
  Attributes <- TwoAttributes
  Defs <- FlagAndLevel
  Texts <- SomeTexts
  Numeral <- Ones
  Float <- OneFloat
  NotANumber = NaN
  MinRows = 3
  MaxDepth = 2
  MinSamplesLeaf = 1
  FirstLabels <- SomeLabels
  Replies <- SomeReplies
  Changes <- SomeChanges
  MaxLabels = 4
  MaxVersion = 2
  Budget = 8192
  Ceiling = 32768
  Nothing = Nothing
INVARIANTS RowsReproduced
CHECK_DEADLOCK FALSE
