\* A bootstrap, a training and a shot over two categories, one of them authored before, in any overlap.
SPECIFICATION FairSpec
CONSTANTS
  sex = sex
  game = game
  x = x
  y = y
  Active <- TwoActive
  Names = {x, y}
  Replies <- SomeReplies
  Bootstraps = {k}
  Trainings = {t}
  Judgings = {s}
  MinRows = 1
  MaxDrafts = 1
  Earlier = k0
  FirstNames <- SexAuthored
  Pegi = pegi
  None = none
INVARIANTS TypeOK TreeOverDefined LabelCarriesTree SummaryTells
PROPERTIES EveryCategoryTried
CHECK_DEADLOCK FALSE
