\* A reviewer and an author, in any overlap, any failure.
SPECIFICATION FairSpec
CONSTANTS
  b1 = b1
  b2 = b2
  Requests = {r1, r2}
  Learned <- OneLearned
  Reviewers = {p}
  Authors = {a}
  MaxVersion = 5
  MaxRuns = 1
  OpKinds = {"add", "modify", "delete", "text"}
  Failures = TRUE
  NoRow = NoRow
  TreeNode = tree
INVARIANTS TypeOK HumanGate LandsOnce
PROPERTIES CommitIsExact ApprovedLands
CHECK_DEADLOCK FALSE
