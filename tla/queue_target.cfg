\* One reviewer approves two requests that point into the tree.
SPECIFICATION Spec
CONSTANTS
  b1 = b1
  b2 = b2
  Requests = {r1, r2}
  Learned <- TwoLearned
  Reviewers = {p}
  Authors = {}
  MaxVersion = 4
  MaxRuns = 0
  OpKinds = {"delete", "modify"}
  Failures = FALSE
  NoRow = NoRow
  TreeNode = tree
PROPERTIES HitsItsTarget
CHECK_DEADLOCK FALSE
