CONSTANTS
  a = a
  b = b
  c = c
  Node = {a, b}
  NoNode = NoNode
  Draws <- DisjointDraws
  Known0 = {a, b}
  InitOrder = "initFirst"
  ContributorSets <- AnyContributors
  MaxPurges = 0
  MaxLost = 1
SPECIFICATION FairSpec
CHECK_DEADLOCK FALSE
PROPERTY
  RetryOnFailure
