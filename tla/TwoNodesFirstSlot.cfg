CONSTANTS
  a = a
  b = b
  c = c
  Node = {a, b}
  NoNode = NoNode
  Draws <- DisjointDraws
  Known0 = {}
  InitOrder = "spawnFirst"
  ContributorSets <- AnyContributors
  MaxPurges = 0
  MaxLost = 1
SPECIFICATION Spec
CHECK_DEADLOCK FALSE
INVARIANTS
  SavedIsCompleted
  OwnBlockKept
