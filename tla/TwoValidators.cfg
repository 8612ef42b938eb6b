CONSTANTS
  a = a
  b = b
  c = c
  Node = {a, b, c}
  NoNode = NoNode
  Draws <- TieDraws
  Known0 = {a, b, c}
  InitOrder = "initFirst"
  ContributorSets <- OneContributor
  MaxPurges = 1
  MaxLost = 0
SPECIFICATION Spec
CHECK_DEADLOCK FALSE
CONSTRAINTS
  OneBusyLoop
  ElectionOnly
  OnePurge
INVARIANT
  OneValidator
