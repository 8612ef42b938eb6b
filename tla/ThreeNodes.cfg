CONSTANTS
  a = a
  b = b
  c = c
  Node = {a, b, c}
  NoNode = NoNode
  Draws <- CollidingDraws
  Known0 = {a, b, c}
  InitOrder = "spawnFirst"
  ContributorSets <- TwoContributors
  MaxPurges = 1
  MaxLost = 0
SPECIFICATION Spec
CHECK_DEADLOCK FALSE
CONSTRAINTS
  OneBusyLoop
  OnePurge
  OneOvertaker
  ElectionOnlyAfterPurge
INVARIANTS
  ValidatorAgreement
  CrashExplained
  NoTrafficAfterClear
  CompleteBlock
