CONSTANTS
  a = a
  b = b
  c = c
  Node = {a, b}
  NoNode = NoNode
  Draws <- CollidingDraws
  Known0 = {a, b}
  InitOrder = "initFirst"
  ContributorSets <- AnyContributors
  MaxPurges = 1
  MaxLost = 1
SPECIFICATION FairSpec
CHECK_DEADLOCK FALSE
INVARIANTS
  TypeOK
  RemovalAgreement
  OneValidator
PROPERTIES
  AgreementSpec
  StallsExplained
