CONSTANTS
  Peers = {p1, p2}
  Self = self
  Validator = p1
  Slots = 2
  MaxKills = 1
  MaxDead = 1
  MaxQueue = 1
SPECIFICATION FairSpec
CHECK_DEADLOCK FALSE
INVARIANTS
  TypeOK
  
  
PROPERTY
  GetsThrough
