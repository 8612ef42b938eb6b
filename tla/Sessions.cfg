CONSTANTS
  Clients = {c1, c2}
  Queues = {q1, q2}
  MaxInits = 2
  MaxSends = 2
  MaxRestarts = 1
  MaxExits = 1
SPECIFICATION FairSpec
CHECK_DEADLOCK FALSE
INVARIANTS
  TypeOK
  OwedReached
  SentAccounted
  PrintedOnce
PROPERTIES
  EveryMessageBack
  StuckExplained
