CONSTANTS
  Slots = 3
  MaxReceived = 3
  MaxLive = 3
  MaxRestarts = 1
SPECIFICATION FairSpec
CHECK_DEADLOCK FALSE
INVARIANTS
  TypeOK
  IndexSafe
  OnceUnlessShifted
  PendingAccounted
PROPERTIES
  OverrideNeedsShift
  EveryMessagePlaced
