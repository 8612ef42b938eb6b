CONSTANTS
  Slots = 3
  MaxReceived = 1
  MaxLive = 2
  MaxRestarts = 0
SPECIFICATION Spec
CHECK_DEADLOCK FALSE
PROPERTY
  NoOverride
