CONSTANTS
  MaxSets = 2
  Kinds = {"timeout", "interval"}
SPECIFICATION TimerSpec
CHECK_DEADLOCK FALSE
INVARIANT
  SetTimerRuns
