CONSTANTS
  MaxSets = 4
  Kinds = {"timeout", "interval"}
  MaxSubs = 3
SPECIFICATION MCSpec
CHECK_DEADLOCK FALSE
INVARIANTS
  MCTypeOK
  OneArmed
  StoppedInTime
  OnlyTimeoutStops
  WaitOutlastsSleeps
  UnsubscribedNeverRuns
PROPERTIES
  SetReturns
  SubscriberRuns
