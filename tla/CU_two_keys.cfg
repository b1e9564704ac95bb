SPECIFICATION FairSpec
CONSTANTS
  Host = {1, 2}
  App = {1, 2}
  Key = {1, 2}
  KeyOf <- OwnKey
  TypeOf <- MixedTypes
  MaxVersion = 1
  MaxRetry = 0
  MaxStarts = 2
  MaxInFlight = 1
  MaxFaults = 0
  TimersRun = FALSE
INVARIANTS
  OneKeyAtATime
  ReadyBeforeStop
PROPERTIES
  RolloutCompletes
\* The AppManagers rest once everything is installed or has failed.
CHECK_DEADLOCK FALSE
