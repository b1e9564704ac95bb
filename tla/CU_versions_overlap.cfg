SPECIFICATION Spec
CONSTANTS
  Host = {1}
  App = {1, 2}
  Key = {1}
  KeyOf <- OneKey
  TypeOf <- OneAtATimeType
  MaxVersion = 2
  MaxRetry = 0
  MaxStarts = 4
  MaxInFlight = 1
  MaxFaults = 1
  TimersRun = FALSE
INVARIANTS
  OneAtATime
\* The AppManagers rest once everything is installed or has failed.
CHECK_DEADLOCK FALSE
