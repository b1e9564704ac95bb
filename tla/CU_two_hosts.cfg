SPECIFICATION Spec
CONSTANTS
  Host = {1, 2}
  App = {1}
  Key = {1}
  KeyOf <- OneKey
  TypeOf <- OneAtATimeType
  MaxVersion = 1
  MaxRetry = 0
  MaxStarts = 1
  MaxInFlight = 1
  MaxFaults = 2
  TimersRun = FALSE
INVARIANTS
  TypeOK
  OneAtATime
  OneCasualty
  RolloutInvariant
\* The AppManagers rest once everything is installed or has failed.
CHECK_DEADLOCK FALSE
