SPECIFICATION Spec
CONSTANTS
  Host = {1}
  App = {1, 2}
  Key = {1}
  KeyOf <- OneKey
  TypeOf <- OneAtATimeType
  MaxVersion = 1
  MaxRetry = 1
  MaxStarts = 3
  MaxInFlight = 1
  MaxFaults = 2
  TimersRun = TRUE
INVARIANTS
  RolloutInOrder
PROPERTIES
  RollsOut
  FailureWasTried
\* The AppManagers rest once everything is installed or has failed.
CHECK_DEADLOCK FALSE
