\* Every operation, crashes, broken connections and failed writes, and the synchronisations after.
SPECIFICATION FairSpec
CONSTANTS
  Server = {1, 2}
  Slot = {1}
  Key = {k1, k2, k3}
  Absent = Absent
  Empty = Empty
  Asks <- AnyServer
  MinServers = 2
  MaxPool = 1
  Operations <- OperationsAndSyncs
  MaxOperations = 3
  MaxFaults = 1
PROPERTIES WrittenKeysStay TasksEnd
CHECK_DEADLOCK FALSE
