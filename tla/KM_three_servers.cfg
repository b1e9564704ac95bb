\* A key that is pre-created at one of three servers, and two requests at another.
SPECIFICATION Spec
CONSTANTS
  Server = {1, 2, 3}
  Slot = {1, 2}
  Key = {k1}
  Absent = Absent
  Empty = Empty
  Asks <- ThirdServer
  MinServers = 2
  MaxPool = 1
  Operations <- OnePoolThreeServers
  MaxOperations = 3
  MaxFaults = 0
INVARIANTS OneSlotPerKey
CHECK_DEADLOCK FALSE
