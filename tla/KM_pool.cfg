\* Two servers create keys and use pre-created ones at once.
SPECIFICATION Spec
CONSTANTS
  Server = {1, 2}
  Slot = {1, 2}
  Key = {k1, k2, k3}
  Absent = Absent
  Empty = Empty
  Asks <- OwnServer
  MinServers = 2
  MaxPool = 1
  Operations <- PoolOperations
  MaxOperations = 3
  MaxFaults = 0
INVARIANTS TypeOK OneSlotPerKey VerifiedServersHoldKey UsedKeysLeavePool ServersAgree
CHECK_DEADLOCK FALSE
