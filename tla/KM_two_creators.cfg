\* A client asks both servers for the key of one identifier.
SPECIFICATION Spec
CONSTANTS
  Server = {1, 2}
  Slot = {1}
  Key = {k1, k2}
  Absent = Absent
  Empty = Empty
  Asks <- AnyServer
  MinServers = 2
  MaxPool = 1
  Operations <- RequestsAnywhere
  MaxOperations = 2
  MaxFaults = 0
INVARIANTS ServersAgree
CHECK_DEADLOCK FALSE
