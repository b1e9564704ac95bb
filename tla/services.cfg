SPECIFICATION MCSpec
CONSTANTS
  ftFile = {1, 2}
  Link = {1}
  ftContents <- SmallContents
  Block = 2
  Flags = {"resume", "ignoreExisting", "deleteExisting"}
  Ahead = 1
  ftMaxEvents = 3
  Server = {1, 2}
  Tunnel = {1, 2}
  ntWants <- AnyOrSecond
  ntMaxEvents = 2
  MaxCloses = 4
  snSensor = {1, 2}
  snMaxEvents = 2
  MaxEntries = 3
  lnMaxFaults = 2
  rgApp = {1, 2}
  MaxSessions = 2
  rgMaxEvents = 2
  Manager = {1, 2}
  ovKey = {1}
  Unset = nothing
  ovStored <- FirstExpects
  ovMaxEvents = 2
  asNone = nothing
  Name = {parent, child}
  Parent <- ParentOf
  Setting = {"executable", "backup"}
  Restarting = {"executable"}
  Installed = {parent, child}
  asMaxEvents = 3
  Config = {1, 2}
  Type <- AsJson
  Contents = {"a", "b"}
  cmUnset = "unset"
  MaxRetries = 1
  cmMaxEvents = 2
  Upload = {1, 2}
  Dump = {1, 2}
  Asset = 0
  duFile = {1, 2}
  duWants <- TwoUploads
  duMaxEvents = 1
  rbApp = {1}
  rbSensor = {1, 2}
  AppOf <- OneApp
  rbInfo <- SensorInfo
  rbMaxEvents = 3
  Secret = {1, 2}
  scStored = {1}
  MaxChanges = 2
  MaxResends = 2
  adManager = {1}
  Version = {1, 2}
  MaxDeploys = 2
  adMaxChanges = 3
  adMaxFaults = 1
  kmServer = {1, 2}
  Slot = {1, 2}
  Key = {k1, k2}
  kmAbsent = absent
  Empty = empty
  Asks <- AskBoth
  MinServers = 2
  MaxPool = 1
  Operations <- AtFirst
  MaxOperations = 2
  kmMaxFaults = 1
  parent = parent
  child = child
  k1 = k1
  k2 = k2
INVARIANTS TypesOK FilesArriveWhole TunnelsAreTrue CloudManagerIsTrue AppManagerIsRight
  HistoryIsTrue SubscriberIsRight KeyServersAgree
CHECK_DEADLOCK FALSE
