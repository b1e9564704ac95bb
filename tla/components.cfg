SPECIFICATION MCSpec
CONSTANTS
  MaxFaults = 1
  Host = {1, 2, 3}
  Key = {"k"}
  Any = "any"
  Filters = {"any", "other"}
  Together = {1, 2}
  Trust <- TrustEachOther
  Operators = {1}
  Removable = {2}
  khMaxChanges = 1
  App = {"a", "b", "c"}
  Depends <- OnAllBefore
  StopOnFailure = {"c"}
  Encrypted = {"a"}
  Asked <- ThreeCommands
  ueUpdateOf <- TwoUpdates
  Secret = {"s"}
  sfContent = {"c"}
  MaxFiles = 2
  sfMaxChanges = 3
  Manager = {1, 2}
  Syncs <- EachOther
  Connected <- EachOther
  Tag = {"x"}
  Copied = {"x"}
  vsStored = {}
  Uploaders = {1}
  Taggers = {1}
  vsMaxEvents = 3
  bkFile = {1, 2}
  bkMaxEvents = 2
  vfUpload = {1, 2}
  vfFile = {1, 2}
  vfMaxEvents = 2
  NoValue = nothing
  MinutesPerHour = 2
  HoursPerDay = 2
  DaysPerWeek = 3
  Days <- ThreeMonths
  LeapMonth = 2
  Configured <- Schedules
  Starts = {0, 45}
  Delays = {1, 5}
  MaxYear = 7
  MaxReboots = 2
  Client = {c1, c2}
  Option = {1, 2}
  Default = 1
  Kinds = 2
  dsMaxEvents = 4
  c1 = c1
  c2 = c2
INVARIANTS TypesOK ViewsAreTrue StopsHold EventsAreKept SecretsHaveFiles VersionsAreTrue
  BackupIsCurrent HostMonitorIsRight
PROPERTIES RemovalIsDurable WaitsEnd AppsComeBack EventsAreReported FilesAreRemoved LoopsEnd
CHECK_DEADLOCK FALSE
