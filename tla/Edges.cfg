SPECIFICATION EdgesSpec
CONSTANTS
  Daemons = {"d1", "d2"}
  Contents = {"a", "b"}
  MaxEpoch = 2
  MaxFaults = 2
  ControllerDir = TRUE
  StoreHosts = {"service", "desktop"}
  CoreKinds = {"Mihomo", "ClashRust", "Meow"}
  LegacyKinds = {"Mihomo", "ChimeraClient", "none"}
  MaxCores = 2
  MaxVersions = 1
  MaxLogLines = 4
  MaxContinuations = 2
  MaxText = 5
  Day = 6
  MaxDays = 3
  RingCapacity = 2
  MaxBatch = 2
  MaxBytes = 3
  MaxFiles = 1
  FrameSize = 2
  MaxFrames = 4
  MaxRuns = 2
  MaxDiskFaults = 1
  MaxRetries = 3
  MaxPipeTries = 3
  Platforms = {"linux", "windows"}
  MaxVersion = 2
  MaxCommands = 4
  MaxMishaps = 1
INVARIANTS ConfigKept SweepComplete OneCoreOnData  HolesVisible AtMostOnce 
CHECK_DEADLOCK FALSE
