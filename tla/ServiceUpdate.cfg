CONSTANTS
  Platforms = {"linux", "windows"}
  MaxVersion = 2
  MaxCommands = 4
  MaxMishaps = 1
SPECIFICATION CommandsSpec
CHECK_DEADLOCK FALSE
INVARIANT UpdateReachesService
