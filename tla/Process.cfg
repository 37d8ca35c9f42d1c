SPECIFICATION ProcessSpec
CONSTANTS
  MaxChildren = 3
  MaxTime = 2
  MaxRestarts = 2
  RestartNever = FALSE
  MaxFailures = 3
  Window = 1
  Acknowledged = TRUE
  KillMayFail = TRUE
  KillModes = {"handle"}
  MaxTries = 2
  Callers = {"c1"}
  MaxLines = 1
  MaxCalls = 2
  EventCapacity = 1
  CtrlCapacity = 1
  MaxKillErrors = 1
  MaxKids = 2
  MaxPolls = 2
  MaxLegacyFaults = 1
INVARIANTS NoStrayChild StopLeavesNothing   KillProven 
PROPERTIES StopReturns AbandonKills
CHECK_DEADLOCK FALSE
