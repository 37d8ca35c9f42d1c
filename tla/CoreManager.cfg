SPECIFICATION MCManagerSpec
CONSTANTS
  WireTypes = {"a", "b"}
  Moves = {"Crashed", "Switching"}
  HubCapacity = 2
  MaxChanges = 1
  MaxReconciles = 2
  MaxTraces = 1
  MaxConnects = 1
  Configs = {"plain", "protected"}
  Protected = {"protected"}
  MaxEpochs = 3
  MaxGeneration = 2
  DnsMayFail = TRUE
  MaxCrashes = 3
  BootRestoreMayFail = FALSE
INVARIANTS NoLostProcess   OverrideIsRecorded  FeedCurrent  
PROPERTIES OrphanUndone
CHECK_DEADLOCK FALSE
