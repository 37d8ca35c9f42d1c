SPECIFICATION ManagerSpec
CONSTANTS
  Configs = {"plain", "protected"}
  Protected = {"protected"}
  MaxEpochs = 3
  MaxGeneration = 2
  DnsMayFail = FALSE
INVARIANT ConvergedAtTail
CHECK_DEADLOCK FALSE
