SPECIFICATION MCServiceSpec
CONSTANTS
  ClientIds = {a, b}
  Commands = {"Reconcile", "Stop", "Recover", "Shutdown"}
  Submitters = {s1}
  Hosts = {1, 2, 3}
  QueueCapacity = 1
  RegistryCapacity = 1
  MaxSequence = 6
  MaxAttempts = 3
  RestoreMayFail = FALSE
  MayExceedTimeout = FALSE
INVARIANTS TeardownInv PromptlyDown
PROPERTIES PromptlyReturns
CHECK_DEADLOCK FALSE
