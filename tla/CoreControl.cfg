SPECIFICATION FairSpec
CONSTANTS
  ClientIds = {a, b}
  Commands = {"Reconcile", "Shutdown"}
  Submitters = {s1, s2}
  Hosts = {h1}
  QueueCapacity = 2
  RegistryCapacity = 1
  MaxSequence = 5
INVARIANTS TypeOK LiveOperationsOwned 
PROPERTIES ImplementsSerial AdmittedTerminates ShutdownReturns
CHECK_DEADLOCK FALSE
