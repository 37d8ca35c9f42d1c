SPECIFICATION MCInstanceSpec
CONSTANTS
  MaxChildren = 2
  MaxRestarts = 1
  MaxObservations = 1
  SuccessThreshold = 1
  FailureThreshold = 1
  LaunchKinds = {"Mihomo", "ClashRust", "Meow"}
  BuildVersions = {1, 3, 4}
  MaxBuilds = 2
  MaxPlans = 2
  MaxPids = 2
  ConfigBases <- Bases
  Candidates <- UserCandidates
  NestedCandidates <- UserNested
  MaxEdits = 3
INVARIANTS RunningIsProven StopProvesDeath HealthyIsAuthorized LiveMatchesPlan InstanceInv
PROPERTIES NoRunningAfterTimeout 
CHECK_DEADLOCK FALSE
