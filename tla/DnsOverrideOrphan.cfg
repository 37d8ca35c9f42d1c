CONSTANTS
  MaxCrashes = 2
  BootRestoreMayFail = TRUE
SPECIFICATION Spec
INVARIANT OkIsConverged
CHECK_DEADLOCK FALSE
