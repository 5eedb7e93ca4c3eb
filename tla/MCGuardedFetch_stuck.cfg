SPECIFICATION Spec
CONSTANTS
  Fetchers = {f1, f2}
  FailureThreshold = 2
  SuccessThreshold = 2
  OpenDuration = 1
  HalfOpenMax = 1
  MaxAttempts = 2
  Burst = 1
  MaxCalls = 3
  MaxTime = 3
INVARIANTS
  NeverStuck
CHECK_DEADLOCK FALSE
