SPECIFICATION Spec
CONSTANTS
  TextFiles = {a, u}
  JsonFiles = {b}
  Unparsable = {u}
  MaxVersion = 2
  MaxRuns = 3
INVARIANTS
  TypeOK
  CachedWasReceived
  ListedWasReceived
  CleanUnlessCachedPartially
CHECK_DEADLOCK FALSE
