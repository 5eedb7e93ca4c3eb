CONSTANTS
  HourlyRuns = {h1}
  AutofillRuns = {a1}
  FusionRuns = {f1}
  VantageRuns = {v1, v2}
  h1 = h1
  a1 = a1
  f1 = f1
  v1 = v1
  v2 = v2
  MaxTries = 2
  NoZip = NoZip
  Group <- OwnGroups
SPECIFICATION Spec
SYMMETRY VantageSymmetry
CHECK_DEADLOCK FALSE
INVARIANTS
  TypeOK
  AttestedUnlessBlended
PROPERTIES
  OnlyPurgesDrop
  OwnWorkArrives
