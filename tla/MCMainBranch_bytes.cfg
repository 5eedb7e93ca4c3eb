CONSTANTS
  HourlyRuns = {h1}
  AutofillRuns = {a1}
  FusionRuns = {}
  VantageRuns = {}
  h1 = h1
  a1 = a1
  MaxTries = 2
  NoZip = NoZip
  Group <- OwnGroups
SPECIFICATION Spec
CHECK_DEADLOCK FALSE
PROPERTIES
  SameBytes
