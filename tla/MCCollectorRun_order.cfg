SPECIFICATION Spec
CONSTANTS
  NLists = 1
  Lines = {"x", "d"}
  LinesOf <- AllLines
  Fronted = {1}
  DefaultLines <- FrontedDefaults
  Verified = {}
  MaxTest = 0
  RecentHours = 1
  Retention = 2
  PublishOrder <- OneListOrder
  MaxRuns = 3
INVARIANTS
  DeterministicPublication
CHECK_DEADLOCK FALSE
