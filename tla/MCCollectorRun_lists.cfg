SPECIFICATION FairSpec
CONSTANTS
  NLists = 2
  Lines = {"x", "z", "d"}
  LinesOf <- Uneven
  Fronted = {2}
  DefaultLines <- FrontedDefaults
  Verified = {1}
  MaxTest = 1
  RecentHours = 1
  Retention = 1
  PublishOrder <- MixedOrder
  MaxRuns = 2
INVARIANTS
  TypeOK
  SubsetsOfArchive
  ZipMatchesDirectory
PROPERTIES
  ArchivesOnlyGrow
  DamagedHistoryKept
  FirstSeenFixed
  FreshOnlyOnEvidence
  RunEnds
CHECK_DEADLOCK FALSE
