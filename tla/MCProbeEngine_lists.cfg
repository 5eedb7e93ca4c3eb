SPECIFICATION FairSpec
CONSTANTS
  Lists = {"ipv4", "ipv6"}
  Candidates <- TwoLists
  Longest = 3
  TransportOf <- OneTransport
  FrontOf <- Front1
  Direct = "none"
  Guarded = {"b"}
  Fronts = {"f"}
  Transports = {"snowflake"}
  MaxRetries = 2
  MinWorkers = 1
  MaxWorkers = 2
  Threshold = 2
  Cooldown = 1
  WarmUp = 2
  MaxTime = 2
INVARIANTS
  TypeOK
  BlockedIffFailing
  FailuresCoverHits
  StormBounded
  ResultsCounted
PROPERTIES
  ListsEnd
CHECK_DEADLOCK FALSE
