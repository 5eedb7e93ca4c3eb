SPECIFICATION FairSpec
CONSTANTS
  Conns = {c1, c2, c3}
  Clients = {k1, k2}
  K = 2
  MaxProbes = 2
  Burst = 1
  Rate = 1
  MaxTime = 2
  MaxStops = 1
INVARIANTS
  TypeOK
  ConsentFirst
  PermitsConserved
  RateRespected
  Anonymous
  OnceOnly
PROPERTIES
  MixesReports
  Answered
CHECK_DEADLOCK FALSE
