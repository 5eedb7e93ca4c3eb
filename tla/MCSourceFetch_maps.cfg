SPECIFICATION Spec
CONSTANTS
  Tasks = {t1, t2}
  BridgeDb = db
  Mirrors = {m}
  Free = free
  Threshold = 2
  Cooldown = 1
  MaxTime = 2
INVARIANTS
  TypeOK
  MapsAgree
  OnlyCrossWaitBlocks
CHECK_DEADLOCK FALSE
