SPECIFICATION GivenSpec
CONSTANTS
  MaxTid = 2
  Quarantine = 9
  ShadowCnt = 4
  Cell = {1}
  Ranges <- OneRange
  Mutex = {}
  Atomic = {3}
  AppMem = {}
  Serial = TRUE
  MaxEpoch = 4
  MaxThreads = 1
  MaxAccesses = 20
CHECK_DEADLOCK FALSE
INVARIANTS
  RaceReported
