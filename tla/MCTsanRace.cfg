SPECIFICATION PartsSpec
CONSTANTS
  MaxTid = 2
  Quarantine = 9
  ShadowCnt = 2
  Cell = {1}
  Ranges <- OneRange
  Mutex = {2}
  Atomic = {}
  AppMem = {}
  Serial = FALSE
  MaxEpoch = 5
  MaxThreads = 1
  MaxAccesses = 3
CHECK_DEADLOCK FALSE
INVARIANTS
  ClocksAreSound NoFalseAlarm EpochsAreUnique RacesAreReported
