SPECIFICATION PartsSpec
CONSTANTS
  x = x  y = y  z = z
  Thread = {t1}
  Object = {x}
  Ops = {"exchange", "store", "load"}
  Apis = {"generic"}
  Size = 2
  SizeOf <- MCSizeOf
  Lock = {"lock1", "lock2"}
  LockFor <- MCLockFor
  LockFree = {1, 2, 4, 8}
  Calls <- MCCalls
  NoCall = NoCall
  NoResult = NoResult
INVARIANT StoreTakesEffect
CHECK_DEADLOCK FALSE
