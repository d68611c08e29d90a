SPECIFICATION PartsSpec
CONSTANTS
  x = x  y = y  z = z
  Thread = {t1, t2}
  Object = {x, y, z}
  Ops = {"load", "store", "exchange", "cas", "fetch"}
  Apis = {"sized"}
  Size = 2
  SizeOf <- MCSizeOf
  Lock = {"lock1", "lock2"}
  LockFor <- MCLockFor
  LockFree = {1}
  Calls <- MCCalls
  NoCall = NoCall
  NoResult = NoResult
INVARIANTS HoldersAreExact CountersAreSums ChecksAreRight LandingPadsAreFound
PROPERTIES CallsAreAtomic TakenLockIsReleased
CHECK_DEADLOCK FALSE
