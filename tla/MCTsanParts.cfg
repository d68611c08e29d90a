\* tsan: SyncVars, traces, reports, atomics, wrappers, signals, the run-time's locks.
CONSTANTS
  Threads = {t1, t2, t3}
  Addrs = {1, 2, 3}
  Lists = {"p", "b"}
  ListOf <- MCListOf
  Blocks = {"b"}
  Vars = {1, 2, 3, 4}
  MaxOps = 4
  Tids = {t1, t2, t3}
  report_destroy_locked = FALSE
SPECIFICATION Spec
SYMMETRY Sym
INVARIANTS
  SyncVarsAreSound
  LocksAreOrdered
  StackIsRestored
  ReportsAreFiltered
  OrderIsSeen
  SignalsAreKept
CHECK_DEADLOCK FALSE
