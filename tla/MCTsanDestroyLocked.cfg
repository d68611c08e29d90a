\* tsan: a heap mutex is destroyed while it is locked.
CONSTANTS
  Threads = {t1, t2, t3}
  Addrs = {1, 2, 3}
  Lists = {"p", "b"}
  ListOf <- MCListOf
  Blocks = {"b"}
  Vars = {1, 2, 3, 4}
  MaxOps = 4
  Tids = {t1, t2, t3}
  report_destroy_locked = TRUE
SPECIFICATION Spec
SYMMETRY Sym
INVARIANT FindThreadIsLocked
CHECK_DEADLOCK FALSE
