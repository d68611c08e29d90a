SPECIFICATION Spec
CONSTANTS
  Thread = {t1, t2}
  Sizes = {1, 3}
  RegionSize = 2
  AddressTop = 8
  Adjacent = TRUE
INVARIANT BlocksDisjoint
CHECK_DEADLOCK FALSE
