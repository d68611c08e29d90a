SPECIFICATION Spec
CONSTANTS
  SI = 4
  Counted = 16
PROPERTIES
  IntegersAgree
  FloatsRoundOnce
CHECK_DEADLOCK FALSE
