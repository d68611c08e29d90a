SPECIFICATION FairSpec
CONSTANTS
  a = a  b = b  c = c  d = d  e = e
  Thread = {t1, t2}
  Stack = {a, b, d, e}
  HashOf <- MCHashOf
  TabSize = 4
  PartSize = 2
  MaxId = 3
  NoStack = NoStack
INVARIANT DepotIsSound
PROPERTIES PublishedForGood ImplementsInterning PutReturns
CHECK_DEADLOCK FALSE
