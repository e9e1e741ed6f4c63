SPECIFICATION FairSpec
CONSTANTS
  Collector = g
  Threads = {g}
  Adders = {x, y}
  Objects = {o1, o2, o3}
  None = None
  NumCpus = 1
  MaxTime = 1
INVARIANTS
  NeverSleepsPastGarbage
  DeallocInOrder
PROPERTIES
  AllDeallocated
CHECK_DEADLOCK FALSE
