SPECIFICATION CollectorSpec
CONSTANTS
  Threads = {a, b}
  Pollers = {x}
  Collector = a
  None = None
  NumCpus = 2
  MaxTime = 1
INVARIANTS
  OwnerWhenResumed
