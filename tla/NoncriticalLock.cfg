SPECIFICATION FairSpec
CONSTANTS
  Threads = {a, b}
  Pollers = {x}
  Collector = None
  None = None
  NumCpus = 2
  MaxTime = 1
INVARIANTS
  TypeOK
  MutualExclusion
  FrameIsLive
  OwnerWhenResumed
PROPERTIES
  KeepsPromise
  SeizeReturns
