SPECIFICATION FairSpec
CONSTANTS
  Threads = {a, b}
  NumCpus = 2
  MaxTime = 3
PROPERTIES WakeupRecorded KeepsPromise
CHECK_DEADLOCK FALSE
