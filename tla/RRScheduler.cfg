SPECIFICATION HistorySpec
CONSTANTS
  Threads = {a, b, d}
  Cpus = {c1, c2}
  None = None
  MaxTime = 2
SYMMETRY Alike
INVARIANTS
  TypeOK
  RunningExact
  BoundedOvertaking
PROPERTIES
  KeepsPromise
