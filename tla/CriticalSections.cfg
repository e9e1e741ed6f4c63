SPECIFICATION HastySpec
CONSTANTS
  Threads = {a, b}
  Cpus = {c1, c2}
  None = None
SYMMETRY Alike
INVARIANTS
  TypeOK
  AssertionsHold
  HoldersRun
  NoCircle
  LeavesAsItCame
