SPECIFICATION Spec
CONSTANTS
  t1 = t1
  a = a
  b = b
  d = d
  Tasks = {t1}
  Threads = {a, b, d}
  Cpus = {c1, c2}
  None = None
  IdLimits = {2, 3}
  Boot <- MCBoot
SYMMETRY Alike
INVARIANTS
  TypeOK
  CountsExact
  NoDangling
  SwitchTouchesLive
  ThrownOnce
  QuiescentWhenThrown
  HeldCanBeResumed
PROPERTIES
  NoResurrection
