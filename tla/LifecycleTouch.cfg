SPECIFICATION Spec
CONSTANTS
  t1 = t1
  a = a
  b = b
  d = d
  Tasks = {t1}
  Threads = {a, b}
  Cpus = {c1, c2}
  None = None
  IdLimits = {3}
  Boot <- MCBoot
INVARIANTS
  ReleasedThreadIsLive
