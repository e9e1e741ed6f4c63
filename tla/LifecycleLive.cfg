SPECIFICATION FairSpec
CONSTANTS
  t1 = t1
  a = a
  b = b
  d = d
  Tasks = {t1}
  Threads = {a, b}
  Cpus = {c1, c2}
  None = None
  IdLimits = {2}
  Boot <- MCBoot
PROPERTIES
  GarbageDeleted
