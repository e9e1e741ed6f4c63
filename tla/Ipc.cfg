SPECIFICATION FairSpec
CONSTANTS
  a = a
  b = b
  p1 = p1
  p2 = p2
  Threads = {a, b}
  Operator = op
  Collector = gc
  Ports = {p1, p2}
  Terminals = {t1, t2}
  Connections = {c}
  Owners <- SmallOwners
  Senders <- TwoSenders
  None = None
INVARIANTS
  TypeOK
  CountsExact
  NoDangling
  PendingExact
  AssertionsHold
PROPERTIES
  KeepsPromise
CHECK_DEADLOCK FALSE
