SPECIFICATION FairSpec
CONSTANTS
  first = first
  second = second
  one = one
  two = two
  three = three
  Threads = {a, b}
  Sectors = {first, second}
  Pages = {one, two, three}
  SectorOf <- TwoSectors
  Outside = Outside
  Frames = {f1, f2}
  Image = Image
  None = None
INVARIANTS
  TypeOK
  MappingsSound
  WritesKeptUnlessRaced
  FreedUnlessRaced
PROPERTIES
  FaultResolved
CHECK_DEADLOCK FALSE
