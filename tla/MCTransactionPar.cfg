CONSTANTS
  t1 = t1
  t2 = t2
  a1 = a1
  a2 = a2
  None = None
  Threads = {t1, t2}
  Addr = {a1, a2}
  Val = {0, 1}
  Slots = {0, 1}
  JSize = 2
  Ranges <- Lines
  Footprint <- Disjoint
  OrderedFlush = TRUE
  SerialBegin = TRUE
  MaxId = 2
  MaxCrashes = 2
SPECIFICATION Spec
CHECK_DEADLOCK FALSE
INVARIANT DurableStore
PROPERTY ImplementsAtomicStore
