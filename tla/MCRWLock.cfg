CONSTANTS
  t1 = t1
  t2 = t2
  t3 = t3
  Threads = {t1, t2, t3}
  WRITE_LOCK = 4
  MAX_ATTEMPTS = 2
SPECIFICATION FairSpec
INVARIANTS Exclusion WordMatchesThreads AssertionsHold
PROPERTIES ImplementsReadersWriter EveryCallEnds
