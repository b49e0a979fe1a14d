CONSTANTS
  Threads = {t1, t2, t3}
  Addresses = {0, 64, 128}
  Width = 64
  NumStripes = 2
  ReaderModulus = 4
  RetryFailedLock = FALSE
SYMMETRY Symmetry
SPECIFICATION Spec
INVARIANTS MapsMatchLocks TxExclusion
