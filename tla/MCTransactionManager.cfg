CONSTANTS
  t1 = t1
  t2 = t2
  t3 = t3
  Threads = {t1, t2, t3}
  MaxTransactions = 2
  MaxId = 4
  MaxCrashes = 1
SPECIFICATION Spec
SYMMETRY Symmetry
CHECK_DEADLOCK FALSE
INVARIANTS SlotExclusive NoSlotLeaks CurIdDominates OutOfTransactionsOnlyWhenFull
