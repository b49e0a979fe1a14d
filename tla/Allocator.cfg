\* Two threads and two units: each may find the other in a unit, at the chunks,
\* or at both.
CONSTANTS
  Threads = {t1, t2}
  NumUnits = 2
  NUM_ATTEMPTS = 3
  None = None
SPECIFICATION FairSpec
INVARIANTS
  LocksReleasedOnce
  UnitsExclusive
  FreesUnderLocks
PROPERTY CallsEnd
