\* Two clients, two priorities, batches that are full with two operations, and
\* operations with the same hash.
CONSTANTS
  Clients = {c1, c2}
  MaxPriority = 1
  Hashes = {h1, h2}
  max_batch_size = 2
  MaxOps = 4
SPECIFICATION FairSpec
INVARIANTS
  NothingLost
  ImmediateLeavesNothing
PROPERTY FullBatchFlushed
