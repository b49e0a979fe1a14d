CONSTANTS
  FixedSizes = {1}
  RequestSizes = {1, 2, 3}
  SmallChunks = 3
  MaxSpots = 2
  BigChunks = 2
  Size = 4
  MIN_ALLOC = 2
  Used = 2
  MaxDrift = 2
  MaxTxOps = 2
  Null = 0
SPECIFICATION UnitSpec
INVARIANTS
  ObjectsMatch
  ChunksListed
  SpotsDisjoint
  DramMatches
