CONSTANTS
  Keys = {4, 7, 21}
  Objects = {1, 2}
  Orders <- SmallAndDeep
  Queries <- RangesAndEq
  RemoveAnywhere = FALSE
  MaxOps = 2
SPECIFICATION Spec
CHECK_DEADLOCK FALSE
INVARIANTS SearchTree IteratorInOrder IteratorComplete IteratorAtLiveObject
PROPERTY HeightsKept
