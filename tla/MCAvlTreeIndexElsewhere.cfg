CONSTANTS
  Keys = {4, 7, 21}
  Objects = {1, 2}
  Orders <- SmallAndDeep
  Queries <- RangesAndEq
  RemoveAnywhere = TRUE
  MaxOps = 2
SPECIFICATION Spec
CHECK_DEADLOCK FALSE
INVARIANT IteratorAtLiveObject
