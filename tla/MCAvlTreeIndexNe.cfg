CONSTANTS
  Keys = {}
  Objects = {1, 2}
  Orders <- Small
  Queries <- NotFour
  RemoveAnywhere = FALSE
  MaxOps = 0
SPECIFICATION Spec
CHECK_DEADLOCK FALSE
INVARIANT IteratorComplete
