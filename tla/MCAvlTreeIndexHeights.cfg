CONSTANTS
  Keys = {3}
  Objects = {1}
  Orders <- Tilting
  Queries = {}
  RemoveAnywhere = FALSE
  MaxOps = 3
SPECIFICATION Spec
CHECK_DEADLOCK FALSE
INVARIANT HeightsRight
