CONSTANTS
  NumNodes = 2
  NumEdges = 2
  Tags = {1, 2}
  MaxTxOps = 2
  PowerFails = FALSE
  Null = 0
SPECIFICATION Spec
INVARIANTS
  TablesMatch
  EdgesIndexed
  IteratorOnListedEdge
  IteratorComplete
