CONSTANTS
  NumNodes = 2
  NumEdges = 2
  Tags = {1, 2}
  MaxTxOps = 2
  PowerFails = TRUE
  Null = 0
SPECIFICATION Spec
PROPERTY RestartRestores
