CONSTANTS
  InitCap = 2
  Requests <- MCRequests
  MaxCap = 4
  MaxDepth = 3
  GrowDepth = 2
  MaxBases = 2
  Algs <- MCAlgs
  B = 4
  Lengths <- MCLengths
  PartValues <- MCParts
SPECIFICATION MCSpec
INVARIANTS TypeOK FramesNested BlocksDisjoint WithinCapacity
PROPERTIES PoisonSticky ImplementsPool ImplementsAlgebra
