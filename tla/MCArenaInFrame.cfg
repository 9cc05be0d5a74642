CONSTANTS
  InitCap = 2
  Requests <- MCRequests
  MaxCap = 4
  MaxDepth = 3
  GrowDepth = 1
  MaxBases = 2
SPECIFICATION Spec
INVARIANTS BlocksInBuffer
