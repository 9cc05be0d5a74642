SPECIFICATION Spec
CONSTANTS
  LimbBits = 7
  WordBytes = 2
  MaxValue = 30
  BufSize = 2
  Lines <- MCLines
  Streams <- MCStreams
  Tails <- MCTails
  Bases <- MCBases
  Objects <- MCObjects
  Printees <- MCPrintees
  Arenas <- MCArenas
  BufLens <- MCBufLens
INVARIANTS ArenaBalanced NumberKept TextReads StreamReads ShowsNumber
