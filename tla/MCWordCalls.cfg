SPECIFICATION Spec
CONSTANTS
  W = 4
  InverseBits = 8
  SwarBits = 16
  ScanWords <- MCScanWords
  WideWords <- MCWideWords
  SwarWords <- MCSwarWords
  WordBytes = 2
  ChunkBytes = 3
  PoolBytes = 4
  FastRetries = 1
  MaxBytes = 5
  MaxRetries = 1
  RootBits = 8
  PowBits = 16
  DoubleBits = 11
  RootValues <- MCRootValues
  PowValues <- MCPowValues
  Indices <- MCIndices
  TrialDivision = 400
  Bases <- MCBases
  LowLimbs <- MCLowLimbs
  CryptBytes = 2
  CryptSizes = 256
  CryptRadix = 4
  CryptLimbs = 3
  CryptUses = 4
  CryptCap = 2
  CryptWords <- MCCryptWords
INVARIANTS WordsExact SourcesSound RootsExact PrimesDecided CryptHelpersExact CryptBuffersOwned CryptWordsClean
PROPERTIES CallsEnd
