CONSTANTS
  MaxLen = 16
  SCHOOLBOOK = 4
  KARATSUBA = 8
  KWS <- MCKWS
  TWS <- MCTWS
  Operands <- MCOperands
  Trims <- MCTrims
  InitCap = 76
  MaxDoublings = 4
  HeldLimbs <- MCHeldLimbs
  Parts <- MCParts
  Weights <- MCWeights
SPECIFICATION MCSpec
INVARIANTS TypeOK ResultFits Balanced WorkspaceSuffices MagMulFits
INVARIANTS ResultIsProduct DivisionsExact MagnitudesSuffice
