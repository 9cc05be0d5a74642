CONSTANTS
  Algs <- MCToom3
  B = 4
  Lengths <- MCLengths
  PartValues <- MCAnyParts
SPECIFICATION TempsSpec
INVARIANTS EvaluatedAtNeg2
CHECK_DEADLOCK FALSE
