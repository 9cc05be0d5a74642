SPECIFICATION FuncSpec
CONSTANTS
  ByteBase = 2
  LimbBytes = 2
  MaxLimbs = 4
  MaxCap = 5
  MantissaBits = 1
  MaxExp = 3
  Ops <- MCOps
  Operands <- MCOperands
INVARIANTS CoreContract ReadersExact
PROPERTIES ArithmeticExact CopiesExact ContractKept
VIEW MCView
