SPECIFICATION Spec
CONSTANTS
  ByteBase = 2
  LimbBytes = 2
  MaxLimbs = 3
  MaxCap = 4
  MantissaBits = 1
  MaxExp = 3
  Ops <- MCAddOps
  Operands <- MCOperands
PROPERTY CarryStored
