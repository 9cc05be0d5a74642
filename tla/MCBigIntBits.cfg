SPECIFICATION Spec
CONSTANTS
  ByteBits = 1
  LimbBytes = 2
  MaxCap = 4
  MaxShift = 6
  Operands <- MCOperands
INVARIANTS BitwiseExact StaysNormal
