----------------------------- MODULE MCBigIntBits -----------------------------
(* BigIntBits with limbs of two bytes of one bit.                            *)
EXTENDS BigIntBits

MCNumber(limbs, sign) == [limbs |-> limbs, n |-> Len(limbs), sign |-> sign]

\* Zero as it is passed has an array all the same, which nothing reads.
MCOperands ==
  {MCNumber(<<>>, 1), MCNumber(<<{0}>>, 1), MCNumber(<<{0, 1}>>, -1),
   MCNumber(<<{0, 1}, {1}>>, 1), MCNumber(<<{}, {0, 1}>>, -1), MCNumber(<<{1}, {}, {0}>>, 1)}
=============================================================================
