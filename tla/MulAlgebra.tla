----------------------------- MODULE MulAlgebra -----------------------------
(***************************************************************************)
(* The arithmetic of one frame of __BIGINT_KARATSUBA__ and                 *)
(* __BIGINT_TOOM_3__ (calc_algo/perf_based/mul.c): from the parts of the   *)
(* operands, through the recursive products, to the recomposed result.     *)
(*                                                                         *)
(* This is the arithmetic the comments of mul.c state, with a temporary as *)
(* the integer its limbs and its sign stand for: ADD_WC and SUB_WB ignore  *)
(* signs, ADD_SAW and SUB_SAW follow them, the right shift and DIV3 divide *)
(* the magnitude and keep the sign, and ADD_SHIFT adds a magnitude         *)
(* whatever its sign says.  MulTemps has the kernels as they work on limb  *)
(* lengths, and is checked against this module.  Weight is the weight of   *)
(* the second part: the limb radix to the power of the part length.        *)
(***************************************************************************)
EXTENDS Integers

CONSTANTS
  Parts,      \* the values a part of an operand can have
  Weights     \* the weights of a split

ASSUME AlgebraAssumption == Parts \subseteq Nat /\ Weights \subseteq Nat

VARIABLES
  m, n,       \* the parts of the operands, lowest first
  weight,
  pc,
  p1, q1, p_neg1, q_neg1, p_neg2, q_neg2,  \* Toom-3's evaluations; Karatsuba's sums in p1 and q1
  r0, r1, r_neg1, r_neg2, rinf,            \* Toom-3's products; Karatsuba's z0, z1 and z2 in r0, r1 and rinf
  res

operands == <<m, n, weight>>
points   == <<p1, q1, p_neg1, q_neg1, p_neg2, q_neg2>>
products == <<r0, r1, r_neg1, r_neg2, rinf>>
algebra  == <<m, n, weight, pc, p1, q1, p_neg1, q_neg1, p_neg2, q_neg2,
              r0, r1, r_neg1, r_neg2, rinf, res>>

-----------------------------------------------------------------------------
(* The kernels. *)

Mag(v) == IF v < 0 THEN -v ELSE v
Sgn(v) == IF v < 0 THEN -1 ELSE 1

\* DIV3 and the right shift by one bit.
Div3(v)  == Sgn(v) * (Mag(v) \div 3)
Halve(v) == Sgn(v) * (Mag(v) \div 2)
Double(v) == 2 * v

\* Mutant: the signs of the evaluation points are not put back.
UnsignedProduct(v, w) == Mag(v) * Mag(w)

\* A recursive product of magnitudes that gets the product of the signs.
SignedProduct(v, w) == (Sgn(v) * Sgn(w)) * (Mag(v) * Mag(w))

Goto(label) == pc' = label
Step(from, to) == pc = from /\ Goto(to)

-----------------------------------------------------------------------------
(* Karatsuba: z0, z2, the sums, z1, and two magnitude subtractions. *)

KaratsubaProducts ==
  /\ Step("karatsuba", "z1-z2")
  /\ p1' = m[0] + m[1] /\ q1' = n[0] + n[1]
  /\ r0' = m[0] * n[0] /\ rinf' = m[1] * n[1] /\ r1' = p1' * q1'
  /\ UNCHANGED <<operands, p_neg1, q_neg1, p_neg2, q_neg2, r_neg1, r_neg2, res>>

SubtractZ2 ==
  /\ Step("z1-z2", "z1-z0")
  /\ r1' = r1 - rinf
  /\ UNCHANGED <<operands, points, r0, r_neg1, r_neg2, rinf, res>>

SubtractZ0 ==
  /\ Step("z1-z0", "karatsuba sum")
  /\ r1' = r1 - r0
  /\ UNCHANGED <<operands, points, r0, r_neg1, r_neg2, rinf, res>>

KaratsubaSum ==
  /\ Step("karatsuba sum", "done")
  /\ res' = r0 + Mag(r1) * weight + rinf * (weight * weight)
  /\ r0' = res'
  /\ UNCHANGED <<operands, points, r1, r_neg1, r_neg2, rinf>>

-----------------------------------------------------------------------------
(* Toom-3: evaluation at 0, 1, -1, -2 and infinity. *)

\* Mutant: the left shift of p(-2) is forgotten.
EvaluateUnshifted ==
  /\ Step("toom3", "multiply")
  /\ p1' = m[0] + m[2] + m[1]            /\ q1' = n[0] + n[2] + n[1]
  /\ p_neg1' = m[0] + m[2] - m[1]        /\ q_neg1' = n[0] + n[2] - n[1]
  /\ p_neg2' = p_neg1' + m[2] - m[0]
  /\ q_neg2' = Double(q_neg1' + n[2]) - n[0]
  /\ UNCHANGED <<operands, products, res>>

Evaluate ==
  /\ Step("toom3", "multiply")
  /\ p1' = m[0] + m[2] + m[1]            /\ q1' = n[0] + n[2] + n[1]
  /\ p_neg1' = m[0] + m[2] - m[1]        /\ q_neg1' = n[0] + n[2] - n[1]
  /\ p_neg2' = Double(p_neg1' + m[2]) - m[0]
  /\ q_neg2' = Double(q_neg1' + n[2]) - n[0]
  /\ UNCHANGED <<operands, products, res>>

Multiply ==
  /\ Step("multiply", "r3 = (r3 - r1) / 3")
  /\ r0' = m[0] * n[0] /\ rinf' = m[2] * n[2]
  /\ r1' = SignedProduct(p1, q1)
  /\ r_neg1' = SignedProduct(p_neg1, q_neg1)
  /\ r_neg2' = SignedProduct(p_neg2, q_neg2)
  /\ UNCHANGED <<operands, points, res>>

Interpolate1 ==
  /\ Step("r3 = (r3 - r1) / 3", "r1 = (r1 - r2) / 2")
  /\ r_neg2' = Div3(r_neg2 - r1)
  /\ UNCHANGED <<operands, points, r0, r1, r_neg1, rinf, res>>

Interpolate2 ==
  /\ Step("r1 = (r1 - r2) / 2", "r2 = r2 - r0")
  /\ r1' = Halve(r1 - r_neg1)
  /\ UNCHANGED <<operands, points, r0, r_neg1, r_neg2, rinf, res>>

Interpolate3 ==
  /\ Step("r2 = r2 - r0", "r3 = (r2 - r3) / 2")
  /\ r_neg1' = r_neg1 - r0
  /\ UNCHANGED <<operands, points, r0, r1, r_neg2, rinf, res>>

Interpolate4 ==
  /\ Step("r3 = (r2 - r3) / 2", "r3 = r3 + 2 rinf")
  /\ r_neg2' = Halve(r_neg1 - r_neg2)
  /\ UNCHANGED <<operands, points, r0, r1, r_neg1, rinf, res>>

Interpolate5 ==
  /\ Step("r3 = r3 + 2 rinf", "r2 = r2 + r1 - rinf")
  /\ rinf' = Double(rinf)
  /\ r_neg2' = r_neg2 + rinf'
  /\ UNCHANGED <<operands, points, r0, r1, r_neg1, res>>

\* Mutant: rinf stays shifted left.
Interpolate6Shifted ==
  /\ Step("r2 = r2 + r1 - rinf", "r1 = r1 - r3")
  /\ r_neg1' = r_neg1 + r1 - rinf
  /\ UNCHANGED <<operands, points, r0, r1, r_neg2, rinf, res>>

Interpolate6 ==
  /\ Step("r2 = r2 + r1 - rinf", "r1 = r1 - r3")
  /\ rinf' = Halve(rinf)
  /\ r_neg1' = r_neg1 + r1 - rinf'
  /\ UNCHANGED <<operands, points, r0, r1, r_neg2, res>>

Interpolate7 ==
  /\ Step("r1 = r1 - r3", "toom3 sum")
  /\ r1' = r1 - r_neg2
  /\ UNCHANGED <<operands, points, r0, r_neg1, r_neg2, rinf, res>>

\* ADD_SHIFT of each coefficient.
Toom3Sum ==
  /\ Step("toom3 sum", "done")
  /\ LET w2 == weight * weight
     IN  res' = r0 + Mag(r1) * weight + Mag(r_neg1) * w2
                + Mag(r_neg2) * (w2 * weight) + rinf * (w2 * w2)
  /\ q_neg2' = res'
  /\ UNCHANGED <<operands, p1, q1, p_neg1, q_neg1, p_neg2, products>>

-----------------------------------------------------------------------------
AlgebraInit ==
  /\ m \in [0 .. 2 -> Parts] /\ n \in [0 .. 2 -> Parts] /\ weight \in Weights
  /\ \/ pc = "toom3"
     \/ pc = "karatsuba" /\ m[2] = 0 /\ n[2] = 0
  /\ p1 = 0 /\ q1 = 0 /\ p_neg1 = 0 /\ q_neg1 = 0 /\ p_neg2 = 0 /\ q_neg2 = 0
  /\ r0 = 0 /\ r1 = 0 /\ r_neg1 = 0 /\ r_neg2 = 0 /\ rinf = 0 /\ res = 0

Karatsuba == KaratsubaProducts \/ SubtractZ2 \/ SubtractZ0 \/ KaratsubaSum
Toom3 ==
  \/ Evaluate \/ Multiply
  \/ Interpolate1 \/ Interpolate2 \/ Interpolate3 \/ Interpolate4
  \/ Interpolate5 \/ Interpolate6 \/ Interpolate7
  \/ Toom3Sum
AlgebraNext == Karatsuba \/ Toom3

AlgebraSpec == AlgebraInit /\ [][AlgebraNext]_algebra

-----------------------------------------------------------------------------
(* Properties *)

Labels ==
  {"karatsuba", "z1-z2", "z1-z0", "karatsuba sum",
   "toom3", "multiply", "r3 = (r3 - r1) / 3", "r1 = (r1 - r2) / 2", "r2 = r2 - r0",
   "r3 = (r2 - r3) / 2", "r3 = r3 + 2 rinf", "r2 = r2 + r1 - rinf", "r1 = r1 - r3",
   "toom3 sum", "done"}

\* The parts are natural numbers, everything computed from them an integer.
AlgebraTypeOK ==
  /\ m \in [0 .. 2 -> Nat] /\ n \in [0 .. 2 -> Nat] /\ weight \in Nat /\ pc \in Labels
  /\ p1 \in Int /\ q1 \in Int /\ p_neg1 \in Int /\ q_neg1 \in Int
  /\ p_neg2 \in Int /\ q_neg2 \in Int
  /\ r0 \in Int /\ r1 \in Int /\ r_neg1 \in Int /\ r_neg2 \in Int /\ rinf \in Int
  /\ res \in Int

\* The coefficients of the product polynomial, lowest first.
C0 == m[0] * n[0]
C1 == m[0] * n[1] + m[1] * n[0]
C2 == m[0] * n[2] + m[1] * n[1] + m[2] * n[0]
C3 == m[1] * n[2] + m[2] * n[1]
C4 == m[2] * n[2]

\* The polynomial of the product at the weight: the product of the operands.
Product ==
  LET w2 == weight * weight
  IN  C0 + C1 * weight + C2 * w2 + C3 * (w2 * weight) + C4 * (w2 * w2)

\* The result of either algorithm is the product of the operands.
ResultIsProduct == pc = "done" => res = Product

\* The division by three and the halvings that shift the limbs right are
\* exact, so that no bit and no remainder is lost on the way.
DivisionsExact ==
  /\ pc = "r3 = (r3 - r1) / 3" => (r_neg2 - r1) % 3 = 0
  /\ pc = "r1 = (r1 - r2) / 2" => (r1 - r_neg1) % 2 = 0
  /\ pc = "r3 = (r2 - r3) / 2" => (r_neg1 - r_neg2) % 2 = 0

\* The kernels that ignore signs get magnitudes they can handle: the two
\* SUB_WB of Karatsuba never borrow out of the top limb, and every coefficient
\* that ADD_SHIFT adds is non-negative.
MagnitudesSuffice ==
  /\ pc = "z1-z2" => r1 >= rinf
  /\ pc = "z1-z0" => r1 >= r0
  /\ pc \in {"karatsuba sum", "toom3 sum"} =>
       r0 >= 0 /\ r1 >= 0 /\ r_neg1 >= 0 /\ r_neg2 >= 0 /\ rinf >= 0

-----------------------------------------------------------------------------
(* The inductive invariant: the temporaries in terms of the coefficients. *)

\* The product polynomial at 1, -1 and -2.
At1    == C0 + C1 + C2 + C3 + C4
AtNeg1 == C0 - C1 + C2 - C3 + C4
AtNeg2 == C0 - 2 * C1 + 4 * C2 - 8 * C3 + 16 * C4

Temporaries(u1, u_neg1, u_neg2, uinf) ==
  r0 = C0 /\ r1 = u1 /\ r_neg1 = u_neg1 /\ r_neg2 = u_neg2 /\ rinf = uinf

KaratsubaInv ==
  /\ pc \in {"karatsuba", "z1-z2", "z1-z0", "karatsuba sum"} => m[2] = 0 /\ n[2] = 0
  /\ pc = "karatsuba" => r_neg1 = 0 /\ r_neg2 = 0
  /\ pc = "z1-z2" => Temporaries(C0 + C1 + C2, 0, 0, C2)
  /\ pc = "z1-z0" => Temporaries(C0 + C1, 0, 0, C2)
  /\ pc = "karatsuba sum" => Temporaries(C1, 0, 0, C2)

Toom3Inv ==
  /\ pc = "multiply" =>
       /\ p1 = m[0] + m[1] + m[2]          /\ q1 = n[0] + n[1] + n[2]
       /\ p_neg1 = m[0] - m[1] + m[2]      /\ q_neg1 = n[0] - n[1] + n[2]
       /\ p_neg2 = m[0] - 2*m[1] + 4*m[2]  /\ q_neg2 = n[0] - 2*n[1] + 4*n[2]
  /\ pc = "r3 = (r3 - r1) / 3"  => Temporaries(At1, AtNeg1, AtNeg2, C4)
  /\ pc = "r1 = (r1 - r2) / 2"  => Temporaries(At1, AtNeg1, C2 - C1 - 3*C3 + 5*C4, C4)
  /\ pc = "r2 = r2 - r0"        => Temporaries(C1 + C3, AtNeg1, C2 - C1 - 3*C3 + 5*C4, C4)
  /\ pc = "r3 = (r2 - r3) / 2"  => Temporaries(C1 + C3, AtNeg1 - C0, C2 - C1 - 3*C3 + 5*C4, C4)
  /\ pc = "r3 = r3 + 2 rinf"    => Temporaries(C1 + C3, AtNeg1 - C0, C3 - 2*C4, C4)
  /\ pc = "r2 = r2 + r1 - rinf" => Temporaries(C1 + C3, AtNeg1 - C0, C3, 2*C4)
  /\ pc = "r1 = r1 - r3"        => Temporaries(C1 + C3, C2, C3, C4)
  /\ pc = "toom3 sum"           => Temporaries(C1, C2, C3, C4)

AlgebraInv == AlgebraTypeOK /\ KaratsubaInv /\ Toom3Inv /\ ResultIsProduct
=============================================================================
