------------------------------ MODULE MulTemps ------------------------------
(***************************************************************************)
(* One frame of __BIGINT_KARATSUBA__ or __BIGINT_TOOM_3__ with the kernels *)
(* of add_sub.c and bigNum_utils.c as they work on limb numbers.           *)
(*                                                                         *)
(* A number is a bigInt header: mag, the value of its n limbs, its length  *)
(* n and its sign; n may count leading zero limbs.  hi is the number of    *)
(* limbs ever written to it.  t maps the name of every slice and temporary *)
(* to its number.  The recursive products are those of the base case.      *)
(***************************************************************************)
EXTENDS Integers

CONSTANTS
  Algs,           \* the algorithms: "karatsuba", "toom3"
  B,              \* the limb radix
  Lengths,        \* operand lengths
  PartValues(_, _)  \* the values a part of an algorithm's operand, that many limbs long, can have

Larger(a, b) == IF a >= b THEN a ELSE b
Smaller(a, b) == IF a <= b THEN a ELSE b
Above(a, b) == IF a > b THEN a - b ELSE 0

\* What a limb is worth that has n limbs below it: B to the power of n.
Powers(n) == LET power[k \in 0 .. n] == IF k = 0 THEN 1 ELSE B * power[k - 1] IN power
Weight(n) == Powers(n)[n]

\* The limbs a magnitude needs.
Limbs(mag) == CHOOSE n \in 0 .. mag : mag < Weight(n) /\ (n > 0 => mag >= Weight(n - 1))

\* A limb has 64 bits; a frame has operands of more limbs than the schoolbook takes.
ASSUME TempsAssumption ==
  /\ Algs \subseteq {"karatsuba", "toom3"}
  /\ B \in Nat /\ B >= 4
  /\ Lengths \subseteq Nat \ {0, 1}

VARIABLES alg, lenM, lenN, pc, t, res
temporaries == <<alg, lenM, lenN, pc, t, res>>

-----------------------------------------------------------------------------
(* The kernels: each maps t to the t it leaves behind. *)

Blank == [mag |-> 0, n |-> 0, sign |-> 1, hi |-> 0]
Val(u) == u.sign * u.mag

Zset(u) == [u EXCEPT !.mag = 0, !.n = 0, !.sign = 1]
Written(u, mag, n, extent) == [u EXCEPT !.mag = mag, !.n = n, !.hi = Larger(@, extent)]
Signed(u, sign) == [u EXCEPT !.sign = sign]
Copied(u, v) == IF v.n = 0 THEN Zset(u) ELSE Signed(Written(u, v.mag, v.n, v.n), v.sign)
\* TRIM_LZ of a number whose limbs have the value mag.
Trimmed(u, mag, extent) ==
  LET v == Written(u, mag, Limbs(mag), extent) IN IF mag = 0 THEN Zset(v) ELSE v

\* The result header of a kernel that resets it unless it is an operand.
Result(s, r, a, b) == IF r \in {a, b} THEN s[r] ELSE Zset(s[r])

\* The limbs of a sum of numbers of i and j limbs: one more when there is a carry.
SumLimbs(i, j, sum) == Larger(i, j) + (IF sum >= Weight(Larger(i, j)) THEN 1 ELSE 0)

\* The sum of the headers x and y, in the header u.
Summed(u, x, y) ==
  LET sum == x.mag + y.mag
      n   == SumLimbs(x.n, y.n, sum)
  IN  IF y.n = 0 THEN Copied(u, x) ELSE IF x.n = 0 THEN Copied(u, y)
      ELSE Written(u, sum, n, n)
AddWC(s, r, a, b) == [s EXCEPT ![r] = Summed(Result(s, r, a, b), s[a], s[b])]

\* The borrow out of a's top limb is dropped, and so are b's limbs above it.
SubWB(s, r, a, b) ==
  LET len  == s[a].n
      diff == (s[a].mag - (s[b].mag % Weight(len))) % Weight(len)
      u    == Result(s, r, a, b)
  IN  [s EXCEPT ![r] = IF s[b].n = 0 THEN Copied(u, s[a])
                       ELSE Written(u, diff, Limbs(diff), len)]

\* __BIGINT_INTERNAL_COMP__: the longer number is the larger one.
Comp(x, y) ==
  IF x.n # y.n THEN (IF x.n > y.n THEN 1 ELSE -1)
  ELSE IF x.mag = y.mag THEN 0 ELSE IF x.mag > y.mag THEN 1 ELSE -1

\* The sum of x and of y with the sign ysign.
SignedSum(s, r, x, y, ysign) ==
  LET u == Result(s, r, x, y)
      c == Comp(s[x], s[y])
      Resigned(s1, sign) == [s1 EXCEPT ![r].sign = sign]
  IN  IF s[y].n = 0 THEN [s EXCEPT ![r] = Copied(u, s[x])]
      ELSE IF s[x].n = 0 THEN [s EXCEPT ![r] = Signed(Copied(u, s[y]), ysign)]
      ELSE IF s[x].sign = ysign THEN Resigned(AddWC(s, r, x, y), s[x].sign)
      ELSE IF c = 0 THEN [s EXCEPT ![r] = Zset(u)]
      ELSE IF c > 0 THEN Resigned(SubWB(s, r, x, y), s[x].sign)
      ELSE Resigned(SubWB(s, r, y, x), ysign)
AddSAW(s, r, x, y) == SignedSum(s, r, x, y, s[y].sign)
SubSAW(s, r, x, y) == SignedSum(s, r, x, y, -s[y].sign)

\* The limbs of u from the limb shift on get the magnitude of x added; the
\* carry stops at the capacity, which WithinCapacity says is never reached.
ShiftSummed(u, x, shift) ==
  LET sum == u.mag + x.mag * Weight(shift)
      n   == SumLimbs(u.n, x.n + shift, sum)
  IN  IF x.n = 0 THEN u
      ELSE IF shift = 0 THEN Summed(u, u, x) ELSE Written(u, sum, n, n)
AddShift(s, r, x, shift) == [s EXCEPT ![r] = ShiftSummed(@, s[x], shift)]

LShift1(s, r) ==
  LET mag == 2 * s[r].mag
  IN  [s EXCEPT ![r] = Trimmed(@, mag, SumLimbs(@.n, @.n, mag))]
RShift1(s, r) == [s EXCEPT ![r] = Trimmed(@, @.mag \div 2, @.n)]
Div3(s, r) == [s EXCEPT ![r] = IF @.n = 0 THEN @ ELSE Trimmed(@, @.mag \div 3, @.n)]

\* The schoolbook base case of a recursive call: a->n + b->n limbs are cleared.
Product(s, r, a, b) == [s EXCEPT ![r] = Trimmed(@, s[a].mag * s[b].mag, s[a].n + s[b].n)]
\* Mutant: the signs of the evaluation points are not put back.
ProductUnsigned(s, r, a, b) == s
ProductSign(s, r, a, b) == [s EXCEPT ![r].sign = s[a].sign * s[b].sign]

-----------------------------------------------------------------------------
(* The operands and the temporaries. *)

Longer == Larger(lenM, lenN)
\* The length of a part: m of Karatsuba, k of Toom-3.
PartLen == IF alg = "karatsuba" THEN Longer \div 2 ELSE (Longer + 2) \div 3

\* The length of the i-th part of a len-limb operand.
Part(len, i) ==
  IF alg = "toom3" /\ i = 1 THEN Smaller(PartLen, Above(len, PartLen))
  ELSE IF i = 0 THEN Smaller(PartLen, len) ELSE Above(len, i * PartLen)

Slice(mag, n) == [mag |-> mag, n |-> n, sign |-> 1, hi |-> n]
Temps == {"p_outer", "q_outer", "p1", "q1", "p_neg1", "q_neg1", "p_neg2", "q_neg2",
          "r0", "r1", "r_neg1", "r_neg2", "rinf"}
Slices == {"m0", "m1", "m2", "n0", "n1", "n2"}
Names == Slices \cup Temps

\* Mutant: the temporaries get no limbs for carries.
CapacityTight(x) == IF x = "q_neg2" THEN lenM + lenN ELSE 2 * PartLen

\* The limbs of every temporary.  Karatsuba has tmp1, tmp2, z0, z1 and z2 in
\* p1, q1, r0, r1 and rinf.
Capacity(x) ==
  LET k == PartLen
      sumM == Larger(Part(lenM, 0), Part(lenM, 1)) + 1
      sumN == Larger(Part(lenN, 0), Part(lenN, 1)) + 1
  IN  IF alg = "karatsuba" THEN
        CASE x = "p1" -> sumM
          [] x = "q1" -> sumN
          [] x = "r0" -> lenM + lenN
          [] x = "r1" -> sumM + sumN
          [] x = "rinf" -> Part(lenM, 1) + Part(lenN, 1)
          [] OTHER -> 0
      ELSE
        CASE x \in {"p_outer", "q_outer", "p_neg1", "q_neg1"} -> k + 1
          [] x \in {"p1", "q1", "p_neg2"} -> k + 2
          [] x = "q_neg2" -> lenM + lenN
          [] x \in {"r_neg1", "r_neg2"} -> 2 * k + 7
          [] x = "r1" -> 2 * k + 8
          [] x = "r0" -> 2 * k
          [] x = "rinf" -> Part(lenM, 2) + Part(lenN, 2) + 1

TempsStep(from, to, next) == pc = from /\ pc' = to /\ t' = next /\ UNCHANGED <<alg, lenM, lenN>>

-----------------------------------------------------------------------------
(* Karatsuba. *)

KaratsubaProducts ==
  LET t1 == AddWC(t, "p1", "m1", "m0")
      t2 == AddWC(t1, "q1", "n1", "n0")
      t3 == Product(t2, "r0", "m0", "n0")
      t4 == Product(t3, "rinf", "m1", "n1")
  IN  TempsStep("karatsuba", "z1-z2", Product(t4, "r1", "p1", "q1")) /\ UNCHANGED res

SubtractZ2 == TempsStep("z1-z2", "z1-z0", SubWB(t, "r1", "r1", "rinf")) /\ UNCHANGED res
SubtractZ0 == TempsStep("z1-z0", "karatsuba sum", SubWB(t, "r1", "r1", "r0")) /\ UNCHANGED res

KaratsubaSum ==
  LET t1 == AddShift(t, "r0", "r1", PartLen)
  IN  /\ TempsStep("karatsuba sum", "done", AddShift(t1, "r0", "rinf", 2 * PartLen))
      /\ res' = t'["r0"].mag

-----------------------------------------------------------------------------
(* Toom-3. *)

\* The evaluation of one operand: parts a, b, c into outer, one, neg1, neg2.
EvaluateOperand(s, a, b, c, outer, one, neg1, neg2) ==
  LET s1 == AddWC(s, outer, a, c)
      s2 == AddWC(s1, one, outer, b)
      s3 == SubSAW(s2, neg1, outer, b)
      s4 == AddSAW(s3, neg2, neg1, c)
      s5 == LShift1(s4, neg2)
  IN  SubSAW(s5, neg2, neg2, a)

Evaluate ==
  LET t1 == EvaluateOperand(t, "m0", "m1", "m2", "p_outer", "p1", "p_neg1", "p_neg2")
      t2 == EvaluateOperand(t1, "n0", "n1", "n2", "q_outer", "q1", "q_neg1", "q_neg2")
  IN  TempsStep("toom3", "multiply", t2) /\ UNCHANGED res

Multiply ==
  LET t1 == Product(t, "r0", "m0", "n0")
      t2 == Product(t1, "r1", "p1", "q1")
      t3 == Product(t2, "r_neg1", "p_neg1", "q_neg1")
      t4 == Product(t3, "r_neg2", "p_neg2", "q_neg2")
      t5 == Product(t4, "rinf", "m2", "n2")
      t6 == ProductSign(t5, "r1", "p1", "q1")
      t7 == ProductSign(t6, "r_neg1", "p_neg1", "q_neg1")
  IN  TempsStep("multiply", "r3 = (r3 - r1) / 3", ProductSign(t7, "r_neg2", "p_neg2", "q_neg2"))
      /\ UNCHANGED res

Interpolate1 ==
  TempsStep("r3 = (r3 - r1) / 3", "r1 = (r1 - r2) / 2",
       Div3(SubSAW(t, "r_neg2", "r_neg2", "r1"), "r_neg2")) /\ UNCHANGED res
Interpolate2 ==
  TempsStep("r1 = (r1 - r2) / 2", "r2 = r2 - r0",
       RShift1(SubSAW(t, "r1", "r1", "r_neg1"), "r1")) /\ UNCHANGED res
Interpolate3 ==
  TempsStep("r2 = r2 - r0", "r3 = (r2 - r3) / 2", SubSAW(t, "r_neg1", "r_neg1", "r0")) /\ UNCHANGED res
Interpolate4 ==
  TempsStep("r3 = (r2 - r3) / 2", "r3 = r3 + 2 rinf",
       RShift1(SubSAW(t, "r_neg2", "r_neg1", "r_neg2"), "r_neg2")) /\ UNCHANGED res
Interpolate5 ==
  TempsStep("r3 = r3 + 2 rinf", "r2 = r2 + r1 - rinf",
       AddSAW(LShift1(t, "rinf"), "r_neg2", "r_neg2", "rinf")) /\ UNCHANGED res
Interpolate6 ==
  LET t1 == RShift1(AddSAW(t, "r_neg1", "r_neg1", "r1"), "rinf")
  IN  TempsStep("r2 = r2 + r1 - rinf", "r1 = r1 - r3", SubSAW(t1, "r_neg1", "r_neg1", "rinf"))
      /\ UNCHANGED res
Interpolate7 ==
  TempsStep("r1 = r1 - r3", "toom3 sum", SubSAW(t, "r1", "r1", "r_neg2")) /\ UNCHANGED res

Toom3Sum ==
  LET k  == PartLen
      t1 == AddShift([t EXCEPT !["q_neg2"] = Zset(@)], "q_neg2", "r0", 0)
      t2 == AddShift(t1, "q_neg2", "r1", k)
      t3 == AddShift(t2, "q_neg2", "r_neg1", 2 * k)
      t4 == AddShift(t3, "q_neg2", "r_neg2", 3 * k)
  IN  /\ TempsStep("toom3 sum", "done", AddShift(t4, "q_neg2", "rinf", 4 * k))
      /\ res' = t'["q_neg2"].mag

-----------------------------------------------------------------------------
\* An operand with parts a, b and c has no leading zero limb.
Normalised(len, a, b, c) == a + b * Weight(PartLen) + c * Weight(2 * PartLen) >= Weight(len - 1)

TempsInit ==
  /\ alg \in Algs /\ pc = alg
  /\ lenM \in Lengths /\ lenN \in Lengths
  /\ res = 0
  /\ \E m0 \in PartValues(alg, Part(lenM, 0)), n0 \in PartValues(alg, Part(lenN, 0)),
        m1 \in PartValues(alg, Part(lenM, 1)), n1 \in PartValues(alg, Part(lenN, 1)),
        m2 \in IF alg = "toom3" THEN PartValues(alg, Part(lenM, 2)) ELSE {0},
        n2 \in IF alg = "toom3" THEN PartValues(alg, Part(lenN, 2)) ELSE {0} :
       /\ Normalised(lenM, m0, m1, m2) /\ Normalised(lenN, n0, n1, n2)
       /\ t = [x \in Names |->
                CASE x = "m0" -> Slice(m0, Part(lenM, 0)) [] x = "n0" -> Slice(n0, Part(lenN, 0))
                  [] x = "m1" -> Slice(m1, Part(lenM, 1)) [] x = "n1" -> Slice(n1, Part(lenN, 1))
                  [] x = "m2" -> Slice(m2, Part(lenM, 2)) [] x = "n2" -> Slice(n2, Part(lenN, 2))
                  [] x \in Temps -> Blank]

TempsNext ==
  \/ KaratsubaProducts \/ SubtractZ2 \/ SubtractZ0 \/ KaratsubaSum
  \/ Evaluate \/ Multiply
  \/ Interpolate1 \/ Interpolate2 \/ Interpolate3 \/ Interpolate4
  \/ Interpolate5 \/ Interpolate6 \/ Interpolate7
  \/ Toom3Sum

TempsSpec == TempsInit /\ [][TempsNext]_temporaries

-----------------------------------------------------------------------------
(* Properties *)

\* No kernel writes beyond the limbs that BIGINT_TEMP took for its result,
\* although none of them looks at the capacity.
WithinCapacity == \A x \in Temps : t[x].hi <= Capacity(x)

\* The kernels compute what the comments of mul.c say: every temporary stands
\* for the integer that the algebra of the two algorithms gives it.
Algebra == INSTANCE MulAlgebra WITH
  Parts <- Nat, Weights <- Nat,
  m <- [i \in 0 .. 2 |-> t[<<"m0", "m1", "m2">>[i + 1]].mag],
  n <- [i \in 0 .. 2 |-> t[<<"n0", "n1", "n2">>[i + 1]].mag],
  weight <- Weight(PartLen),
  p1 <- Val(t["p1"]), q1 <- Val(t["q1"]),
  p_neg1 <- Val(t["p_neg1"]), q_neg1 <- Val(t["q_neg1"]),
  p_neg2 <- Val(t["p_neg2"]), q_neg2 <- Val(t["q_neg2"]),
  r0 <- Val(t["r0"]), r1 <- Val(t["r1"]), rinf <- Val(t["rinf"]),
  r_neg1 <- Val(t["r_neg1"]), r_neg2 <- Val(t["r_neg2"])

ImplementsAlgebra == Algebra!AlgebraSpec

\* p(-2) = 2(p(-1) + m2) - m0, as the comment above the evaluation says.
EvaluatedAtNeg2 ==
  pc = "multiply" =>
    Val(t["p_neg2"]) = 2 * (Val(t["p_neg1"]) + t["m2"].mag) - t["m0"].mag

-----------------------------------------------------------------------------
(* The inductive invariant: headers without leading zero limbs that stand    *)
(* for what the coefficients of the product polynomial say.                  *)

\* No part of an operand of Toom-3 has a zero top limb.
PartsDense ==
  \A a \in Algs : \A l \in Lengths : \A len \in 0 .. l : \A v \in PartValues(a, len) :
    v \in Nat /\ v < Weight(len) /\ (a = "toom3" => Limbs(v) = len)

Header == [mag : Nat, n : Nat, sign : {1, -1}, hi : Nat]
Dense(u) == u.n = Limbs(u.mag)

\* A part of an operand, that nothing writes to.
PartKept(u, len) ==
  u.n = len /\ u.sign = 1 /\ u.mag < Weight(len) /\ (alg = "toom3" => Dense(u))
PartsKept ==
  /\ PartKept(t["m0"], Part(lenM, 0)) /\ PartKept(t["n0"], Part(lenN, 0))
  /\ PartKept(t["m1"], Part(lenM, 1)) /\ PartKept(t["n1"], Part(lenN, 1))
  /\ PartKept(t["m2"], Part(lenM, 2)) /\ PartKept(t["n2"], Part(lenN, 2))

\* Only Karatsuba's sums may have leading zeros: nothing compares them.
TempsDense ==
  \A x \in Temps : Dense(t[x]) \/ (alg = "karatsuba" /\ x \in {"p1", "q1"})

KaratsubaLabels == {"karatsuba", "z1-z2", "z1-z0", "karatsuba sum"}

\* Until the recursive products are there, nothing has made them negative.
Unsigned ==
  /\ t["r0"].sign = 1
  /\ pc \in {"karatsuba", "toom3", "multiply"} =>
       \A x \in {"r1", "r_neg1", "r_neg2", "rinf"} : t[x].sign = 1

TempsIInv ==
  /\ t \in [Names -> Header] /\ Unsigned
  /\ alg \in {"karatsuba", "toom3"} /\ lenM \in Lengths /\ lenN \in Lengths
  /\ pc \in Algebra!Labels
  /\ pc # "done" => (alg = "karatsuba" <=> pc \in KaratsubaLabels)
  /\ PartsKept /\ TempsDense /\ WithinCapacity
  /\ Algebra!KaratsubaInv /\ Algebra!Toom3Inv /\ Algebra!ResultIsProduct
=============================================================================
