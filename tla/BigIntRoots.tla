------------------------------ MODULE BigIntRoots ------------------------------
(***************************************************************************)
(* bigInt_sqrt, bigInt_cbrt, bigInt_nrt and their mutative forms            *)
(* (bigInt.c), with the kernels of pow_root.c and heap_pow_root.c.  One step*)
(* is one pass of a Newton iteration, which starts above the root and comes *)
(* down.                                                                    *)
(*                                                                         *)
(* A number is its magnitude, of one or two limbs of RootBits bits, and its *)
(* sign; a magnitude whose root is neither the second nor the third is one  *)
(* word of PowBits bits.  sqrtl and cbrtl are exact, pow has DoubleBits     *)
(* bits.  Fourth roots and above of more than one limb are not modelled, nor*)
(* are the checks of the contract at the head, which BigIntFunc models.     *)
(***************************************************************************)
EXTENDS CallState

CONSTANTS
  RootBits,     \* bits of a limb: 64 in the code
  PowBits,      \* bits of the word of a fourth root and above: 64 in the code
  DoubleBits,   \* bits of the significand of a double: 53
  RootValues,   \* bound: the magnitudes under a square or a cube root
  PowValues,    \* bound: the magnitudes under any other root
  Indices       \* bound: the indices of bigInt_nrt

ASSUME RootAssumption ==
  /\ RootBits \in Nat /\ RootBits > 1 /\ PowBits \in Nat /\ PowBits > 0
  /\ DoubleBits \in Nat /\ DoubleBits > 0 /\ Indices \subseteq Nat
  /\ RootValues \subseteq 0 .. 2 ^ (2 * RootBits) - 1 /\ PowValues \subseteq 0 .. 2 ^ PowBits - 1

PowWords == 2 ^ PowBits
Limb     == 2 ^ RootBits

\* __BIGINT_COUNTDB__(a, 2), and U64_BITS - __CLZ_UI64__(a).
BitLength[a \in Nat] == IF a = 0 THEN 0 ELSE 1 + BitLength[a \div 2]

\* acc times g to the n, or cap when that is not less.
Product[acc \in Nat, g \in Nat, n \in Nat, cap \in Nat] ==
  IF n = 0 \/ acc >= cap THEN Smaller(acc, cap) ELSE Product[acc * g, g, n - 1, cap]
PowerUpTo(g, n, cap) == Product[1, g, n, cap]

\* The integer root, which the long double functions give exactly.
ExactRoot(a, index) ==
  IF index = 1 THEN a
  ELSE CHOOSE r \in 0 .. a : PowerUpTo(r, index, a + 1) <= a /\ PowerUpTo(r + 1, index, a + 1) > a

\* v as a double, to the nearest, ties to even.
AsDouble[v \in Nat] ==
  IF BitLength[v] <= DoubleBits THEN v
  ELSE LET unit == 2 ^ (BitLength[v] - DoubleBits)
           down == v \div unit
           up   == 2 * (v % unit) > unit \/ (2 * (v % unit) = unit /\ down % 2 = 1)
       IN  unit * (IF up THEN down + 1 ELSE down)

IsPowerOf2(n) == \E k \in 0 .. BitLength[n] : n = 2 ^ k

-----------------------------------------------------------------------------
(* The first guess *)

\* Mutant: rounded down, the guess may lie below the root.
GuessBitsDown(a, index) == BitLength[a] \div index

\* guess_bits: half, a third, ... of the bits of a, rounded up.
GuessBits(a, index) == (BitLength[a] + index - 1) \div index

\* guess.limbs[guess_bits >> 6] = 1 << (guess_bits % 63), in its first limb.
GuessOf(bits) == 2 ^ (bits % (RootBits - 1))
InFirstLimb(bits) == bits < RootBits

-----------------------------------------------------------------------------
(* How a call begins *)

RootTask(fn, form, index, a, sign, poisoned) ==
  [op |-> "root", fn |-> fn, form |-> form, index |-> index, a |-> a, sign |-> sign,
   poisoned |-> poisoned, status |-> "running", value |-> a]

\* Heap kernels of two limbs write guess.limbs[guess_bits << 6], far outside.
HeapKernel(a, index) == IF a >= Limb THEN "undefined" ELSE "ok"

InDomain(index, sign) == sign = 1 \/ index % 2 = 1

\* A kernel for two limbs: __BIGINT_HERON__ or __BIGINT_NEWTON_CBRT__.
TwoLimbCall(t) ==
  LET bits == GuessBits(t.a, t.index)
  IN  \/ InFirstLimb(bits) /\ Enter([t EXCEPT !.value = GuessOf(bits)])
      \* a divisor of two limbs: __BIGINT_BURK__ prints to the stream NULL
      \/ ~InFirstLimb(bits) /\ Enter([t EXCEPT !.status = "crash"])

\* __UI64_NROOT__ of one word.
WordCall(t) ==
  LET bits == GuessBits(t.a, t.index)
  IN  \/ bits < PowBits /\ Enter([t EXCEPT !.value = 2 ^ bits])
      \/ bits >= PowBits /\ Enter([t EXCEPT !.status = "undefined"])

\* The dispatch of one call that is in the domain and has work to do.  Without
\* an arena the mutative form returns success and leaves x as it is.
Dispatched(t) ==
  \/ /\ t.form = "mut" /\ t.poisoned
     /\ Enter([t EXCEPT !.status = "ok", !.value = t.a])
  \* bigInt_sqrt calls the square, whose 2 * x.n limbs do not fit x.n >> 1
  \/ /\ t.form = "fun" /\ t.fn = "sqrt" /\ ~t.poisoned
     /\ Enter([t EXCEPT !.status = "overrun"])
  \/ t.form = "fun" /\ Enter([t EXCEPT !.status = "DNML_ALLOC_OOM"])
  \/ /\ t.form = "fun" /\ t.poisoned /\ t.a >= Limb /\ t.index \in {2, 3}
     /\ Enter([t EXCEPT !.status = HeapKernel(t.a, t.index)])
  \/ /\ t.index \in {2, 3} /\ t.a < Limb
     /\ t.form = "mut" => ~t.poisoned
     /\ t.fn = "sqrt" => t.form = "mut" \/ t.poisoned
     /\ Enter([t EXCEPT !.status = "ok", !.value = ExactRoot(t.a, t.index)])
  \/ /\ t.index \in {2, 3} /\ t.a >= Limb /\ ~t.poisoned
     /\ ~(t.form = "fun" /\ t.fn = "sqrt")
     /\ TwoLimbCall(t)
  \/ /\ t.index \notin {2, 3}
     /\ t.form = "mut" => ~t.poisoned
     /\ WordCall(t)

\* The head of the six calls.
CallRootOf(fn, index, values) ==
  \E form \in {"mut", "fun"}, a \in values, sign \in {1, -1}, poisoned \in BOOLEAN :
    LET t == RootTask(fn, form, index, a, sign, poisoned)
    IN  /\ a = 0 => sign = 1
        /\ CASE index = 0 -> Enter([t EXCEPT !.status = "BIGINT_ERR_INVAL"])
             [] index # 0 /\ ~InDomain(index, sign) -> Enter([t EXCEPT !.status = "BIGINT_ERR_DOMAIN"])
             [] index # 0 /\ InDomain(index, sign) /\ a \in {0, 1} ->
                  \E status \in {"ok"} \cup (IF form = "fun" THEN {"DNML_ALLOC_OOM"} ELSE {}) :
                    Enter([t EXCEPT !.status = status])
             [] OTHER -> Dispatched(t)

CallRoot ==
  \/ CallRootOf("sqrt", 2, RootValues)
  \/ CallRootOf("cbrt", 3, RootValues)
  \/ \E index \in Indices : CallRootOf("nrt", index, IF index \in {2, 3} THEN RootValues ELSE PowValues)

-----------------------------------------------------------------------------
(* One pass *)

\* The pass ends the loop, or goes on with a smaller guess.
Improve(t, next) ==
  IF next >= t.value THEN [t EXCEPT !.status = "ok"] ELSE [t EXCEPT !.value = next]

\* The result of the arena kernel; the functional forms go on to the heap kernel.
ByForm(t) ==
  IF t.status = "ok" /\ t.form = "fun" THEN [t EXCEPT !.status = HeapKernel(t.a, t.index)] ELSE t

\* __BIGINT_HERON__.
HeronPass(t) == ByForm(Improve(t, (t.value + t.a \div t.value) \div 2))

\* __BIGINT_NEWTON_CBRT__: the square of the guess divides a; one of two limbs crashes.
CubePass(t) ==
  IF t.value * t.value >= Limb THEN [t EXCEPT !.status = "crash"]
  ELSE ByForm(Improve(t, (2 * t.value + t.a \div (t.value * t.value)) \div 3))

\* xpow = pow(guess, root - 1).
Xpow(t) == AsDouble[PowerUpTo(t.value, t.index - 1, PowWords)]

\* The next guess of __UI64_NROOT__: a root that is no power of two keeps only
\* the ratio ("next = ratio").
Weighted(t, ratio) ==
  IF IsPowerOf2(t.index) THEN ((t.value * (t.index - 1) + ratio) % PowWords) \div t.index
  ELSE ratio \div t.index

WordPass(t) ==
  CASE Xpow(t) >= PowWords -> [t EXCEPT !.status = "undefined"]
    [] Xpow(t) = 0         -> [t EXCEPT !.status = "crash"]
    [] OTHER               -> Improve(t, Weighted(t, t.a \div Xpow(t)))

RootPass ==
  /\ During("root")
  /\ task' = CASE task.index = 2 -> HeronPass(task)
               [] task.index = 3 -> CubePass(task)
               [] OTHER          -> WordPass(task)

-----------------------------------------------------------------------------
(* What a root promises *)

\* Where the kernels give up exactness: the guess whose bits are a multiple of
\* RootBits - 1, an index that is no power of two, powers that a double rounds.
GuessLost(t)  == t.index = 2 /\ t.a >= Limb /\ GuessBits(t.a, 2) % (RootBits - 1) = 0
WeightLost(t) == t.index # 3 /\ ~IsPowerOf2(t.index)
PowRounded(t) ==
  /\ t.index \notin {2, 3}
  /\ PowerUpTo(2 ^ GuessBits(t.a, t.index), t.index - 1, PowWords) > 2 ^ DoubleBits

\* A root that is delivered is the integer root.  A power that a double rounds
\* puts it off by one at most; a guess that ran out of its limb, or a weight
\* that was lost, may leave it too small but never too large
\* (bigInt.c:2757-2798, 2868-2956, pow_root.c:201-260).
RootsExact ==
  (Ended /\ task.op = "root" /\ task.status = "ok" /\ task.a > 1
   /\ ~(task.form = "mut" /\ task.poisoned)) =>
    LET root == ExactRoot(task.a, task.index)
    IN  CASE GuessLost(task) \/ WeightLost(task) -> task.value <= root
          [] PowRounded(task)                    -> task.value \in root - 1 .. root + 1
          [] OTHER                               -> task.value = root

RootBegins == CallRoot
RootSteps  == RootPass
=============================================================================
