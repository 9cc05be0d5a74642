------------------------------ MODULE BigIntFunc ------------------------------
(***************************************************************************)
(* The functional model of dynamol/bigint/bigInt.c, where a call returns a *)
(* new bigInt, and the calls of the mutative model that BigIntMut leaves   *)
(* out: division and remainder by a number, Euclidean remainders, squares  *)
(* and powers.  The client keeps the result of a call in x.                *)
(*                                                                         *)
(* Under the balanced strategy each general case runs its arena kernel and *)
(* then, because that branch runs into the label of the heap block, its    *)
(* heap kernel too.                                                        *)
(***************************************************************************)
EXTENDS BigIntCompare

CONSTANTS
  MantissaBits,   \* the precision of a double (53)
  MaxExp          \* bound: the exponents that are tried, each a uint64_t

\* A limb has two halves of the same width (a uint64_t, two of 32 bits).
ASSUME FuncAssumption == MantissaBits \in Nat \ {0} /\ MaxExp \in Words /\ LimbBytes % 2 = 0

-----------------------------------------------------------------------------
(* Results *)

\* __BIGINT_INTERNAL_LINIT__(&res, k) makes an array of k limbs, one for k = 0;
\* the kernel then writes the limbs d.
Block(op, w, y, k, d, s) ==
  \/ IF Len(d) <= Larger(1, k) THEN Returns(op, w, y, [d |-> d, cap |-> Larger(1, k), sign |-> s])
     ELSE Fails(op, w, y, "OVERRUN")
  \/ Fails(op, w, y, "DNML_ALLOC_OOM")

\* bigInt_binew(&res, &o), whose sign the call may turn.
Duplicate(op, w, y, o, s) == Block(op, w, y, Len(o.d), o.d, s)

Word(v) == IF v = 0 THEN <<>> ELSE <<v>>

\* bigInt_newu64 and bigInt_newi64, and the same where echeck never gets their
\* status: the result then has no array.
OneWord(op, w, y, v, s) == Block(op, w, y, 1, Word(v), s)
OneWordUnchecked(op, w, y, v, s) ==
  \/ Returns(op, w, y, [d |-> Word(v), cap |-> 1, sign |-> s])
  \/ Fails(op, w, y, "NO_LIMBS")

ZeroResult(op, w, y) == Block(op, w, y, 0, <<>>, 1)

\* gcd and lcm may return an operand: two headers then share its array.
Shares(op, w, y, o) ==
  Hands(op, w, y, [d |-> o.d, cap |-> Larger(1, Len(o.d)), sign |-> o.sign], "SHARED")

UnaryOps  == {"fmulu64", "fdivu64", "fmodu64", "fmuli64", "fdivi64", "fmodi64", "gcdu64",
              "gcdi64", "lcmu64", "lcmi64", "mut_emodu64", "mut_emodi64", "mut_sqr", "sqr",
              "mut_pow", "pow", "fcopy", "focopy", "ftover"}
BinaryOps == {"fadd", "fsub", "fmul", "fdiv", "fmod", "gcd", "lcm", "mut_div", "mut_mod",
              "mut_emod", "emod"}

\* test_assert_mut and test_assert at the head of each call.
FuncRefused ==
  \/ \E op \in UnaryOps : MayRefuse(x) /\ Fails(op, 0, Zero, "BIGINT_ERR_INVAL")
  \/ \E op \in BinaryOps, y \in Operands :
       (MayRefuse(x) \/ MayRefuse(y)) /\ Fails(op, 0, y, "BIGINT_ERR_INVAL")

\* A divisor of zero is out of the domain, a Euclidean modulus of zero invalid.
FuncDivisionByZero ==
  /\ MayAccept(x)
  /\ \/ \E op \in {"fdivu64", "fmodu64", "fdivi64", "fmodi64", "fdiv", "fmod", "mut_div", "mut_mod"} :
          Fails(op, 0, Zero, "BIGINT_ERR_DOMAIN")
     \/ \E op \in {"mut_emodu64", "mut_emodi64", "mut_emod", "emod"} :
          Fails(op, 0, Zero, "BIGINT_ERR_INVAL")

-----------------------------------------------------------------------------
(* Arithmetic with one word *)

\* Mutant: the high words are lost.
MagMulWordLow(d, v) == [i \in DOMAIN d |-> (d[i] * v) % Radix]

\* The carry that leaves each limb of d on its product by v: "carry = high +
\* (sum < low) + (sum < carry)" counts the one out of the sum twice.
TwiceCarries(d, v) ==
  LET carry[i \in 0 .. Len(d)] ==
        IF i = 0 THEN 0
        ELSE LET twice == IF ((d[i] * v) % Radix) + carry[i - 1] >= Radix THEN 2 ELSE 0
             IN  ((d[i] * v) \div Radix + twice) % Radix
  IN  carry

\* __BIGINT_MAGMUL_U64__.
MagMulWord(d, v) ==
  LET carry == TwiceCarries(d, v)
      limbs == [i \in 1 .. Len(d) |-> (d[i] * v + carry[i - 1]) % Radix]
  IN  IF carry[Len(d)] = 0 THEN limbs ELSE Append(limbs, carry[Len(d)])

\* What __DIV_HELPER_UI64__(remainder, limb, v, ...) leaves as __BIGINT_MAGDIVMOD_U64__
\* calls it: the limb is the upper word and the remainder the lower one.
SwappedStep(limb, rem, v) ==
  CASE limb = 0 -> rem % v
    [] limb >= v -> limb % v
    [] OTHER -> (limb * Radix + rem) % v

\* The remainder after the k highest limbs, for every k, and the last.
SwappedRems(d, v) ==
  LET rem[k \in 0 .. Len(d)] ==
        IF k = 0 THEN 0 ELSE SwappedStep(d[Len(d) + 1 - k], rem[k - 1], v)
  IN  rem
SwappedRem(d, v) == SwappedRems(d, v)[Len(d)]

\* Mutant: no limb for the carry.
ProductRoomTight(d) == Len(d)
ProductRoom(d) == Len(d) + 1

FMulU64 ==
  \E v \in Words :
    /\ MayAccept(x)
    /\ \/ (x.d = <<>> \/ v = 0) /\ Block("fmulu64", v, Zero, 0, <<>>, x.sign)
       \/ IsOne(x) /\ v > 0 /\ OneWordUnchecked("fmulu64", v, Zero, v, x.sign)
       \/ x.d # <<>> /\ ~IsOne(x) /\ v = 1 /\ Duplicate("fmulu64", v, Zero, x, x.sign)
       \/ /\ x.d # <<>> /\ ~IsOne(x) /\ v > 1
          /\ Block("fmulu64", v, Zero, ProductRoom(x.d), MagMulWord(x.d, v), x.sign)

FMulI64 ==
  \E v \in IntWords :
    LET s == x.sign * SignOf(v)
    IN  /\ MayAccept(x)
        /\ \/ (x.d = <<>> \/ v = 0) /\ Block("fmuli64", v, Zero, 0, <<>>, s)
           \/ IsOne(x) /\ v # 0 /\ OneWordUnchecked("fmuli64", v, Zero, Mag(v), s)
           \/ x.d # <<>> /\ ~IsOne(x) /\ Mag(v) = 1 /\ Duplicate("fmuli64", v, Zero, x, s)
           \/ /\ x.d # <<>> /\ ~IsOne(x) /\ Mag(v) > 1
              /\ Block("fmuli64", v, Zero, ProductRoom(x.d), MagMulWord(x.d, Mag(v)), s)

\* bigInt_divu64 and bigInt_divi64.  A number of one limb gives zero, a longer
\* one writes its quotient, limb for limb, into an array of one.
QuotientByWord(op, v, s) ==
  \/ x.d = <<>> /\ ZeroResult(op, v, Zero)
  \/ x.d # <<>> /\ Mag(v) = 1 /\ Duplicate(op, v, Zero, x, s)
  \/ Len(x.d) = 1 /\ Mag(v) > 1 /\ ZeroResult(op, v, Zero)
  \/ Len(x.d) > 1 /\ Mag(v) > 1 /\ Block(op, v, Zero, 0, x.d, s)

FDivWord ==
  /\ MayAccept(x)
  /\ \/ \E v \in Words \ {0} : QuotientByWord("fdivu64", v, x.sign)
     \/ \E v \in IntWords \ {0} : QuotientByWord("fdivi64", v, x.sign * SignOf(v))

\* Mutant: a zero remainder keeps the sign of x.
RemSignKept(rem) == x.sign
RemSign(rem) == IF rem = 0 THEN 1 ELSE x.sign

\* bigInt_modu64 and bigInt_modi64; the arena may be poisoned or too small.
RemainderByWord(op, v) ==
  LET m == Mag(v)
      rem == SwappedRem(x.d, m)
  IN  \/ (x.d = <<>> \/ m = 1) /\ ZeroResult(op, v, Zero)
      \/ /\ x.d # <<>> /\ m > 1
         /\ \/ MagCompWord(x.d, m) = -1 /\ Duplicate(op, v, Zero, x, x.sign)
            \/ MagCompWord(x.d, m) = 0 /\ ZeroResult(op, v, Zero)
            \/ MagCompWord(x.d, m) = 1 /\ OneWord(op, v, Zero, rem, RemSign(rem))
            \/ MagCompWord(x.d, m) = 1 /\ Fails(op, v, Zero, "DARENA_OVERFLOW")

FModWord ==
  /\ MayAccept(x)
  /\ \/ \E v \in Words \ {0} : RemainderByWord("fmodu64", v)
     \/ \E v \in IntWords \ {0} : RemainderByWord("fmodi64", v)

-----------------------------------------------------------------------------
(* Arithmetic with another number *)

\* bigInt_add and bigInt_sub, where s is the sign y counts with.  The kernels
\* write a limb for each of the longer operand; the array has one.
Sum(op, y, s) ==
  LET comp == MagComp(x.d, y.d)
  IN  \/ y.d = <<>> /\ Duplicate(op, 0, y, x, IF x.d = <<>> THEN 1 ELSE x.sign)
      \/ y.d # <<>> /\ x.d = <<>> /\ Duplicate(op, 0, y, y, s)
      \/ /\ y.d # <<>> /\ x.d # <<>> /\ x.sign = s
         /\ Block(op, 0, y, 0, MagAdd(x.d, y.d), x.sign)
      \/ /\ y.d # <<>> /\ x.d # <<>> /\ x.sign # s
         /\ \/ comp = 0 /\ ZeroResult(op, 0, y)
            \/ comp = 1 /\ Block(op, 0, y, 0, MagSub(x.d, y.d), x.sign)
            \/ comp = -1 /\ Block(op, 0, y, 0, MagSub(y.d, x.d), s)

FAdd == \E y \in Operands : MayAccept(x) /\ MayAccept(y) /\ Sum("fadd", y, y.sign)
FSub == \E y \in Operands : MayAccept(x) /\ MayAccept(y) /\ Sum("fsub", y, -y.sign)

\* __BIGINT_MAGMUL__ and __BIGINT_MAGSQR__: a poisoned arena leaves res without a
\* limb, and the status that says so is not one their callers test for.
ArenaProducts(a, b, done) ==
  {[d |-> Schoolbook(a, b), status |-> done], [d |-> <<>>, status |-> "POISONED"]}

\* bigInt_mul.  The heap block multiplies res by x and moves that product into
\* the client's y, whose array it frees; its own array is not checked.
FMul ==
  \E y \in Operands :
    LET s == x.sign * y.sign
        n == Len(x.d) + Len(y.d)
    IN  /\ MayAccept(x) /\ MayAccept(y)
        /\ \/ (x.d = <<>> \/ y.d = <<>>) /\ Block("fmul", 0, y, 0, <<>>, s)
           \/ IsOne(x) /\ y.d # <<>> /\ Duplicate("fmul", 0, y, y, s)
           \/ ~IsOne(x) /\ x.d # <<>> /\ IsOne(y) /\ Duplicate("fmul", 0, y, x, s)
           \/ /\ x.d # <<>> /\ y.d # <<>> /\ ~IsOne(x) /\ ~IsOne(y)
              /\ \/ \E p \in ArenaProducts(x.d, y.d, "OPERAND_FREED") :
                      Hands("fmul", 0, y, [d |-> p.d, cap |-> n, sign |-> s], p.status)
                 \/ \E how \in {"DNML_ALLOC_OOM", "CRASH"} : Fails("fmul", 0, y, how)

\* The heap blocks of division and remainder hand a null remainder to the kernel,
\* which sizes it first.
HeapDivision(op, y) == \E how \in {"DNML_ALLOC_OOM", "CRASH"} : Fails(op, 0, y, how)

FDiv ==
  \E y \in Operands :
    /\ MayAccept(x) /\ MayAccept(y) /\ y.d # <<>>
    /\ \/ x.d = <<>> /\ ZeroResult("fdiv", 0, y)
       \/ x.d # <<>> /\ IsOne(y) /\ Duplicate("fdiv", 0, y, x, x.sign * y.sign)
       \/ IsOne(x) /\ ~IsOne(y) /\ ZeroResult("fdiv", 0, y)
       \/ x.d # <<>> /\ ~IsOne(x) /\ ~IsOne(y) /\ HeapDivision("fdiv", y)

FMod ==
  \E y \in Operands :
    LET comp == MagComp(x.d, y.d)
    IN  /\ MayAccept(x) /\ MayAccept(y) /\ y.d # <<>>
        /\ \/ (x.d = <<>> \/ IsOne(y) \/ comp = 0) /\ ZeroResult("fmod", 0, y)
           \/ x.d # <<>> /\ ~IsOne(y) /\ comp = -1 /\ Duplicate("fmod", 0, y, x, x.sign)
           \/ ~IsOne(y) /\ comp = 1 /\ HeapDivision("fmod", y)

MutDiv ==
  \E y \in Operands :
    /\ MayAccept(x) /\ MayAccept(y) /\ y.d # <<>>
    /\ \/ IsOne(y) /\ Returns("mut_div", 0, y, [x EXCEPT !.sign = @ * y.sign])
       \/ ~IsOne(y) /\ IsOne(x) /\ Returns("mut_div", 0, y, ResetOf(x))
       \/ ~IsOne(y) /\ x.d = <<>> /\ Returns("mut_div", 0, y, x)
       \/ ~IsOne(y) /\ ~IsOne(x) /\ x.d # <<>> /\ HeapDivision("mut_div", y)

MutMod ==
  \E y \in Operands :
    LET comp == MagComp(x.d, y.d)
    IN  /\ MayAccept(x) /\ MayAccept(y) /\ y.d # <<>>
        /\ \/ (IsOne(y) \/ comp = 0) /\ Returns("mut_mod", 0, y, ResetOf(x))
           \/ ~IsOne(y) /\ comp = -1 /\ Returns("mut_mod", 0, y, x)
           \/ ~IsOne(y) /\ comp = 1 /\ HeapDivision("mut_mod", y)

-----------------------------------------------------------------------------
(* Greatest common divisor, least common multiple *)

TwoTo(k) == Doublings(1, k)[k]

\* __CTZ_UI64__ and __BIGINT_CTZ__: how often two divides u, which is not zero.
Twos(u)    == CHOOSE k \in 0 .. u : u % TwoTo(k) = 0 /\ u % TwoTo(k + 1) # 0
OddPart(u) == u \div TwoTo(Twos(u))

\* __BINARY_GCDU64__.  Its exchange of u and v loses u, which is then zero: the
\* loop ends only on the way down from a multiple, and the power of two that u
\* and v share is not put back.
BinaryGcdEnds(u, v) == u # 0 /\ v # 0 => OddPart(u) % OddPart(v) = 0
BinaryGcd(u, v) == IF u = 0 THEN v ELSE IF v = 0 THEN u ELSE OddPart(v)

GcdWord(op, w, y, u, v) ==
  \/ BinaryGcdEnds(u, v) /\ OneWord(op, w, y, BinaryGcd(u, v), 1)
  \/ ~BinaryGcdEnds(u, v) /\ Fails(op, w, y, "DIVERGES")

\* bigInt_gcdu64 and bigInt_gcdi64.  The arena copy of a longer x is never
\* filled: its remainder by v may be any.
GcdByWord(op, w) ==
  LET v == Mag(w)
  IN  \/ v = 0 /\ Hands(op, w, Zero, x, "SHARED")
      \/ v # 0 /\ x.d = <<>> /\ OneWord(op, w, Zero, v, 1)
      \/ v # 0 /\ Len(x.d) = 1 /\ GcdWord(op, w, Zero, x.d[1], v)
      \/ v # 0 /\ Len(x.d) > 1 /\ \E rem \in 0 .. v - 1 : GcdWord(op, w, Zero, rem, v)
      \/ v # 0 /\ Len(x.d) > 1 /\ Fails(op, w, Zero, "CRASH")

Gcds ==
  /\ MayAccept(x)
  /\ \/ \E w \in Words : GcdByWord("gcdu64", w)
     \/ \E w \in IntWords : GcdByWord("gcdi64", w)

\* The limbs of a number that should have n at most: a limb more shows one that has not.
Limbs(v, n) == Trim([i \in 1 .. n + 1 |-> (v \div ByteRange((i - 1) * LimbBytes)) % Radix])

\* A pass of Stein's loop: the two exchanged if the first is smaller, their
\* difference, and its low zero bits shifted out.  It ends when they are equal.
SteinPass(p) ==
  CASE p.a = p.b -> p
    [] p.a > p.b -> [a |-> OddPart(p.a - p.b), b |-> p.b]
    [] p.a < p.b -> [a |-> OddPart(p.b - p.a), b |-> p.a]

\* The two after each pass; u + v passes are always enough.
SteinPasses(u, v) ==
  LET pass[k \in 0 .. u + v] ==
        IF k = 0 THEN [a |-> OddPart(u), b |-> OddPart(v)] ELSE SteinPass(pass[k - 1])
  IN  pass
SteinEnd(u, v) ==
  CHOOSE k \in 0 .. u + v : SteinPasses(u, v)[k].a = SteinPasses(u, v)[k].b

\* The shifts of the loop are by less than a limb, whatever number of low bits
\* is zero (__BIGINT_INTERNAL_RSHIFT__ assumes so).
SteinShifts(u, v) ==
  LET Short(a) == a % Radix # 0
      pass == SteinPasses(u, v)
  IN  /\ Short(u) /\ Short(v)
      /\ \A k \in 0 .. SteinEnd(u, v) : pass[k].a # pass[k].b => Short(Mag(pass[k].a - pass[k].b))

\* Mutant: the shared power of two is not put back.
SteinOddOnly(u, v) == SteinPasses(u, v)[SteinEnd(u, v)].a

\* __BINARY_STEIN__ and __BIHEAP_STEIN__ of two numbers that are not zero.
Stein(u, v) ==
  LET i == Twos(u)
      j == Twos(v)
  IN  SteinPasses(u, v)[SteinEnd(u, v)].a * TwoTo(IF i < j THEN i ELSE j)

Gcd ==
  \E y \in Operands :
    /\ MayAccept(x) /\ MayAccept(y)
    /\ \/ x.d = <<>> /\ Shares("gcd", 0, y, y)
       \/ x.d # <<>> /\ y.d = <<>> /\ Hands("gcd", 0, y, x, "SHARED")
       \/ Len(x.d) = 1 /\ Len(y.d) = 1 /\ GcdWord("gcd", 0, y, x.d[1], y.d[1])
       \/ /\ x.d # <<>> /\ y.d # <<>> /\ (Len(x.d) > 1 \/ Len(y.d) > 1)
          /\ LET u == Magnitude(x.d)
                 v == Magnitude(y.d)
                 n == Larger(Len(x.d), Len(y.d))
             IN  \/ SteinShifts(u, v) /\ Block("gcd", 0, y, n, Limbs(Stein(u, v), n), 1)
                 \/ ~SteinShifts(u, v) /\ Fails("gcd", 0, y, "UNDEFINED")

\* bigInt_lcmu64 and bigInt_lcmi64 of what is left: again from a copy that was
\* never filled, g, divided by v in place before it is multiplied by v.
\* Bound: followed for a copy of at most two limbs.
LcmOfGarbage(op, w) ==
  LET v == Mag(w)
      n == Len(x.d)
  IN  \/ \E how \in {"DNML_ALLOC_OOM", "CRASH"} : Fails(op, w, Zero, how)
      \/ /\ n <= 2
         /\ \E g \in 0 .. ByteRange(n * LimbBytes) - 1 :
              \/ /\ BinaryGcdEnds(g % v, v)
                 /\ Returns(op, w, Zero,
                            [d |-> Limbs((g \div v) * (v \div BinaryGcd(g % v, v)), n),
                             cap |-> n + 1, sign |-> 1])
              \/ ~BinaryGcdEnds(g % v, v) /\ Fails(op, w, Zero, "DIVERGES")

\* The unsigned call does not look at the status of its first allocation.
LcmU64 ==
  \E v \in Words :
    /\ MayAccept(x)
    /\ \/ (v = 0 \/ x.d = <<>>) /\ OneWordUnchecked("lcmu64", v, Zero, 0, 1)
       \/ v # 0 /\ (IsOne(x) \/ x.d = <<v>>) /\ OneWord("lcmu64", v, Zero, v, 1)
       \/ x.d # <<>> /\ ~IsOne(x) /\ v = 1 /\ Duplicate("lcmu64", v, Zero, x, x.sign)
       \/ x.d \notin {<<>>, <<1>>, <<v>>} /\ v > 1 /\ LcmOfGarbage("lcmu64", v)

LcmI64 ==
  \E v \in IntWords :
    /\ MayAccept(x)
    /\ \/ (v = 0 \/ x.d = <<>>) /\ ZeroResult("lcmi64", v, Zero)
       \/ v # 0 /\ (IsOne(x) \/ (v > 0 /\ x.d = <<v>>)) /\ OneWord("lcmi64", v, Zero, Mag(v), 1)
       \/ x.d # <<>> /\ ~IsOne(x) /\ Mag(v) = 1 /\ Duplicate("lcmi64", v, Zero, x, x.sign)
       \/ /\ x.d \notin {<<>>, <<1>>} /\ Mag(v) > 1 /\ (v > 0 => x.d # <<v>>)
          /\ LcmOfGarbage("lcmi64", v)

\* __BIGINT_MAGLCM__ and __BIHEAP_MAGLCM__ divide x by the gcd.
LcmByGcd(y) == HeapDivision("lcm", y)

Lcm ==
  \E y \in Operands :
    LET comp == MagComp(x.d, y.d)
    IN  /\ MayAccept(x) /\ MayAccept(y)
        /\ \/ IsOne(x) /\ Shares("lcm", 0, y, y)
           \/ ~IsOne(x) /\ (IsOne(y) \/ comp = 0) /\ Hands("lcm", 0, y, x, "SHARED")
           \/ /\ ~IsOne(x) /\ ~IsOne(y) /\ comp # 0
              /\ \/ (x.d = <<>> \/ y.d = <<>>) /\ ZeroResult("lcm", 0, y)
                 \/ x.d # <<>> /\ y.d # <<>> /\ LcmByGcd(y)

-----------------------------------------------------------------------------
(* Euclidean remainders *)

\* Mutant: a negative number has the remainder of its magnitude.
EmodOfMagnitude(o, m) == DivModWord(o.d, m).rem

\* __BIGINT_MAGEMOD_U64__ and the turn of a negative remainder.
Emod(o, m) ==
  LET rem == DivModWord(o.d, m).rem
  IN  IF o.sign = -1 /\ rem # 0 THEN (m - rem) % m ELSE rem

\* bigInt_emodu64 and bigInt_emodi64, which return a word.
EmodWord(o, v) ==
  CASE Mag(v) = 1 \/ o.d = <<>> -> 0
    [] Len(o.d) = 1 /\ o.sign = 1 /\ o.d[1] < Mag(v) -> o.d[1]
    [] OTHER -> Emod(o, Mag(v))

\* bigInt_mut_emodu64 and bigInt_mut_emodi64: n stays, whatever the remainder is.
MutEmodByWord(op, v) ==
  LET m == Mag(v)
      reduced == Len(x.d) = 1 /\ x.d[1] < m /\ x.sign = 1
  IN  \/ m > 1 /\ (x.d = <<>> \/ reduced) /\ Returns(op, v, Zero, x)
      \/ m = 1 /\ Returns(op, v, Zero, ResetOf(x))
      \/ /\ m > 1 /\ x.d # <<>> /\ ~reduced
         /\ Returns(op, v, Zero, [x EXCEPT !.d[1] = Emod(x, m), !.sign = 1])

MutEmodWord ==
  /\ MayAccept(x)
  /\ \/ \E v \in Words \ {0} : MutEmodByWord("mut_emodu64", v)
     \/ \E v \in IntWords \ {0} : MutEmodByWord("mut_emodi64", v)

\* __BIGINT_MAGEMOD__ under bigInt_mut_emod and bigInt_emod.
EuclidDivision(op, y) == HeapDivision(op, y)

MutEmod ==
  \E y \in Operands :
    LET below == MagComp(x.d, y.d) = -1 /\ x.sign = 1
    IN  /\ MayAccept(x) /\ MayAccept(y) /\ y.d # <<>>
        /\ \/ IsOne(y) /\ Returns("mut_emod", 0, y, ResetOf(x))
           \/ ~IsOne(y) /\ below /\ Returns("mut_emod", 0, y, x)
           \/ ~IsOne(y) /\ ~below /\ EuclidDivision("mut_emod", y)

FEmod ==
  \E y \in Operands :
    LET below == MagComp(x.d, y.d) = -1 /\ x.sign = 1
    IN  /\ MayAccept(x) /\ MayAccept(y) /\ y.d # <<>>
        /\ \/ (x.d = <<>> \/ IsOne(y)) /\ ZeroResult("emod", 0, y)
           \/ x.d # <<>> /\ ~IsOne(y) /\ below /\ Duplicate("emod", 0, y, x, x.sign)
           \/ x.d # <<>> /\ ~IsOne(y) /\ ~below /\ EuclidDivision("emod", y)

-----------------------------------------------------------------------------
(* Squares and powers *)

\* UINT32_MAX: the code keeps the square of a word below it in one word, and that
\* of the word itself, which fits one too, in two.
HalfMax == ByteRange(LimbBytes \div 2) - 1

SquareOf(limb) == <<(limb * limb) % Radix, (limb * limb) \div Radix>>

\* bigInt_mut_sqr, which bigInt_mut_pow calls for an exponent of two.  A long x
\* takes the arena's product, empty if the arena is poisoned, and is then
\* multiplied by itself once more into an array that is lost.
MutSqr(op, w) ==
  LET n == Len(x.d)
  IN  \/ n = 0 /\ Returns(op, w, Zero, x)
      \/ /\ n = 1 /\ (x.d[1] < HalfMax \/ x.d[1] = 1)
         /\ Returns(op, w, Zero, [x EXCEPT !.d = <<x.d[1] * x.d[1]>>, !.sign = 1])
      \/ /\ n = 1 /\ x.d[1] >= HalfMax /\ x.d[1] # 1
         /\ Reserving(op, w, Zero, 2, [EnsCap(x, 2) EXCEPT !.d = SquareOf(x.d[1]), !.sign = 1])
      \/ /\ n > 1
         /\ \/ \E p \in ArenaProducts(x.d, x.d, "SUCCESS") :
                 Hands(op, w, Zero, [d |-> p.d, cap |-> 2 * n, sign |-> 1], p.status)
            \/ \E how \in {"DNML_ALLOC_OOM", "CRASH"} : Fails(op, w, Zero, how)

\* bigInt_sqr, which bigInt_pow calls for an exponent of two.
FSqr(op, w) ==
  LET n == Len(x.d)
  IN  \/ n = 0 /\ ZeroResult(op, w, Zero)
      \/ n = 1 /\ (x.d[1] < HalfMax \/ x.d[1] = 1) /\ OneWord(op, w, Zero, x.d[1] * x.d[1], 1)
      \/ n = 1 /\ x.d[1] >= HalfMax /\ x.d[1] # 1 /\ Block(op, w, Zero, 2, SquareOf(x.d[1]), 1)
      \/ n > 1 /\ Block(op, w, Zero, 2 * n, Schoolbook(x.d, x.d), 1)
      \/ n > 1 /\ Fails(op, w, Zero, "CRASH")

Squares == MayAccept(x) /\ (MutSqr("mut_sqr", 0) \/ FSqr("sqr", 0))

\* The product of e factors v, and of fewer.
Powers(v, e) == LET power[k \in 0 .. e] == IF k = 0 THEN 1 ELSE v * power[k - 1] IN power
Power(v, e)  == Powers(v, e)[e]

\* __SAFE_EXP__ of a base that is not zero.
SafeExp(b, e) ==
  \/ e \in {0, 1}
  \/ e = 2 /\ b <= HalfMax
  \/ e > 2 /\ Power(b, e) < Radix

\* The doubles next to v, one of which a conversion or pow() gives.
IsDouble(v) == v = 0 \/ OddPart(v) < TwoTo(MantissaBits)
Rounded(v) ==
  {a \in 0 .. 2 * v :
     /\ IsDouble(a)
     /\ \A b \in 0 .. 2 * v : IsDouble(b) /\ (b \in a .. v \/ b \in v .. a) => b = a}

\* (uint64_t)pow((double)b, (double)e): of 2^64 the cast may make any word.
PowDouble(b, e) ==
  UNION {IF p \in Limb THEN {p} ELSE Limb : p \in UNION {Rounded(Power(r, e)) : r \in Rounded(b)}}

EvenPowSign(e) == IF e % 2 = 0 THEN 1 ELSE x.sign

\* bigInt_mut_pow.  The product of the general case never reaches x.
MutPow ==
  \E e \in 0 .. MaxExp :
    /\ MayAccept(x)
    /\ \/ e = 0 /\ Returns("mut_pow", e, Zero, [x EXCEPT !.d = <<1>>, !.sign = 1])
       \/ e > 0 /\ (x.d = <<>> \/ e = 1) /\ Returns("mut_pow", e, Zero, x)
       \/ /\ e > 1 /\ Len(x.d) = 1 /\ SafeExp(x.d[1], e)
          /\ \E p \in PowDouble(x.d[1], e) :
               Returns("mut_pow", e, Zero, [x EXCEPT !.d = <<p>>, !.sign = EvenPowSign(e)])
       \/ /\ e > 1 /\ x.d # <<>> /\ ~(Len(x.d) = 1 /\ SafeExp(x.d[1], e))
          /\ \/ e = 2 /\ MutSqr("mut_pow", e)
             \/ e > 2 /\ Returns("mut_pow", e, Zero, x)
             \/ e > 2 /\ \E how \in {"DNML_ALLOC_OOM", "CRASH"} : Fails("mut_pow", e, Zero, how)

\* One bit of the exponent: if it is set the product is multiplied by the square,
\* and for another bit the square is squared.  cap is the array of the product.
ExpBit(st, set, more) ==
  [acc |-> IF set THEN Schoolbook(st.acc, st.sq) ELSE st.acc,
   cap |-> IF set THEN Len(st.acc) + Len(st.sq) ELSE st.cap,
   sq  |-> IF more THEN Schoolbook(st.sq, st.sq) ELSE st.sq]

BitSet(e, j)   == (e \div TwoTo(j)) % 2 = 1
BitsAbove(e, j) == TwoTo(j + 1) <= e

\* Mutant: the square of the base is not carried to the next bit.
BinaryExpNoSquare(d, e) ==
  LET bit[j \in 0 .. e] == IF j = 0 THEN [acc |-> <<1>>, cap |-> 1, sq |-> d]
                           ELSE ExpBit(bit[j - 1], BitSet(e, j - 1), FALSE)
  IN  bit[e]

\* __BINARY_EXP__ and __BIHEAP_BINARY_EXP__: a bit of e at a time, from the lowest
\* (the bits above the top one are 0).
ExpBits(d, e) ==
  LET bit[j \in 0 .. e] == IF j = 0 THEN [acc |-> <<1>>, cap |-> 1, sq |-> d]
                           ELSE ExpBit(bit[j - 1], BitSet(e, j - 1), BitsAbove(e, j - 1))
  IN  bit
BinaryExp(d, e) == ExpBits(d, e)[e]

FPow ==
  \E e \in 0 .. MaxExp :
    LET power == BinaryExp(x.d, e)
    IN  /\ MayAccept(x)
        /\ \/ e = 2 /\ FSqr("pow", e)
           \/ e = 0 /\ OneWord("pow", e, Zero, 1, 1)
           \/ e \notin {0, 2} /\ x.d = <<>> /\ ZeroResult("pow", e, Zero)
           \/ e \notin {0, 2} /\ IsOne(x) /\ OneWord("pow", e, Zero, 1, EvenPowSign(e))
           \/ /\ e \notin {0, 2} /\ Len(x.d) = 1 /\ ~IsOne(x) /\ SafeExp(x.d[1], e)
              /\ \E p \in PowDouble(x.d[1], e) : OneWord("pow", e, Zero, p, EvenPowSign(e))
           \/ e = 1 /\ Len(x.d) > 1 /\ Duplicate("pow", e, Zero, x, x.sign)
           \/ /\ e > 2 /\ x.d # <<>> /\ ~(Len(x.d) = 1 /\ SafeExp(x.d[1], e))
              /\ \/ Block("pow", e, Zero, power.cap, power.acc, EvenPowSign(e))
                 \/ Fails("pow", e, Zero, "CRASH")

-----------------------------------------------------------------------------
(* Functional copies and the last utilities *)

FCopyWord ==
  \/ \E v \in Words : OneWord("fcopyu64", v, Zero, v, 1)
  \/ \E v \in IntWords : OneWord("fcopyi64", v, Zero, Mag(v), SignOf(v))

FCopy == MayAccept(x) /\ Duplicate("fcopy", 0, Zero, x, x.sign)

\* bigInt_ocopy and bigInt_tover_copy make an array of k limbs.
FCopySized ==
  \E k \in 0 .. MaxCap :
    /\ MayAccept(x)
    /\ \/ k < Len(x.d) /\ Fails("focopy", k, Zero, "BIGINT_ERR_RANGE")
       \/ k >= Len(x.d) /\ Block("focopy", k, Zero, k, x.d, x.sign)
       \/ k = 0 /\ ZeroResult("ftover", k, Zero)
       \/ k > 0 /\ Block("ftover", k, Zero, k, Cut(x.d, k), x.sign)

\* bigInt_canonicalize, which takes any object.
Canonical(o) ==
  LET c == IF o.cap < 1 THEN [d |-> <<>>, cap |-> 1, sign |-> 1]
           ELSE [o EXCEPT !.d = Cut(@, o.cap)]
  IN  IF c.sign \in {1, -1} THEN c ELSE ResetOf(c)

Canonicalize ==
  /\ "canonicalize" \in Ops /\ call.status \notin Broken
  /\ x' = Canonical(x)
  /\ call' = [op |-> "canonicalize", word |-> 0, y |-> Zero, status |-> "SUCCESS"]

\* bigInt_transfer: x takes the header of src, whose array may be longer than n.
Transfer ==
  \E y \in Operands : \E c \in Larger(1, Len(y.d)) .. MaxCap :
    Returns("transfer", 0, y, [d |-> y.d, cap |-> c, sign |-> y.sign])

\* Modular arithmetic and long double: declared, and not written yet.  In place
\* nothing happens; a new number has no array.
Unwritten ==
  \/ Returns("mut_modadd", 0, Zero, x)
  \/ Fails("modadd", 0, Zero, "NO_LIMBS")

-----------------------------------------------------------------------------
(* Specification *)

FuncNext ==
  \/ FuncRefused \/ FuncDivisionByZero
  \/ FMulU64 \/ FMulI64 \/ FDivWord \/ FModWord
  \/ FAdd \/ FSub \/ FMul \/ FDiv \/ FMod \/ MutDiv \/ MutMod
  \/ Gcds \/ Gcd \/ LcmU64 \/ LcmI64 \/ Lcm \/ MutEmodWord \/ MutEmod \/ FEmod
  \/ Squares \/ MutPow \/ FPow
  \/ FCopyWord \/ FCopy \/ FCopySized \/ Canonicalize \/ Transfer \/ Unwritten

FuncSpec == Init /\ [][Next \/ FuncNext]_vars

-----------------------------------------------------------------------------
(* Properties *)

\* A kernel outgrows the array made for it in four calls only: the quotient of a
\* number longer than a word, and a sum with one.
WithinBlock ==
  call'.status = "OVERRUN" =>
    \/ call'.op \in {"fdivu64", "fdivi64"} /\ Long(x)
    \/ call'.op \in {"fadd", "fsub"} /\ (Long(x) \/ Long(call'.y))

\* Arithmetic with one word.  The product is exact when no low word and carry
\* wrap; a remainder when x is one word; a quotient when it is zero, or 1 divides.
FuncWordExact ==
  LET v == call'.word
      m == Mag(v)
      wraps == \E i \in DOMAIN x.d :
                 ((x.d[i] * m) % Radix) + ((LimbAt(x.d, i - 1) * m) \div Radix) >= Radix
  IN  /\ Succeeds({"fmulu64", "fmuli64"}) /\ ~wraps => Val(x') = Val(x) * v
      /\ Succeeds({"fdivu64", "fdivi64"}) /\ (m = 1 \/ Mag(Val(x)) < m)
            => Val(x') = Quotient(Val(x), v)
      /\ Succeeds({"fmodu64", "fmodi64"}) /\ ~Long(x)
            => Val(x') = Val(x) - v * Quotient(Val(x), v)

\* Sums that carry and borrow nothing, products (unless the arena is poisoned),
\* quotients and remainders that come back are exact, sign included, and so are
\* Euclidean remainders of one word in place.
FuncObjectExact ==
  LET y == call'.y
      s == IF call'.op = "fadd" THEN y.sign ELSE -y.sign
      carries == x.d # <<>> /\ y.d # <<>> /\ x.sign = s /\ LimbAt(x.d, 1) + LimbAt(y.d, 1) >= Radix
  IN  /\ Succeeds({"fadd", "fsub"}) /\ ~carries => Val(x') = Val(x) + s * Magnitude(y.d)
      /\ call'.op = "fmul" /\ call'.status \in {"SUCCESS", "OPERAND_FREED"}
            => Val(x') = Val(x) * Val(y)
      /\ Succeeds({"fdiv", "mut_div"}) => Val(x') = Quotient(Val(x), Val(y))
      /\ Succeeds({"fmod", "mut_mod"}) => Val(x') = Val(x) - Val(y) * Quotient(Val(x), Val(y))
      /\ Succeeds({"emod", "mut_emod"}) => Val(x') = Val(x) % Magnitude(y.d)
      /\ Succeeds({"mut_emodu64", "mut_emodi64"}) /\ ~Long(x)
            => Val(x') = Val(x) % Mag(call'.word)

GcdOf(a, b) ==
  IF a = 0 \/ b = 0 THEN a + b
  ELSE CHOOSE g \in 1 .. a : /\ a % g = 0 /\ b % g = 0
                             /\ \A f \in g + 1 .. a : a % f # 0 \/ b % f # 0

\* A gcd that comes back is the greatest common divisor, unless it is one of two
\* words that are both even.  It may also not come back: the shifts of the binary
\* gcd have no meaning when a number ends in a zero limb, at the start or on the
\* way (gcd.c:92-105 against bigNum_utils.c:198).
GcdExact ==
  LET u == Magnitude(x.d)
      v == Magnitude(call'.y.d)
      evenWords == ~Long(x) /\ ~Long(call'.y) /\ u # 0 /\ v # 0 /\ u % 2 = 0 /\ v % 2 = 0
  IN  call'.op = "gcd" /\ call'.status \in {"SUCCESS", "SHARED"} /\ ~evenWords
        => Mag(Val(x')) = GcdOf(u, v)

\* Squares and powers are exact where no double comes between, but for the
\* mutative power above two, which leaves x.
PowerExact ==
  LET e == IF call'.op \in {"mut_sqr", "sqr"} THEN 2 ELSE call'.word
      rounds == ~Long(x) /\ SafeExp(RawLimb(x), e) /\ Power(Magnitude(x.d), e) > TwoTo(MantissaBits)
  IN  /\ Succeeds({"mut_sqr", "sqr"}) => Val(x') = Val(x) * Val(x)
      /\ Succeeds({"pow"}) /\ ~rounds => Val(x') = Power(Val(x), e)
      /\ Succeeds({"mut_pow"}) /\ ~rounds /\ e <= 2 => Val(x') = Power(Val(x), e)

\* What the arithmetic of bigInt.c computes, in place or into a new number, is the
\* operation of its name, sign included, outside the exceptions of each family.
ArithmeticExact ==
  [][ /\ WordOpExact /\ ProductMagnitude /\ AddSubExact
      /\ FuncWordExact /\ FuncObjectExact /\ GcdExact /\ PowerExact ]_vars

\* The Euclidean remainder by a word, of any number a call can leave.
EuclideanExact ==
  ArithValid(x) =>
    \A v \in (Words \cup IntWords) \ {0} : EmodWord(x, v) = Val(x) % Mag(v)

\* What is read of a number that any sequence of calls has left, by a comparison, a
\* conversion or a remainder, is true of the integer it stands for.
ReadersExact == ComparesExact /\ ConvertsExact /\ EuclideanExact

\* The calls that make an acceptable number of an acceptable x.  The square of
\* UINT32_MAX has a zero limb on top, which the next call refuses.
Making ==
  {"fdivu64", "fdivi64", "fmodu64", "fmodi64", "gcdu64", "gcdi64", "gcd", "fdiv", "fmod",
   "mut_mod", "mut_emod", "emod", "fcopy", "fcopyu64", "fcopyi64", "focopy", "lcm"}
  \cup (IF x.d = <<HalfMax>> /\ HalfMax > 1 THEN {} ELSE {"sqr"})

\* They do, and canonicalize makes a number that keeps rules 1 to 4 of any.
ResultsAcceptable ==
  /\ Succeeds(Making) /\ ArithValid(x) => ArithValid(x')
  /\ Succeeds({"canonicalize"}) => CoreValid(x')

\* No call leaves a number that the next one refuses, or writes beyond the array it
\* made, but for those that the three parts name.
ContractKept == [][KeepsContract /\ ResultsAcceptable /\ WithinBlock]_vars
=============================================================================
