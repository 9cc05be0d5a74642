------------------------------- MODULE WordArith -------------------------------
(***************************************************************************)
(* The arithmetic of single words (intrinsics/): sum with carry, difference *)
(* with borrow, wide product, wide quotient, inverse modulo a power of two, *)
(* modular product, comparisons, bit scans.  Every function has three kits  *)
(* that must agree: "builtin" (GCC and Clang), "portable" (zvanillc/) and   *)
(* "constant" (crt_vanillc/, the same time for every argument).  The        *)
(* assembly of the three architectures is not modelled.                     *)
(*                                                                         *)
(* A word has W bits, an even number; the inverse starts from W / 8 bits,   *)
(* as the table of the code starts from 8 of 64, and has a width of its     *)
(* own.  The scans are done at 64 bits, a word being the set of its one     *)
(* bits.                                                                    *)
(***************************************************************************)
EXTENDS CallState

CONSTANTS
  W,            \* bits of a word: 64 in the code
  InverseBits,  \* bits of a word that is inverted, a multiple of 8: 64 in the code
  SwarBits,     \* bits of a word whose ones are counted, a multiple of 8: 64 in the code
  WideWords,    \* bound: the words of wide quotients and modular products
  SwarWords,    \* bound: the words whose ones are counted
  ScanWords     \* bound: the sets of bits that are scanned

\* 2 to the n.
PowerOf2(n) ==
  LET power[i \in 0 .. n] == IF i = 0 THEN 1 ELSE 2 * power[i - 1]
  IN  power[n]

\* The ones of a word that is counted fit its top byte.
ASSUME WordAssumption ==
  /\ W \in Nat /\ W > 0 /\ W % 2 = 0
  /\ InverseBits \in Nat /\ InverseBits > 0 /\ InverseBits % 8 = 0
  /\ SwarBits \in Nat /\ SwarBits > 0 /\ SwarBits % 8 = 0 /\ SwarBits < 256
  /\ WideWords \subseteq 0 .. PowerOf2(W) - 1 /\ SwarWords \subseteq 0 .. PowerOf2(SwarBits) - 1
  /\ \A x \in ScanWords : x \subseteq 0 .. 63

Values  == PowerOf2(W)
Words   == 0 .. Values - 1
MaxWord == Values - 1
Kits    == {"builtin", "portable", "constant"}

Flag(p)   == IF p THEN 1 ELSE 0
Bit(x, i) == (x \div PowerOf2(i)) % 2
Msb(x)    == Bit(x, W - 1)

\* The word of w bits that are, from the lowest, those of b.
FromBits(b, w) ==
  LET word[n \in 0 .. w] == IF n = 0 THEN 0 ELSE word[n - 1] + b[n - 1] * PowerOf2(n - 1)
  IN  word[w]
And(w, x, y) == FromBits([i \in 0 .. w - 1 |-> Bit(x, i) * Bit(y, i)], w)
Xor(w, x, y) == FromBits([i \in 0 .. w - 1 |-> (Bit(x, i) + Bit(y, i)) % 2], w)

\* What a two's complement word stands for.
Signed(x) == IF Msb(x) = 1 THEN x - Values ELSE x

-----------------------------------------------------------------------------
(* Comparisons without a branch *)

\* Mutant: the top bit of the difference decides, whatever the top bits are.
CrtLtByDifference(x, y) == Msb((x - y) % Values) = 1

\* _vanillc_crt_lt.
CrtLt(x, y) ==
  IF Msb(x) # Msb(y) THEN Msb(x) = 0 /\ Msb(y) = 1 ELSE Msb((x - y) % Values) = 1

\* _vanillc_crt_lti64.
CrtLtSigned(x, y) ==
  IF Msb(x) # Msb(y) THEN Msb(x) = 1 /\ Msb(y) = 0 ELSE Msb((x - y) % Values) = 1

\* _vanillc_crt_neq: a difference or its negative has the top bit.
CrtNeq(x, y) ==
  LET d == Xor(W, x, y) IN Msb(d) = 1 \/ Msb((-d) % Values) = 1

\* The thirteen entries of the comparison table; the rest is built from the
\* three above.
Compared(x, y) ==
  [lt |-> CrtLt(x, y), gt |-> CrtLt(y, x), leq |-> ~CrtLt(y, x), geq |-> ~CrtLt(x, y),
   lti |-> CrtLtSigned(x, y), gti |-> CrtLtSigned(y, x),
   leqi |-> ~CrtLtSigned(y, x), geqi |-> ~CrtLtSigned(x, y),
   eq |-> ~CrtNeq(x, y), neq |-> CrtNeq(x, y), neg |-> Msb(x) = 1, pos |-> Msb(x) = 0]

\* How each kit compares.
LessIn(kit, x, y) == IF kit = "constant" THEN CrtLt(x, y) ELSE x < y

-----------------------------------------------------------------------------
(* Sum, difference, product *)

\* __ADD_UI64__, _cintrin_add64c, _crtintrin_add64c: the carry of the words
\* or of the carry that came in.
AddCarry(kit, a, b, carry) ==
  LET sum  == (a + b) % Values
      full == (sum + carry) % Values
  IN  [lo |-> full,
       hi |-> IF kit = "builtin" THEN Flag(a + b >= Values \/ sum + carry >= Values)
              ELSE Flag(LessIn(kit, sum, a) \/ LessIn(kit, full, sum))]

\* __SUB_UI64__, _cintrin_sub64b, _crtintrin_sub64b.
SubBorrow(kit, a, b, borrow) ==
  LET diff == (a - b) % Values
      full == (diff - borrow) % Values
  IN  [lo |-> full,
       hi |-> IF kit = "builtin" THEN Flag(a < b \/ diff < borrow)
              ELSE Flag(LessIn(kit, a, diff) \/ LessIn(kit, diff, full))]

Half == PowerOf2(W \div 2)

\* Mutant: the sum of the two middle products loses its carry.
WideMulDropsMid(kit, a, b) ==
  LET mid == ((a % Half) * (b \div Half) + (a \div Half) * (b % Half)) % Values
      low == ((a % Half) * (b % Half) + (mid % Half) * Half)
  IN  [lo |-> low % Values,
       hi |-> ((a \div Half) * (b \div Half) + low \div Values + mid \div Half) % Values]

\* __MUL_UI64__, _cintrin_wmul128, _crtintrin_wmul128: four products of halves.
WideMul(kit, a, b) ==
  LET first  == (a % Half) * (b % Half)
      second == (a % Half) * (b \div Half)
      mid    == (second + (a \div Half) * (b % Half)) % Values
      res    == (first + (mid % Half) * Half) % Values
  IN  IF kit = "builtin" THEN [lo |-> (a * b) % Values, hi |-> (a * b) \div Values]
      ELSE [lo |-> res,
            hi |-> ((a \div Half) * (b \div Half) + Flag(LessIn(kit, res, first))
                    + mid \div Half + Flag(LessIn(kit, mid, second)) * Half) % Values]

Pairwise(op, kit, a, b, carry) ==
  CASE op = "add" -> AddCarry(kit, a, b, carry)
    [] op = "sub" -> SubBorrow(kit, a, b, carry)
    [] op = "mul" -> WideMul(kit, a, b)

\* A sum, a difference or a product.
CallPairwise ==
  \E op \in {"add", "sub", "mul"}, kit \in Kits, a, b \in Words, carry \in {0, 1} :
    /\ op = "mul" => carry = 0
    /\ Enter([op |-> op, status |-> "ok", kit |-> kit, a |-> a, b |-> b, carry |-> carry,
              value |-> Pairwise(op, kit, a, b, carry)])

\* _lib_crt_lt and the other entries of the table.
CallCompare ==
  \E a, b \in Words :
    Enter([op |-> "compare", status |-> "ok", a |-> a, b |-> b, order |-> Compared(a, b)])

-----------------------------------------------------------------------------
(* Wide quotient: one bit of the quotient per pass *)

\* fake_lo, its lowest bits.
MadeUpLow == 6 % Values

DivTask(kit, lo, hi, div, status, quot, rem, over) ==
  [op |-> "div", status |-> status, kit |-> kit, lo |-> lo, hi |-> hi, div |-> div,
   i |-> 0, quot |-> quot, rem |-> rem, low |-> lo, over |-> over]

\* What is left of the high word, and nothing of a division by zero.
HighLeft(hi, div) == IF div = 0 THEN 0 ELSE hi % div

\* The constant-time quotient takes made-up words when there is none.
CrtDivTask(lo, hi, div) ==
  IF div = 0 \/ ~CrtLt(hi, div)
    THEN [DivTask("constant", lo, hi, div, "running", 0, 1, 1) EXCEPT !.low = MadeUpLow]
    ELSE DivTask("constant", lo, hi, div, "running", 0, hi, 0)

\* __DIV_HELPER_UI64__, _cintrin_wdiv128, _crtintrin_wdiv128 up to the loop:
\* the flag and the greatest word for a quotient that has no word.
CallDivide ==
  \E kit \in Kits, lo, hi, div \in WideWords :
    Enter(CASE kit = "constant" -> CrtDivTask(lo, hi, div)
            [] kit # "constant" /\ (div = 0 \/ hi >= div) ->
                 DivTask(kit, lo, hi, div, "ok", MaxWord, HighLeft(hi, div), 1)
            [] kit # "constant" /\ hi < div /\ (hi = 0 \/ kit = "builtin") ->
                 DivTask(kit, lo, hi, div, "ok", (hi * Values + lo) \div div,
                         (hi * Values + lo) % div, 0)
            [] OTHER -> DivTask(kit, lo, hi, div, "running", 0, hi, 0))

\* Mutant: the bit shifted out of the top of the remainder is forgotten.
DivPassNoOverflow(t) ==
  LET shifted == (2 * t.rem + Msb(t.low)) % Values
      take    == shifted >= t.div
  IN  [t EXCEPT !.quot = (2 * t.quot + Flag(take)) % Values,
                !.rem  = IF take THEN (shifted - t.div) % Values ELSE shifted,
                !.low  = (2 * t.low) % Values, !.i = t.i + 1]

\* Mutant: shifted in a wider type and compared in the narrow one.
DivPassWide(t) ==
  LET shifted == 2 * t.rem + Msb(t.low)
      take    == shifted % Values >= t.div
  IN  [t EXCEPT !.quot = (2 * t.quot + Flag(take)) % Values,
                !.rem  = IF take THEN shifted - t.div ELSE shifted,
                !.low  = (2 * t.low) % Values, !.i = t.i + 1]

\* One pass: shift a bit in, subtract the divisor when it fits.
DivPass(t) ==
  LET shifted == (2 * t.rem + Msb(t.low)) % Values
      take    == Msb(t.rem) = 1 \/ ~LessIn(t.kit, shifted, t.div)
  IN  [t EXCEPT !.quot = (2 * t.quot + Flag(take)) % Values,
                !.rem  = IF take THEN (shifted - t.div) % Values ELSE shifted,
                !.low  = (2 * t.low) % Values, !.i = t.i + 1]

Divide ==
  /\ During("div") /\ task.i < W
  /\ task' = DivPass(task)

\* The constant-time one replaces what came out when there is no quotient.
DivideEnds ==
  /\ During("div") /\ task.i = W
  /\ task' = [task EXCEPT !.status = "ok",
                !.quot = IF task.over = 1 THEN MaxWord ELSE task.quot,
                !.rem  = IF task.over = 1 THEN 0 ELSE task.rem]

-----------------------------------------------------------------------------
(* Inverse modulo 2^64, and modular product *)

\* inv8_lookup, and what __MODINV_UI64__ answers for an even word.
CallInverse ==
  \E x \in 0 .. PowerOf2(InverseBits) - 1 :
    LET m == PowerOf2(InverseBits \div 8)
    IN  IF x % 2 = 0 THEN Enter([op |-> "inverse", status |-> "ok", x |-> x, i |-> 3, res |-> 0])
        ELSE Enter([op |-> "inverse", status |-> "running", x |-> x, i |-> 0,
                    res |-> CHOOSE r \in 0 .. m - 1 : (r * x) % m = 1 % m])

\* Mutant: the step is the one of a quotient, not of an inverse.
InverseStepOff(x, r) == (r * (1 - x * r)) % PowerOf2(InverseBits)

\* res *= 2 - x * res.
InverseStep(x, r) == (r * (2 - x * r)) % PowerOf2(InverseBits)

Invert ==
  /\ During("inverse")
  /\ task' = [task EXCEPT !.res = InverseStep(task.x, task.res), !.i = task.i + 1,
                !.status = IF task.i + 1 = 3 THEN "ok" ELSE "running"]

\* __MODMUL_UI64__ with a 128-bit type, and without one: there the low word
\* is taken in from its lowest bit up.
CallModMul ==
  \E kit \in {"builtin", "portable"}, a, b, mod \in WideWords :
    LET wide == WideMul(kit, a, b)
        t    == [op |-> "modmul", status |-> "ok", kit |-> kit, a |-> a, b |-> b, mod |-> mod,
                 low |-> wide.lo, hi |-> wide.hi, i |-> 0, res |-> 0]
    IN  Enter(CASE mod = 0 -> [t EXCEPT !.status = "crash"]
                [] mod # 0 /\ kit = "builtin" -> [t EXCEPT !.res = (a * b) % mod]
                [] mod # 0 /\ kit = "portable" /\ wide.hi = 0 -> [t EXCEPT !.res = wide.lo % mod]
                [] OTHER -> [t EXCEPT !.status = "running", !.res = wide.hi % mod])

\* Mutant: the remainder is doubled without a look at its top bit.
DoubledModRaw(r, m) == (2 * r) % Values

\* (rem >= mod - rem) ? rem - (mod - rem) : rem + rem.
DoubledMod(r, m) == IF r >= m - r THEN r - (m - r) ELSE 2 * r

ModMul ==
  /\ During("modmul")
  /\ LET doubled == DoubledMod(task.res, task.mod)
         more    == doubled + Bit(task.low, task.i)
     IN  task' = [task EXCEPT !.res = IF more >= task.mod THEN more - task.mod ELSE more,
                    !.i = task.i + 1, !.status = IF task.i + 1 = W THEN "ok" ELSE "running"]

-----------------------------------------------------------------------------
(* Bit scans, on sets of bits *)

Up(x, k)   == {b + k : b \in x} \cap 0 .. 63
Down(x, k) == {b - k : b \in x} \cap 0 .. 63

\* The magic word 0x03F79D71B4CB0A89 of the De Bruijn tables, from its top.
Magic ==
  <<0, 0, 0, 0, 0, 0, 1, 1, 1, 1, 1, 1, 0, 1, 1, 1,
    1, 0, 0, 1, 1, 1, 0, 1, 0, 1, 1, 1, 0, 0, 0, 1,
    1, 0, 1, 1, 0, 1, 0, 0, 1, 1, 0, 0, 1, 0, 1, 1,
    0, 0, 0, 0, 1, 0, 1, 0, 1, 0, 0, 0, 1, 0, 0, 1>>

\* ((1 << k) * magic) >> 58.
MagicIndex(k) ==
  FromBits([i \in 0 .. 5 |-> IF k + 5 - i < 64 THEN Magic[k + 6 - i] ELSE 0], 6)

CtzTable ==
  <<0, 1, 48, 2, 57, 49, 28, 3, 61, 58, 50, 42, 38, 29, 17, 4, 62, 55, 59, 36, 53, 51, 43, 22,
    45, 39, 33, 30, 24, 18, 12, 5, 63, 47, 56, 27, 60, 41, 37, 16, 54, 35, 52, 21, 44, 32, 23,
    11, 46, 26, 40, 15, 34, 20, 31, 10, 25, 14, 19, 9, 13, 8, 7, 6>>
ClzTable ==
  <<63, 62, 15, 61, 6, 14, 35, 60, 2, 5, 13, 21, 25, 34, 46, 59, 1, 8, 4, 27, 10, 12, 20, 41,
    18, 24, 30, 33, 39, 45, 51, 58, 0, 16, 7, 36, 3, 22, 26, 47, 9, 28, 11, 42, 19, 31, 40, 52,
    17, 37, 23, 48, 29, 43, 32, 53, 38, 49, 44, 54, 50, 55, 56, 57>>

\* x |= x >> 1, 2, 4, .. 32: every bit below a one.
Smeared(x) == {b \in 0 .. 63 : \E c \in x : b <= c}

\* The bits of (x >> 1) + 1 for a smeared x, and of x & -x.
TopOf(x)    == {b \in x : b + 1 \notin x}
LowestOf(x) == {b \in x : \A c \in x : b <= c}

\* _cintrin_clz64, _cintrin_ctz64.
TableClz(x) ==
  IF x = {} THEN 64 ELSE IF 63 \in x THEN 0
  ELSE ClzTable[MagicIndex(CHOOSE b \in TopOf(Smeared(x)) : TRUE) + 1]
TableCtz(x) ==
  IF x = {} THEN 64 ELSE IF 0 \in x THEN 0
  ELSE CtzTable[MagicIndex(CHOOSE b \in LowestOf(x) : TRUE) + 1]

\* Mutant: the count moves on and the word stays.
ClzPassInPlace(t, s) ==
  [t EXCEPT !.count = @ + Flag(t.x \cap 64 - s .. 63 = {}) * s]

\* One pass: the s highest bits, when empty, are counted and shifted out.
ClzPass(t, s) ==
  IF t.x \cap 64 - s .. 63 = {} THEN [x |-> Up(t.x, s), count |-> t.count + s] ELSE t

\* The same with the s lowest bits.
CtzPass(t, s) ==
  IF t.x \cap 0 .. s - 1 = {} THEN [x |-> Down(t.x, s), count |-> t.count + s] ELSE t

\* _crtintrin_clz64, _crtintrin_ctz64: six halvings.
HalvingClz(x) ==
  IF x = {} THEN 64
  ELSE ClzPass(ClzPass(ClzPass(ClzPass(ClzPass(ClzPass(
         [x |-> x, count |-> 0], 32), 16), 8), 4), 2), 1).count
HalvingCtz(x) ==
  IF x = {} THEN 64
  ELSE CtzPass(CtzPass(CtzPass(CtzPass(CtzPass(CtzPass(
         [x |-> x, count |-> 0], 32), 16), 8), 4), 2), 1).count

\* The neighbours of s bits change places.
Exchanged(x, s) ==
  LET lower == {b \in 0 .. 63 : b % (2 * s) < s}
  IN  (Down(x, s) \cap lower) \cup Up(x \cap lower, s)

\* _cintrin_bswap64: neighbours of 8 bits, of 16, and the halves.
Swapped(x) == Exchanged(Exchanged(Exchanged(x, 8), 16), 32)

Scanned(kit, x) ==
  [clz |-> CASE kit = "portable" -> TableClz(x) [] kit = "constant" -> HalvingClz(x),
   ctz |-> CASE kit = "portable" -> TableCtz(x) [] kit = "constant" -> HalvingCtz(x),
   swap |-> Swapped(x)]

CallScan ==
  \E kit \in {"portable", "constant"}, x \in ScanWords :
    Enter([op |-> "scan", status |-> "ok", kit |-> kit, bits |-> x, scan |-> Scanned(kit, x)])

\* The w-bit word that repeats the b-bit pattern.
Repeat(w, b, pattern) == FromBits([i \in 0 .. w - 1 |-> Bit(pattern, i % b)], w)

\* _cintrin_pcnt64: sums in pairs, in nibbles, in bytes, and a product that
\* adds the bytes up in the top one.
InPairs(w, x)   == x - And(w, x \div 2, Repeat(w, 2, 1))
InNibbles(w, x) == And(w, x, Repeat(w, 4, 3)) + And(w, x \div 4, Repeat(w, 4, 3))
InBytes(w, x)   == And(w, (x + x \div 16) % PowerOf2(w), Repeat(w, 8, 15))
TopByte(w, x)   == ((x * Repeat(w, 8, 1)) % PowerOf2(w)) \div PowerOf2(w - 8)

Population(x) ==
  LET w == SwarBits IN TopByte(w, InBytes(w, InNibbles(w, InPairs(w, x))))

CallPopulation ==
  \E x \in SwarWords :
    Enter([op |-> "population", status |-> "ok", x |-> x, count |-> Population(x)])

-----------------------------------------------------------------------------
(* Properties *)

ArithBegins == CallPairwise \/ CallCompare \/ CallDivide \/ CallInverse \/ CallModMul \/ CallScan \/ CallPopulation
ArithSteps  == Divide \/ DivideEnds \/ Invert \/ ModMul

\* Type invariant of the loops: the words stay words.
ArithTypeOK ==
  /\ task.op = "div" => {task.quot, task.rem, task.low} \subseteq Words /\ task.i \in 0 .. W
  /\ task.op = "modmul" => task.res \in Words /\ task.i \in 0 .. W
  /\ task.op = "inverse" => task.res \in 0 .. PowerOf2(InverseBits) - 1

\* A sum, a difference and a product with its high word, carry or borrow are
\* the exact one in every kit: the carry that came in may carry a second time,
\* and the middle products of a wide product may (_vanillc_arith.c:23-58).
PairsExact ==
  Ended =>
    /\ task.op = "add" => task.value.lo + Values * task.value.hi = task.a + task.b + task.carry
    /\ task.op = "sub" => task.value.lo - Values * task.value.hi = task.a - task.b - task.carry
    /\ task.op = "mul" => task.value.lo + Values * task.value.hi = task.a * task.b

\* The comparisons without a branch, signed and unsigned, are the ones of the
\* numbers, words with and without the top bit mixed (_crt_vanillc_cmp.c:23-46).
ComparisonsExact ==
  Ended /\ task.op = "compare" =>
    LET x == task.a  y == task.b
    IN  task.order =
          [lt |-> x < y, gt |-> x > y, leq |-> x <= y, geq |-> x >= y,
           lti |-> Signed(x) < Signed(y), gti |-> Signed(x) > Signed(y),
           leqi |-> Signed(x) <= Signed(y), geqi |-> Signed(x) >= Signed(y),
           eq |-> x = y, neq |-> x # y, neg |-> Signed(x) < 0, pos |-> Signed(x) >= 0]

\* A wide quotient is long division: after i passes quotient and remainder
\* are those of the upper W + i bits of the dividend, so that the end is
\* exact; without a quotient of one word every kit answers the greatest word
\* and sets the flag (_vanillc_arith.c:82-101, _crt_vanillc_arith.c:98-119).
QuotientExact ==
  task.op = "div" =>
    LET dividend == task.hi * Values + task.lo
    IN  IF task.div = 0 \/ task.hi >= task.div
          THEN /\ task.over = 1
               /\ Ended => task.quot = MaxWord
          ELSE /\ task.over = 0
               /\ Running => /\ task.rem < task.div
                             /\ task.quot * task.div + task.rem = dividend \div PowerOf2(W - task.i)
               /\ Ended => /\ task.rem < task.div
                           /\ task.quot * task.div + task.rem = dividend

\* Each step of the inverse doubles the bits that are right, so that three
\* make a word out of the eighth of it in the table (_vanillc_marith.c:42-48).
InverseExact ==
  task.op = "inverse" /\ task.x % 2 = 1 =>
    LET m == PowerOf2((InverseBits \div 8) * PowerOf2(task.i)) IN (task.x * task.res) % m = 1 % m

\* The i lowest bits of x, lowest first.
Reversed(x, i) == FromBits([k \in 0 .. i - 1 |-> Bit(x, i - 1 - k)], i)

\* A modular product stays below the modulus, and is exact with a 128-bit
\* type or a product of one word.  The loop that stands in for the type takes
\* the low word from its lowest bit: its result is that of the reversed word
\* (intrinsics.c:103-106).
ModularProduct ==
  task.op = "modmul" /\ task.mod # 0 =>
    /\ task.res < task.mod
    /\ Ended => task.res =
         IF task.kit = "builtin" \/ task.hi = 0 THEN (task.a * task.b) % task.mod
         ELSE (task.hi * Values + Reversed(task.low, W)) % task.mod

\* The tables, the halving and the exchanges of the scans find the first and
\* the last one bit, turn the bytes round and count the ones
\* (_vanillc_bitops.c:35-75, _crt_vanillc_bitops.c:24-81).
ScansExact ==
  /\ Ended /\ task.op = "scan" =>
       task.scan = [clz  |-> IF task.bits = {} THEN 64 ELSE 63 - Max(task.bits),
                    ctz  |-> IF task.bits = {} THEN 64 ELSE Min(task.bits),
                    swap |-> {8 * (7 - b \div 8) + (b % 8) : b \in task.bits}]
  /\ Ended /\ task.op = "population" =>
       task.count = Cardinality({i \in 0 .. SwarBits - 1 : Bit(task.x, i) = 1})

\* What the word arithmetic, the comparisons, the inverses and the scans compute is
\* what their names say, in every kit, and the loops among them keep to it in every
\* pass.
WordsExact ==
  /\ ArithTypeOK /\ PairsExact /\ ComparisonsExact /\ QuotientExact
  /\ InverseExact /\ ModularProduct /\ ScansExact
=============================================================================
