------------------------------ MODULE BigIntBits ------------------------------
(***************************************************************************)
(* The bitwise calls of the bigInt API (dynamol/bigint/bigInt.c): not, the *)
(* shifts, and six binary operations in five families - in place or making *)
(* a new number, over the longer operand or over an explicit number of     *)
(* limbs - with a 64-bit word, a signed word or another number.            *)
(*                                                                         *)
(* A limb is the set of its one bits, numbered from 0.  A number is        *)
(* [limbs, n, sign], where limbs is the whole allocated array: what lies   *)
(* above n is left there by earlier calls or by realloc, and some calls    *)
(* bring it back into use.  Release build, see BigIntMut.                  *)
(***************************************************************************)
EXTENDS Integers, Sequences

CONSTANTS
  ByteBits, LimbBytes,  \* 8 and 8 in the code
  Operands,             \* the valid numbers passed by value
  MaxCap,               \* bound: no call that needs a longer array is followed
  MaxShift              \* bound on shift counts

Bits    == ByteBits * LimbBytes
AllOnes == 0 .. Bits - 1
Limb    == SUBSET AllOnes

VARIABLES
  x,       \* the number the client works on
  status   \* what the last call returned

vars == <<x, status>>

Larger(m, n)  == IF m > n THEN m ELSE n
Smaller(m, n) == IF m < n THEN m ELSE n

\* uint64_t words, and int64_t words as magnitude and sign.
Words    == Limb
IntWords == {v \in [mag : Limb, neg : BOOLEAN] :
               IF v.neg THEN v.mag # {} /\ (Bits - 1 \in v.mag => v.mag = {Bits - 1})
               ELSE Bits - 1 \notin v.mag}

-----------------------------------------------------------------------------
(* Numbers *)

Cap(h)   == Len(h.limbs)
Window(k) == 0 .. k * Bits - 1

\* The bits of the number that h holds.
Number(h) == UNION {{(i - 1) * Bits + b : b \in h.limbs[i]} : i \in 1 .. h.n}

\* Mutant: the test of i against n is missing.
LimbOfStale(h, i) == IF i \in DOMAIN h.limbs THEN h.limbs[i] ELSE {}

\* (i < h.n) ? h.limbs[i] : 0
LimbOf(h, i) == IF i <= h.n THEN h.limbs[i] ELSE {}

CoreValid(h)  == Cap(h) >= 1 /\ h.n <= Cap(h) /\ h.sign \in {1, -1}
ArithValid(h) == IF h.n = 0 THEN h.sign = 1 ELSE h.limbs[h.n] # {}

ASSUME BitsAssumption ==
  /\ ByteBits \in Nat \ {0} /\ LimbBytes \in Nat \ {0} /\ MaxCap \in Nat \ {0} /\ MaxShift \in Nat
  /\ \A y \in Operands : /\ y \in [limbs : Seq(Limb), n : Nat, sign : {1, -1}]
                        /\ y.n = Cap(y) /\ Cap(y) <= MaxCap /\ ArithValid(y)

\* bigInt_validate reads limbs[n - 1], of zero the memory in front of the array.
MayRefuse(h) == ~ArithValid(h) \/ h.n = 0

\* Mutant: leading zero limbs stay.
NormalizedNot(h) == h

\* bigInt_normalize.
Normalized(h) ==
  LET m == CHOOSE m \in 0 .. h.n : /\ m > 0 => h.limbs[m] # {}
                                   /\ \A i \in m + 1 .. h.n : h.limbs[i] = {}
  IN  [h EXCEPT !.n = m, !.sign = IF m = 0 THEN 1 ELSE @]

\* bigInt_reset.
Reset(h) ==
  [h EXCEPT !.limbs[1] = IF h.n > 0 THEN {} ELSE @, !.n = 0, !.sign = 1]

\* Mutant: one limb too few counts as enough.
GrownLate(h, k) ==
  IF Cap(h) + 1 >= k THEN {h}
  ELSE {[h EXCEPT !.limbs = @ \o junk] : junk \in [1 .. k - Cap(h) -> Limb]}

\* __BIGINT_INTERNAL_ENSCAP__: the capacity doubles until k limbs fit; realloc
\* leaves any limbs in the new part.  {} when the bound MaxCap is passed.
Grown(h, k) ==
  LET doubled == {c \in k .. MaxCap : \E j \in 0 .. k : c = Cap(h) * 2 ^ j /\ (j = 0 \/ c < 2 * k)}
  IN  {[h EXCEPT !.limbs = @ \o junk] : junk \in UNION {[1 .. c - Cap(h) -> Limb] : c \in doubled}}

\* memset(limbs + from, UINT8_MAX, m): m bytes, whatever the caller counts.
Filled(h, from, m) ==
  [h EXCEPT !.limbs = [i \in DOMAIN @ |->
     @[i] \cup {b \in AllOnes : i > from /\ (i - from - 1) * Bits + b < m * ByteBits}]]

\* A number of one limb at most, in the array of h.
Lowest(h, limb) ==
  [h EXCEPT !.limbs[1] = limb, !.n = IF limb = {} THEN 0 ELSE 1,
            !.sign = IF limb = {} THEN 1 ELSE @]

-----------------------------------------------------------------------------
(* Binary operations *)

Functions == {"and", "nand", "or", "nor", "xor", "xnor"}

\* On sets of bits within the universe u.
Apply(f, a, b, u) ==
  CASE f = "and"  -> a \cap b
    [] f = "nand" -> u \ (a \cap b)
    [] f = "or"   -> a \cup b
    [] f = "nor"  -> u \ (a \cup b)
    [] f = "xor"  -> (a \ b) \cup (b \ a)
    [] f = "xnor" -> u \ ((a \ b) \cup (b \ a))

\* What the loops see of the second operand: its i-th limb.
WordLimbs(w)   == [i \in 1 .. MaxCap |-> IF i = 1 THEN w ELSE {}]
IntLimbs(v)    == [i \in 1 .. MaxCap |-> IF i = 1 THEN v.mag ELSE IF v.neg THEN AllOnes ELSE {}]
NumberLimbs(y) == [i \in 1 .. MaxCap |-> LimbOf(y, i)]

\* The loop of the calls in place: k limbs are written, then n is set.
Pointwise(f, h, e, k, n) ==
  Normalized([h EXCEPT
    !.limbs = [i \in DOMAIN @ |-> IF i <= k THEN Apply(f, LimbOf(h, i), e[i], AllOnes) ELSE @[i]],
    !.n = n])

\* bigInt_mut_andu64 and the others with a word.  The memset of nandu64 counts
\* limbs where it takes bytes.
MutWord(f, h, w) ==
  CASE f = "and" /\ h.n = 0 -> h
    [] f = "and" /\ h.n > 0 -> Lowest(h, h.limbs[1] \cap w)
    [] f = "nand" /\ h.n = 0 -> Lowest(h, AllOnes)
    [] f = "nand" /\ h.n > 0 ->
         Filled([h EXCEPT !.limbs[1] = AllOnes \ (@ \cap w)], 1, h.n - 1)
    [] f = "or" /\ h.n > 0 -> [h EXCEPT !.limbs[1] = @ \cup w]
    [] f \notin {"and", "nand"} /\ h.n = 0 -> Lowest(h, Apply(f, {}, w, AllOnes))
    [] OTHER -> Pointwise(f, h, WordLimbs(w), h.n, h.n)

\* memcpy of y.n bytes by bigInt_mut_copy into zero.
CopiedBytes(h, y) ==
  [h EXCEPT !.n = y.n, !.sign = y.sign,
     !.limbs = [i \in DOMAIN @ |->
        LET copied == {b \in AllOnes : (i - 1) * Bits + b < y.n * ByteBits}
        IN  (@[i] \ copied) \cup (LimbOf(y, i) \cap copied)]]

\* bigInt_mut_and and the others with a number.
MutNumber(f, h, y) ==
  LET k    == Larger(h.n, y.n)
      zero == h.n = 0 /\ y.n = 0
  IN  CASE f = "and" /\ y.n = 0 -> {Reset(h)}
        [] f = "and" /\ y.n > 0 /\ h.n = 0 -> {h}
        [] f = "nand" /\ h.n = 0 ->
             {[g EXCEPT !.n = Larger(1, y.n)] : g \in Grown(h, Larger(1, y.n))}
        [] f = "nand" /\ h.n > 0 /\ y.n = 0 -> {Filled(h, 0, h.n)}
        [] f = "or" /\ y.n = 0 -> {h}
        [] f = "or" /\ y.n > 0 /\ h.n = 0 -> {CopiedBytes(g, y) : g \in Grown(h, y.n)}
        [] f = "xor" /\ zero -> {h}
        [] f \in {"nor", "xnor"} /\ zero -> {Lowest(h, AllOnes)}
        [] OTHER -> {Pointwise(f, g, NumberLimbs(y), k, k) : g \in Grown(h, k)}

\* bigInt_mutex_andu64 and the others: k limbs are operated on, those above stay.
MutExWord(f, h, w, k) ==
  IF k = 0 THEN {h} ELSE
  {CASE f = "and" /\ g.n = 0 -> g
     [] f = "and" /\ g.n > 0 -> Lowest(g, g.limbs[1] \cap w)
     [] f = "or" /\ w = {} -> g
     [] f = "or" /\ w # {} /\ g.n > 0 -> [g EXCEPT !.limbs[1] = @ \cup w]
     [] f = "or" /\ w # {} /\ g.n = 0 -> Lowest(g, w)
     [] f = "xor" /\ g.n = 0 -> Lowest(g, w)
     [] OTHER -> Pointwise(f, g, WordLimbs(w), k, Larger(g.n, k)) : g \in Grown(h, k)}

\* The signed word is extended by its sign above the limb of its magnitude.
MutExInt(f, h, v, k) ==
  IF k = 0 THEN {h} ELSE
  {IF f = "and" /\ g.n = 0 THEN g ELSE Pointwise(f, g, IntLimbs(v), k, Larger(g.n, k)) :
     g \in Grown(h, k)}

\* Mutant: the limbs above the range are given up.
MutExNumberCut(f, h, y, k) ==
  IF k = 0 THEN {h} ELSE
  {Pointwise(f, g, NumberLimbs(y), k, k) : g \in Grown(h, k)}

MutExNumber(f, h, y, k) ==
  IF k = 0 THEN {h} ELSE
  {CASE f = "and" /\ g.n = 0 -> g
     [] f = "and" /\ g.n > 0 /\ y.n = 0 -> Reset(g)
     [] f = "nand" /\ (g.n = 0 \/ y.n = 0) -> Filled(g, 0, k)
     [] f = "or" /\ g.n = 0 ->
          Normalized([g EXCEPT !.n = Smaller(y.n, k),
            !.limbs = [i \in DOMAIN @ |-> IF i <= Smaller(y.n, k) THEN y.limbs[i] ELSE @[i]]])
     [] f = "or" /\ g.n > 0 /\ y.n = 0 -> g
     [] f = "xor" /\ g.n = 0 /\ y.n = 0 -> g
     [] f \in {"nor", "xnor"} /\ g.n = 0 /\ y.n = 0 -> [Filled(g, 0, k * LimbBytes) EXCEPT !.n = k]
     [] OTHER -> Pointwise(f, g, NumberLimbs(y), k, Larger(g.n, k)) : g \in Grown(h, k)}

-----------------------------------------------------------------------------
(* The calls that make a new number, in an array that calloc cleared *)

Zeroed(k) == [limbs |-> [i \in 1 .. Larger(k, 1) |-> {}], n |-> 0, sign |-> 1]

\* bigInt_binew.
CopyOf(h) == [limbs |-> [i \in 1 .. Larger(h.n, 1) |-> LimbOf(h, i)], n |-> h.n, sign |-> h.sign]

OneLimb(h, limb) == Lowest([Zeroed(1) EXCEPT !.sign = h.sign], limb)

Made(f, h, e, k, sign) ==
  Normalized([limbs |-> [i \in 1 .. Larger(k, 1) |-> Apply(f, LimbOf(h, i), e[i], AllOnes)],
              n |-> k, sign |-> sign])

\* bigInt_andu64 and the others.  oru64 never sets the length of its loop's result.
FunWord(f, h, w) ==
  CASE f = "and" -> IF h.n = 0 THEN Zeroed(0) ELSE OneLimb(h, h.limbs[1] \cap w)
    [] f = "nand" /\ h.n > 0 ->
         Filled([Zeroed(h.n) EXCEPT !.limbs[1] = AllOnes \ (h.limbs[1] \cap w), !.n = h.n],
                1, h.n - 1)
    [] f = "or" /\ w = {} -> CopyOf(h)
    [] f = "or" /\ w # {} /\ h.n > 0 ->
         Normalized([Made(f, h, WordLimbs(w), h.n, 1) EXCEPT !.n = 0])
    [] f # "and" /\ (f = "or" => w # {}) /\ h.n = 0 -> OneLimb(h, Apply(f, {}, w, AllOnes))
    [] OTHER -> Made(f, h, WordLimbs(w), h.n, 1)

\* Mutant: the shorter operand decides.
FunNumberShort(f, h, y) == Made(f, h, NumberLimbs(y), Smaller(h.n, y.n), 1)

\* bigInt_and and the others.
FunNumber(f, h, y) ==
  LET k    == Larger(h.n, y.n)
      zero == h.n = 0 /\ y.n = 0
  IN  CASE f = "and" /\ (h.n = 0 \/ y.n = 0) -> Zeroed(0)
        [] f = "nand" /\ (h.n = 0 \/ y.n = 0) ->
             Filled([Zeroed(k) EXCEPT !.n = Larger(k, 1)], 0, Larger(k, 1))
        [] f = "or" /\ y.n = 0 -> CopyOf(h)
        [] f = "or" /\ y.n > 0 /\ h.n = 0 -> CopyOf(y)
        [] f = "xor" /\ zero -> Zeroed(0)
        [] f \in {"nor", "xnor"} /\ zero -> OneLimb(h, AllOnes)
        [] OTHER -> Made(f, h, NumberLimbs(y), k, 1)

\* bigInt_ex_andu64, bigInt_ex_andi64, bigInt_ex_and and the others: k limbs.
FunExWord(f, h, w, k)   == Made(f, h, WordLimbs(w), k, h.sign)
FunExInt(f, h, v, k)    == Made(f, h, IntLimbs(v), k, h.sign)
FunExNumber(f, h, y, k) == Made(f, h, NumberLimbs(y), k, h.sign)

-----------------------------------------------------------------------------
(* Not and shifts.  k counts bits.  The code also computes 1 << k for k above  *)
(* the limb size, which both supported processors reduce to the bits below it. *)

LimbShift(k) == k \div Bits
BitShift(k)  == k % Bits

\* bigInt_mut_not.
MutNot(h) ==
  Normalized([h EXCEPT !.limbs = [i \in DOMAIN @ |-> IF i <= h.n THEN AllOnes \ @[i] ELSE @[i]]])

\* The loops over the bits of a limb: from[i] moved by s, with what its neighbour
\* loses, as long as that neighbour is in the range first .. last.
UpBits(from, first, last, i, s) ==
  {b + s : b \in {b \in from[i] : b + s < Bits}}
    \cup IF i > first THEN {b + s - Bits : b \in {b \in from[i - 1] : b + s >= Bits}} ELSE {}
DownBits(from, last, i, s) ==
  {b - s : b \in {b \in from[i] : b >= s}}
    \cup IF i < last THEN {b - s + Bits : b \in {b \in from[i + 1] : b < s}} ELSE {}

\* Where the m lowest limbs may come from when memcpy moves them down by ls limbs.
\* The ranges overlap when m > ls, which memcpy does not allow: each limb may then
\* be read before, or after, it has been written itself.
Sources(m, ls) ==
  {g \in [1 .. m -> ls + 1 .. ls + m] :
     \A i \in 1 .. m : g[i] = i + ls \/ (i + ls <= m /\ g[i] = g[i + ls])}

\* __BIGINT_INTERNAL_RLSHIFT__: whole limbs down; those above stay in the array.
RLShift(h, ls) ==
  IF ls = 0 THEN {h}
  ELSE IF ls >= h.n THEN {[h EXCEPT !.n = 0, !.sign = 1]}
  ELSE {Normalized([h EXCEPT !.n = h.n - ls,
          !.limbs = [i \in DOMAIN @ |-> IF i <= h.n - ls THEN @[g[i]] ELSE @[i]]]) :
            g \in Sources(h.n - ls, ls)}

\* Mutant: the limbs moved out of keep their values.
LLShiftDirty(h, ls) ==
  IF ls = 0 \/ h.n = 0 THEN h
  ELSE IF ls >= Cap(h) THEN [h EXCEPT !.n = 0, !.sign = 1]
  ELSE Normalized([h EXCEPT !.n = Smaller(h.n + ls, Cap(h)),
         !.limbs = [i \in DOMAIN @ |-> IF i - ls \in 1 .. h.n THEN @[i - ls] ELSE @[i]]])

\* __BIGINT_INTERNAL_LLSHIFT__: whole limbs up, as far as the capacity goes.
LLShift(h, ls) ==
  IF ls = 0 \/ h.n = 0 THEN h
  ELSE IF ls >= Cap(h) THEN [h EXCEPT !.n = 0, !.sign = 1]
  ELSE Normalized([h EXCEPT !.n = Smaller(h.n + ls, Cap(h)),
         !.limbs = [i \in DOMAIN @ |-> IF i <= ls THEN {}
                                       ELSE IF i - ls <= h.n THEN @[i - ls] ELSE @[i]]])

\* The loop over the limbs first .. last of a left shift, and 1 .. last of a right one.
UpLoop(h, from, first, last, s) ==
  [h EXCEPT !.limbs = [i \in DOMAIN @ |->
     IF s > 0 /\ i \in first .. last THEN UpBits(from, first, last, i, s) ELSE @[i]]]
DownLoop(h, from, last, s) ==
  [h EXCEPT !.limbs = [i \in DOMAIN @ |->
     IF s > 0 /\ i <= last THEN DownBits(from, last, i, s) ELSE @[i]]]

\* bigInt_mut_rshift takes the whole limbs off n, although RLSHIFT has done it.
\* When n falls below zero it wraps round and the call reads outside the array:
\* no outcome is modelled.
MutRShift(h, k) ==
  LET n(down) == down.n - LimbShift(k)
  IN  {Normalized(DownLoop([down EXCEPT !.n = n(down)], down.limbs, n(down), BitShift(k))) :
         down \in {d \in RLShift(h, LimbShift(k)) : n(d) >= 0}}

\* bigInt_mut_lshift: within the limbs that LLSHIFT left in use.
MutLShift(h, k) ==
  LET up == LLShift(h, LimbShift(k))
  IN  Normalized(UpLoop(up, up.limbs, LimbShift(k) + 1, up.n, BitShift(k)))

\* bigInt_mut_lshiftg grows first.  The limb for the last bits, or for zero every
\* limb, is one that nobody has written.
MutLShiftG(h, k) ==
  LET n == h.n + LimbShift(k) + (IF BitShift(k) > 0 THEN 1 ELSE 0)
  IN  {LET up == [LLShift(g, LimbShift(k)) EXCEPT !.n = n]
       IN  Normalized(UpLoop(up, up.limbs, LimbShift(k) + 1, n, BitShift(k))) : g \in Grown(h, n)}

\* bigInt_not.
FunNot(h) ==
  Normalized([CopyOf(h) EXCEPT !.limbs =
    [i \in DOMAIN @ |-> IF i <= h.n THEN AllOnes \ @[i] ELSE @[i]]])

\* bigInt_rshift and bigInt_lshift move the limbs of the copy, then take the bits
\* from the limbs of the operand, which did not move.
FunRShift(h, k) ==
  LET n == h.n - LimbShift(k)
  IN  IF n < 0 THEN {}
      ELSE {Normalized([DownLoop(down, h.limbs, n, BitShift(k)) EXCEPT !.n = n, !.sign = h.sign]) :
              down \in RLShift(CopyOf(h), LimbShift(k))}
FunLShift(h, k) ==
  Normalized(UpLoop(LLShift(CopyOf(h), LimbShift(k)), h.limbs, LimbShift(k) + 1, h.n, BitShift(k)))

\* bigInt_lshiftg, in a cleared array that is long enough.
FunLShiftG(h, k) ==
  LET n  == h.n + LimbShift(k) + (IF BitShift(k) > 0 THEN 1 ELSE 0)
      up == [limbs |-> [i \in 1 .. Larger(n, 1) |->
                          IF i <= LimbShift(k) THEN {} ELSE LimbOf(h, i - LimbShift(k))],
             n |-> n, sign |-> h.sign]
  IN  Normalized(UpLoop(up, up.limbs, LimbShift(k) + 1, n, BitShift(k)))

-----------------------------------------------------------------------------
(* The client's calls *)

Ranges == 0 .. MaxCap
Shifts == 0 .. MaxShift

Returns(h) == ArithValid(x) /\ x' = h /\ status' = "SUCCESS"

CallWord   == \E f \in Functions, w \in Words : Returns(MutWord(f, x, w))
CallNumber == \E f \in Functions, y \in Operands : \E h \in MutNumber(f, x, y) : Returns(h)

CallExWord ==
  \E f \in Functions, w \in Words, k \in Ranges : \E h \in MutExWord(f, x, w, k) : Returns(h)
CallExInt ==
  \E f \in Functions, v \in IntWords, k \in Ranges : \E h \in MutExInt(f, x, v, k) : Returns(h)
CallExNumber ==
  \E f \in Functions, y \in Operands, k \in Ranges : \E h \in MutExNumber(f, x, y, k) : Returns(h)

CallNot   == Returns(MutNot(x))
CallShift ==
  \E k \in Shifts :
    \/ \E h \in MutRShift(x, k) \cup MutLShiftG(x, k) : Returns(h)
    \/ Returns(MutLShift(x, k))

\* A functional call, and bigInt_transfer of its result into x.
CallAndTransfer ==
  \/ \E f \in Functions, w \in Words : Returns(FunWord(f, x, w))
  \/ \E f \in Functions, y \in Operands : Returns(FunNumber(f, x, y))
  \/ \E f \in Functions, k \in Ranges :
       \/ \E w \in Words : Returns(FunExWord(f, x, w, k))
       \/ \E v \in IntWords : Returns(FunExInt(f, x, v, k))
       \/ \E y \in Operands : Returns(FunExNumber(f, x, y, k))
  \/ Returns(FunNot(x))
  \/ \E k \in Shifts :
       \/ \E h \in FunRShift(x, k) \cup {FunLShift(x, k)} : Returns(h)
       \/ Cap(FunLShiftG(x, k)) <= MaxCap /\ Returns(FunLShiftG(x, k))

\* The contract assertion fails, or memory cannot be had: x is left alone.
CallFails ==
  /\ x' = x
  /\ \/ MayRefuse(x) /\ status' = "BIGINT_ERR_INVAL"
     \/ ArithValid(x) /\ status' = "DNML_ALLOC_OOM"

\* bigInt_snew, for a new number or after bigInt_free: an array nobody cleared.
Fresh == UNION {[limbs : [1 .. c -> Limb], n : {0}, sign : {1}] : c \in 1 .. MaxCap}
Init  == x \in Fresh /\ status = "SUCCESS"
Renew == x' \in Fresh /\ status' = "SUCCESS"

\* bigInt_getu64 and bigInt_mut_dcopy, which make the values to start from.
Assign ==
  /\ \/ \E w \in Words : x' = [Lowest(x, w) EXCEPT !.sign = 1]
     \/ \E y \in Operands : y.n > 0 /\ x' = y
  /\ status' = "SUCCESS"

Next ==
  \/ CallWord \/ CallNumber \/ CallExWord \/ CallExInt \/ CallExNumber
  \/ CallNot \/ CallShift \/ CallAndTransfer \/ CallFails \/ Renew \/ Assign

Spec == Init /\ [][Next]_vars

-----------------------------------------------------------------------------
(* Properties.  The names hold for every number x the calls above can make,   *)
(* with whatever they left above its length.                                  *)

\* Rules 1 to 4 of BIGNUM_CONTRACT.txt, and no limb outside the array: every
\* loop's range was ensured.
CoreContract == CoreValid(x) /\ \A i \in 1 .. Cap(x) : x.limbs[i] \in Limb

\* In place, over the longer operand: bit for bit the operation of its name.
\* Not so: nand with a zero operand and nandu64 of more than one limb (memset
\* counts bytes, or nothing is written), or onto zero (a copy that counts bytes).
MutativeExact ==
  ArithValid(x) =>
    /\ \A f \in Functions, w \in Words :
         \/ f = "nand" /\ x.n > 1
         \/ Number(MutWord(f, x, w)) = Apply(f, Number(x), w, Window(Larger(1, x.n)))
    /\ \A f \in Functions, y \in Operands :
         \/ f = "nand" /\ (x.n = 0 \/ y.n = 0)
         \/ f = "or" /\ x.n = 0
         \/ \A h \in MutNumber(f, x, y) :
              Number(h) = Apply(f, Number(x), Number(y),
                                Window(Larger(1, Larger(x.n, y.n))))

\* The calls that make a new number, likewise.  Not so: nand as above, and oru64
\* of a non-zero number, whose result is zero.
FunctionalExact ==
  ArithValid(x) =>
    /\ \A f \in Functions, w \in Words :
         \/ f = "nand" /\ x.n > 1
         \/ f = "or" /\ x.n > 0 /\ w # {}
         \/ Number(FunWord(f, x, w)) = Apply(f, Number(x), w, Window(Larger(1, x.n)))
    /\ \A f \in Functions, y \in Operands :
         \/ f = "nand" /\ (x.n = 0 \/ y.n = 0)
         \/ Number(FunNumber(f, x, y)) = Apply(f, Number(x), Number(y),
                                               Window(Larger(1, Larger(x.n, y.n))))

\* h is x with the operation applied to its k lowest limbs.
AppliedBelow(h, f, e, k) ==
  Number(h) = (Number(x) \ Window(k))
              \cup Apply(f, Number(x) \cap Window(k),
                         Number([limbs |-> e, n |-> k]), Window(k))

\* With an explicit width the calls in place change that many limbs and the
\* functional ones return them.  Not so: an and in place with a word or zero,
\* which clears the limbs above too, and nand with a zero operand.
ExplicitExact ==
  ArithValid(x) => \A f \in Functions, k \in Ranges :
    /\ \A w \in Words :
         /\ Number(FunExWord(f, x, w, k)) = Apply(f, Number(x) \cap Window(k), w \cap Window(k), Window(k))
         /\ \/ f = "and" /\ k < x.n
            \/ \A h \in MutExWord(f, x, w, k) : AppliedBelow(h, f, WordLimbs(w), k)
    /\ \A v \in IntWords :
         /\ Number(FunExInt(f, x, v, k))
              = Apply(f, Number(x) \cap Window(k), Number([limbs |-> IntLimbs(v), n |-> k]), Window(k))
         /\ \A h \in MutExInt(f, x, v, k) : AppliedBelow(h, f, IntLimbs(v), k)
    /\ \A y \in Operands :
         /\ Number(FunExNumber(f, x, y, k))
              = Apply(f, Number(x) \cap Window(k), Number(y) \cap Window(k), Window(k))
         /\ \/ f = "and" /\ y.n = 0 /\ k < x.n
            \/ f = "nand" /\ (x.n = 0 \/ y.n = 0)
            \/ \A h \in MutExNumber(f, x, y, k) : AppliedBelow(h, f, NumberLimbs(y), k)

Up(k)   == {b + k : b \in Number(x)}
Down(k) == {b - k : b \in {b \in Number(x) : b >= k}}

\* Shifts move every bit, whatever lies above the number.  Not so: a shift by
\* more than one limb that is not a whole number of limbs, for the functional
\* rshift and lshift; a functional right shift by less than half of the limbs, whose
\* memcpy overlaps; a right shift in place by a limb or more; a left shift in
\* place that loses limbs and then moves bits into one it trimmed; and lshiftg
\* in place by part of a limb, or of zero, which takes in limbs nobody wrote.
ShiftsExact ==
  ArithValid(x) => \A k \in Shifts :
    /\ Number(FunLShiftG(x, k)) = Up(k)
    /\ x.n + LimbShift(k) <= Cap(x) \/ BitShift(k) = 0 =>
         Number(MutLShift(x, k)) = Up(k) \cap Window(Smaller(x.n + LimbShift(k), Cap(x)))
    /\ x.n > 0 /\ BitShift(k) = 0 => \A h \in MutLShiftG(x, k) : Number(h) = Up(k)
    /\ k < Bits \/ BitShift(k) = 0 => Number(FunLShift(x, k)) = Up(k) \cap Window(x.n)
    /\ k < Bits \/ (BitShift(k) = 0 /\ x.n <= 2 * LimbShift(k)) =>
         \A h \in FunRShift(x, k) : Number(h) = Down(k)
    /\ k < Bits => \A h \in MutRShift(x, k) : Number(h) = Down(k)

\* Each operation of the API, in each of its families, and each shift is the operation of its name
\* on the bits, whatever lies above the numbers.
BitwiseExact == MutativeExact /\ FunctionalExact /\ ExplicitExact /\ ShiftsExact

\* Every array stays within its contract, and a number with a non-zero top limb, or
\* zero with its positive sign, is left so.  Not so: nandu64, nand with a zero operand, or in
\* place onto zero.
StaysNormal ==
  /\ CoreContract
  /\ ArithValid(x) =>
    /\ ArithValid(MutNot(x)) /\ ArithValid(FunNot(x))
    /\ \A k \in Shifts : /\ \A h \in MutLShiftG(x, k) \cup MutRShift(x, k) \cup FunRShift(x, k) : ArithValid(h)
                         /\ ArithValid(MutLShift(x, k)) /\ ArithValid(FunLShift(x, k))
    /\ \A f \in Functions \ {"nand"} :
         /\ \A w \in Words : ArithValid(MutWord(f, x, w)) /\ ArithValid(FunWord(f, x, w))
         /\ \A y \in Operands :
              /\ ArithValid(FunNumber(f, x, y))
              /\ ~(f = "or" /\ x.n = 0) => \A h \in MutNumber(f, x, y) : ArithValid(h)
    /\ \A f \in Functions, k \in Ranges :
         /\ \A w \in Words : \A h \in MutExWord(f, x, w, k) : ArithValid(h)
         /\ \A y \in Operands : \A h \in MutExNumber(f, x, y, k) : ArithValid(h)
=============================================================================
