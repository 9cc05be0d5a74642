----------------------------- MODULE LimbKernels -----------------------------
(***************************************************************************)
(* The magnitude kernels under the bigInt API: util/perf_util/             *)
(* bigNum_utils.c, the static __BIGINT_MAG*__ functions of                 *)
(* dynamol/bigint/bigInt.c and the schoolbook product of                   *)
(* calc_algo/perf_based/mul.c.                                             *)
(*                                                                         *)
(* A magnitude is the sequence of its utilised limbs, least significant    *)
(* first, as limbs[0 .. n-1] holds them; <<>> is n = 0.  A limb has Radix  *)
(* values (2^64 in the code) and is made of LimbBytes bytes of ByteBase    *)
(* values (8 of 256), which matters to the one function that counts bytes. *)
(***************************************************************************)
EXTENDS Integers, Sequences

CONSTANTS ByteBase, LimbBytes

ASSUME LimbAssumption == ByteBase \in Nat \ {0, 1} /\ LimbBytes \in Nat \ {0}

\* The values of k bytes.
ByteRange(k) ==
  LET range[i \in 0 .. k] == IF i = 0 THEN 1 ELSE ByteBase * range[i - 1] IN range[k]

Radix == ByteRange(LimbBytes)
Limb  == 0 .. Radix - 1

\* limbs[i - 1] of d, zero above its length.
LimbAt(d, i) == IF i \in DOMAIN d THEN d[i] ELSE 0

\* What the k highest limbs of d stand for, for every k, and d itself.
Upper(d) ==
  LET upper[k \in 0 .. Len(d)] == IF k = 0 THEN 0 ELSE d[Len(d) + 1 - k] + Radix * upper[k - 1]
  IN  upper
Magnitude(d) == Upper(d)[Len(d)]

Larger(m, n) == IF m > n THEN m ELSE n

-----------------------------------------------------------------------------
(* Normalisation and comparison *)

\* Mutant: the leading zeros stay.
TrimNothing(d) == d

\* TRIM_LZ, bigInt_normalize: drop the leading zero limbs.
Trim(d) ==
  SubSeq(d, 1, CHOOSE k \in 0 .. Len(d) :
                 /\ k > 0 => d[k] # 0
                 /\ \A j \in k + 1 .. Len(d) : d[j] = 0)

\* Mutant: equal lengths are taken for equal numbers.
MagCompLengths(a, b) ==
  IF Len(a) # Len(b) THEN (IF Len(a) > Len(b) THEN 1 ELSE -1) ELSE 0

\* __BIGINT_MAGCOMP__: 1, -1 or 0.
MagComp(a, b) ==
  LET differ == {i \in 1 .. Len(a) : a[i] # b[i]}
      top    == CHOOSE i \in differ : \A j \in differ : j <= i
  IN  CASE Len(a) # Len(b) -> IF Len(a) > Len(b) THEN 1 ELSE -1
        [] Len(a) = Len(b) /\ differ # {} -> IF a[top] > b[top] THEN 1 ELSE -1
        [] OTHER -> 0

\* __BIGINT_MAGCOMP_UI64__, which is only asked about non-zero magnitudes.
MagCompWord(d, v) ==
  CASE Len(d) > 1 \/ d[1] > v -> 1
    [] Len(d) = 1 /\ d[1] < v -> -1
    [] OTHER -> 0

-----------------------------------------------------------------------------
(* Sum and difference.  Each turns carry (borrow) into a fresh u8_carry     *)
(* before __ADD_UI64__ and never takes it back, so no carry leaves a limb.  *)

MagAdd(a, b) ==
  [i \in 1 .. Larger(Len(a), Len(b)) |-> (LimbAt(a, i) + LimbAt(b, i)) % Radix]

MagSub(a, b) ==
  [i \in 1 .. Len(a) |-> (a[i] - LimbAt(b, i)) % Radix]

-----------------------------------------------------------------------------
(* A magnitude and one word *)

IsPowerOf2(v) == \E k \in 0 .. v : v = 2 ^ k

\* The carry that leaves each limb of d on its product by v.
Carries(d, v) ==
  LET carry[i \in 0 .. Len(d)] == IF i = 0 THEN 0 ELSE (d[i] * v + carry[i - 1]) \div Radix
  IN  carry

\* Mutant: the last carry is not appended.
MulWordDropsCarry(d, v) == [i \in 1 .. Len(d) |-> (d[i] * v + Carries(d, v)[i - 1]) % Radix]

\* __BIGINT_INTERNAL_MUL_UI64__ for v > 1: one pass with a carry; a power of
\* two is shifted in (LSHIFT), which makes the same limbs and trims them.
MulWord(d, v) ==
  LET carry == Carries(d, v)
      limbs == [i \in 1 .. Len(d) |-> (d[i] * v + carry[i - 1]) % Radix]
      all   == IF carry[Len(d)] = 0 THEN limbs ELSE Append(limbs, carry[Len(d)])
  IN  IF IsPowerOf2(v) THEN Trim(all) ELSE all

\* What v leaves of the k highest limbs of d, for every k.
Remainders(d, v) ==
  LET rem[k \in 0 .. Len(d)] ==
        IF k = 0 THEN 0 ELSE (rem[k - 1] * Radix + d[Len(d) + 1 - k]) % v
  IN  rem

\* __BIGINT_INTERNAL_DIVMOD_UI64__: long division from the top limb, or a
\* right shift for a power of two; either way the quotient is trimmed.
DivModWord(d, v) ==
  LET n   == Len(d)
      rem == Remainders(d, v)
  IN  IF v = 1 \/ d = <<>> THEN [quot |-> d, rem |-> 0]
      ELSE [quot |-> Trim([i \in 1 .. n |-> (rem[n - i] * Radix + d[i]) \div v]), rem |-> rem[n]]

-----------------------------------------------------------------------------
(* Product *)

\* What the row of a factor's i-th limb adds to limb k of the accumulator.
RowTerm(i, limb, b, k) == IF k < i THEN 0 ELSE limb * LimbAt(b, k - i + 1)

\* A row one limb further: the limbs made so far, and the carry.
RowLimb(below, limb, term) ==
  LET t == limb + term + below.carry
  IN  [limbs |-> Append(below.limbs, t % Radix), carry |-> t \div Radix]

NoLimbs == [limbs |-> <<>>, carry |-> 0]

\* Mutant: the carry of a row stops at its last limb.
AddRowDropsCarry(res, i, limb, b) ==
  LET pass[k \in 0 .. Len(res)] ==
        IF k = 0 THEN NoLimbs
        ELSE RowLimb(IF k >= i + Len(b) THEN [pass[k - 1] EXCEPT !.carry = 0] ELSE pass[k - 1],
                     res[k], RowTerm(i, limb, b, k))
  IN  pass[Len(res)].limbs

\* The row added from limb 1 up to each limb.
RowPass(res, i, limb, b) ==
  LET pass[k \in 0 .. Len(res)] ==
        IF k = 0 THEN NoLimbs ELSE RowLimb(pass[k - 1], res[k], RowTerm(i, limb, b, k))
  IN  pass

\* a[i] times b added into the accumulator from limb i on, the carry rippled up.
AddRow(res, i, limb, b) == RowPass(res, i, limb, b)[Len(res)].limbs

ZeroLimbs(n) == [k \in 1 .. n |-> 0]

\* The accumulator after each row.
Rows(a, b) ==
  LET row[i \in 0 .. Len(a)] ==
        IF i = 0 THEN ZeroLimbs(Len(a) + Len(b)) ELSE AddRow(row[i - 1], i, a[i], b)
  IN  row

\* __BIGINT_SCHOOLBOOK__ and __BIHEAP_SCHOOLBOOK__.
Schoolbook(a, b) == Trim(Rows(a, b)[Len(a)])

-----------------------------------------------------------------------------
(* Copying by bytes *)

\* The limb after its c lowest bytes were replaced by those of src.
BytesOver(limb, src, c) ==
  LET m == ByteRange(c) IN (limb - (limb % m)) + (src % m)

\* How many of the first k bytes of an array lie in its i-th limb.
BytesIn(i, k) ==
  LET c == k - (i - 1) * LimbBytes
  IN  IF c < 0 THEN 0 ELSE IF c > LimbBytes THEN LimbBytes ELSE c

\* memcpy(dst, src, k) and memcmp(dst, src, k) = 0, where k counts bytes.
MemCopy(dst, src, k)  == [i \in DOMAIN dst |-> BytesOver(dst[i], LimbAt(src, i), BytesIn(i, k))]
MemEqual(dst, src, k) == MemCopy(dst, src, k) = dst
=============================================================================
