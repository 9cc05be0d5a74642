------------------------------- MODULE CryptUtil -------------------------------
(***************************************************************************)
(* The helpers of cryptInt that take the same time for every value          *)
(* (util/crt_util/, calc_algo/crt_based/crt_mul.c).  They touch every byte  *)
(* or limb of the array and choose by a mask what it becomes.               *)
(*                                                                         *)
(* An array of bytes is a sequence, its index 0 the first element; a limb   *)
(* is CryptBytes of them.  size_t has the values 0 .. CryptSizes - 1 and    *)
(* wraps.  The limbs that are compared, shifted and multiplied are digits   *)
(* of the radix CryptRadix.                                                 *)
(***************************************************************************)
EXTENDS CallState, SequencesExt

CONSTANTS
  CryptBytes,  \* bytes of a limb: 8 in the code
  CryptSizes,  \* values of size_t: 2^64 in the code
  CryptRadix,  \* radix of a limb: 2^64 in the code
  CryptLimbs   \* bound: limbs of an array

ASSUME CryptUtilAssumption ==
  /\ CryptBytes \in Nat \ {0} /\ CryptRadix \in Nat \ {0, 1} /\ CryptLimbs \in Nat \ {0}
  /\ CryptSizes \in Nat /\ CryptSizes > CryptBytes * (CryptLimbs + 2)

-----------------------------------------------------------------------------
(* Arrays of bytes *)

\* Mutant: a range ends with the first byte of its last limb.
LastByteShort(end) ==
  IF end < 1 THEN CryptBytes ELSE (end * CryptBytes) % CryptSizes

\* The last byte of a range of limbs that ends with limb end; the range that ends
\* with the first limb ends one byte later.
LastByte(end) ==
  IF end < 1 THEN CryptBytes ELSE (end * CryptBytes + CryptBytes - 1) % CryptSizes

FirstByte(start) == (start * CryptBytes) % CryptSizes

\* __libdnml_smemset_u64, __libdnml_smemwipe_u64: the bytes of the limbs start to end.
CryptSet(bytes, val, start, end) ==
  [i \in DOMAIN bytes |-> IF i - 1 \in FirstByte(start) .. LastByte(end) THEN val ELSE bytes[i]]

CryptWipe(bytes, start, end) == CryptSet(bytes, 0, start, end)

\* __libdnml_smemcpy_u64: the same range, as far as both arrays reach.
CryptCopy(dst, src, start, end) ==
  [i \in DOMAIN dst |->
     IF i \in DOMAIN src /\ i - 1 \in FirstByte(start) .. LastByte(end) THEN src[i] ELSE dst[i]]

\* The bytes from index i on that are there, at most most.
Within(i, cap, most) == Smaller(IF i < cap THEN cap - i ELSE 0, most)

\* Mutant: a move upwards begins, as a move downwards does, at the front.
MovesUpward(cap, to, from) == [k \in 1 .. cap |-> k - 1]

\* The order in which the bytes are passed: towards the end that the source is not on.
MoveOrder(cap, to, from) == [k \in 1 .. cap |-> IF to < from THEN k - 1 ELSE cap - k]

\* __libdnml_memmove_strict: every byte is written, those of the target from their source.
CryptMove(bytes, to, from, len) ==
  LET cap   == Len(bytes)
      moved == Within(from, cap, Within(to, cap, len))
      write(idx, b) ==
        IF idx \in to .. to + moved - 1 THEN [b EXCEPT ![idx + 1] = b[idx - to + from + 1]] ELSE b
      pass[k \in 0 .. cap] == IF k = 0 THEN bytes ELSE write(MoveOrder(cap, to, from)[k], pass[k - 1])
  IN  pass[cap]

-----------------------------------------------------------------------------
(* Limbs: x is the array limbs, of which the first n are the number *)

\* What limb k + 1 counts, the radix to the power of k.
CryptWeight(k) ==
  LET weight[i \in 0 .. k] == IF i = 0 THEN 1 ELSE CryptRadix * weight[i - 1]
  IN  weight[k]

\* What the first n limbs stand for.
CryptValue(limbs, n) ==
  LET value[i \in 0 .. Len(limbs)] == IF i = 0 THEN 0 ELSE value[i - 1] + limbs[i] * CryptWeight(i - 1)
  IN  value[n]

\* Mutant: every zero limb shortens the number, those behind its first limb that
\* is not zero too.
TrimPassForgets(limbs, s, i) ==
  [n |-> s.n - (IF i <= s.n /\ limbs[i] = 0 THEN 1 ELSE 0), found |-> s.found]

\* One pass of __CRINT_TRIM_LZ__ over limb i, from the last of the array on.
TrimPass(limbs, s, i) ==
  LET behind == i <= s.n
  IN  [n |-> s.n - (IF behind /\ limbs[i] = 0 /\ ~s.found THEN 1 ELSE 0),
       found |-> s.found \/ (behind /\ limbs[i] # 0)]

\* __CRINT_TRIM_LZ__: the length without leading zeros.
CryptTrim(limbs, n) ==
  LET pass[k \in 0 .. Len(limbs)] ==
        IF k = 0 THEN [n |-> n, found |-> FALSE] ELSE TrimPass(limbs, pass[k - 1], Len(limbs) - k + 1)
  IN  pass[Len(limbs)].n

\* __CRINT_INTERNAL_CMP__: the lengths, then the first limb from above that differs.
CryptCompare(x, xn, y, yn) ==
  LET limb(z, n, i) == IF i <= n THEN z[i] ELSE 0
      order(a, b) == IF a > b THEN 1 ELSE IF a < b THEN -1 ELSE 0
      differing == {i \in 1 .. Larger(xn, yn) : limb(x, xn, i) # limb(y, yn, i)}
  IN  IF xn # yn THEN order(xn, yn)
      ELSE IF differing = {} THEN 0
      ELSE order(limb(x, xn, Max(differing)), limb(y, yn, Max(differing)))

\* __CRINT_INTERNAL_RLSHIFT__: down by limbs, zeros above.
CryptShiftDown(limbs, n, count) ==
  [limbs |-> [i \in DOMAIN limbs |-> IF i + count <= n THEN limbs[i + count] ELSE 0],
   n |-> IF count >= n THEN 0 ELSE n - count]

\* __CRINT_INTERNAL_LLSHIFT__: up by limbs, what leaves the array is lost.
CryptShiftUp(limbs, n, count) ==
  LET cap == Len(limbs)
  IN  [limbs |-> [i \in DOMAIN limbs |-> IF i > count /\ i - count <= n THEN limbs[i - count] ELSE 0],
       n |-> IF count >= cap THEN 0 ELSE Smaller(n + count, cap)]

-----------------------------------------------------------------------------
(* Product *)

\* Mutant: the carry of the second sum is dropped.
ProductPassDrops(s, at, a, b) ==
  LET lo   == (a * b) % CryptRadix
      sum  == (s.res[at] + lo) % CryptRadix
  IN  [res   |-> [s.res EXCEPT ![at] = (sum + s.carry) % CryptRadix],
       carry |-> (a * b) \div CryptRadix + (IF sum < lo THEN 1 ELSE 0)]

\* One inner pass of __CRINT_SCHOOLBOOK__: the second carry is looked for below the
\* low word of the product, and of two carries one is kept.
ProductPass(s, at, a, b) ==
  LET lo   == (a * b) % CryptRadix
      sum  == (s.res[at] + lo) % CryptRadix
      sum2 == (sum + s.carry) % CryptRadix
  IN  [res   |-> [s.res EXCEPT ![at] = sum2],
       carry |-> (a * b) \div CryptRadix + (IF sum < lo \/ sum2 < lo THEN 1 ELSE 0)]

\* The last carry of a row goes up to the end of the product.
RipplePass(s, at) ==
  LET sum == (s.res[at] + s.carry) % CryptRadix
  IN  [res |-> [s.res EXCEPT ![at] = sum], carry |-> IF sum < s.carry THEN 1 ELSE 0]

\* The products of one limb of x with the limbs of y, from limb at of the product on.
ProductRow(res, at, a, y) ==
  LET pass[j \in 0 .. Len(y)] ==
        IF j = 0 THEN [res |-> res, carry |-> 0] ELSE ProductPass(pass[j - 1], at + j - 1, a, y[j])
  IN  pass[Len(y)]

RippleUp(s, at, above) ==
  LET pass[k \in 0 .. above] == IF k = 0 THEN s ELSE RipplePass(pass[k - 1], at + k - 1)
  IN  pass[above]

\* __CRINT_SCHOOLBOOK__, into an array of just the limbs of both factors.
CryptProduct(x, y) ==
  LET above(i) == Len(x) - i + 1  \* limbs of the product above row i
      rows[i \in 0 .. Len(x)] ==
        IF i = 0 THEN [k \in 1 .. Len(x) + Len(y) |-> 0]
        ELSE RippleUp(ProductRow(rows[i - 1], i, x[i], y), i + Len(y), above(i)).res
  IN  rows[Len(x)]

-----------------------------------------------------------------------------
(* Calls *)

\* Bytes told apart by their index.
Distinct(count, from) == [i \in 1 .. count |-> from + i]

CallRange ==
  \E cap, srccap \in 1 .. CryptLimbs, start, end \in 0 .. CryptLimbs - 1 :
    LET dst == Distinct(cap * CryptBytes, 0)
        src == Distinct(srccap * CryptBytes, 100)
    IN  Enter([op |-> "range", status |-> "ok", dst |-> dst, src |-> src, start |-> start, end |-> end,
               wiped |-> CryptWipe(dst, start, end), copied |-> CryptCopy(dst, src, start, end)])

CallMove ==
  \E cap \in 1 .. CryptLimbs * CryptBytes, to, from, len \in 0 .. CryptLimbs * CryptBytes :
    Enter([op |-> "move", status |-> "ok", bytes |-> Distinct(cap, 0), to |-> to, from |-> from, len |-> len,
           moved |-> CryptMove(Distinct(cap, 0), to, from, len)])

\* The arrays of at most CryptLimbs limbs.
LimbArrays == UNION {[1 .. cap -> 0 .. CryptRadix - 1] : cap \in 1 .. CryptLimbs}

\* A shift by limbs, and the length without leading zeros.
CallLimbs ==
  \E limbs \in LimbArrays : \E n \in 0 .. Len(limbs), count \in 0 .. CryptLimbs :
    Enter([op |-> "limbs", status |-> "ok", limbs |-> limbs, n |-> n, count |-> count,
           trimmed |-> CryptTrim(limbs, n), down |-> CryptShiftDown(limbs, n, count),
           up |-> CryptShiftUp(limbs, n, count)])

\* Two numbers that are compared and multiplied.
CallPair ==
  \E x, y \in LimbArrays :
    /\ Len(x) + Len(y) <= CryptLimbs + 1
    /\ Enter([op |-> "pair", status |-> "ok", x |-> x, y |-> y,
              order |-> CryptCompare(x, Len(x), y, Len(y)), product |-> CryptProduct(x, y)])

CryptUtilBegins == CallRange \/ CallMove \/ CallLimbs \/ CallPair

-----------------------------------------------------------------------------
(* Properties *)

\* A range of limbs is wiped and copied whole, and no limb beside it is touched.
\* Not so where the range ends with the first limb: the first byte of the second
\* goes with it (crt_misc_util.c:106, :116).
RangesWhole ==
  Ended /\ task.op = "range" =>
    \A i \in DOMAIN task.dst :
      LET limb  == (i - 1) \div CryptBytes
          spill == task.end = 0 /\ i = CryptBytes + 1
      IN  IF limb \in task.start .. task.end
          THEN /\ task.wiped[i] = 0
               /\ i <= Len(task.src) => task.copied[i] = task.src[i]
          ELSE spill \/ (task.wiped[i] = task.dst[i] /\ task.copied[i] = task.dst[i])

\* A move within an array gives the target what the source held before, however the
\* two overlap, and is cut where either leaves the array (crt_misc_util.c:57-96).
MovesWhole ==
  Ended /\ task.op = "move" =>
    \A i \in DOMAIN task.bytes :
      LET from == i - task.to + task.from
      IN  task.moved[i] =
            IF i > task.to /\ i <= task.to + task.len /\ from <= Len(task.bytes)
            THEN task.bytes[from] ELSE task.bytes[i]

\* Trimming and the shifts by limbs keep the value they should, and no limb above
\* the new length; a shift up may leave leading zeros, when limbs left the array
\* and when the number was zero (crt_bnum_util.c:50-62, 91-124).
LimbsExact ==
  Ended /\ task.op = "limbs" =>
    LET v == CryptValue(task.limbs, task.n)  cap == Len(task.limbs)
    IN  /\ CryptValue(task.limbs, task.trimmed) = v
        /\ task.trimmed = 0 \/ task.limbs[task.trimmed] # 0
        /\ CryptValue(task.down.limbs, task.down.n) = v \div CryptWeight(task.count)
        /\ CryptValue(task.up.limbs, task.up.n) = (v * CryptWeight(task.count)) % CryptWeight(cap)
        /\ \A i \in 1 .. cap : (i > task.down.n => task.down.limbs[i] = 0)
                              /\ (i > task.up.n => task.up.limbs[i] = 0)

\* Numbers without leading zeros compare as their values do (crt_bnum_util.c:63-85).
\* A product of a factor of one limb is exact; the rows that follow may lose a
\* carry, and the product is then too small (crt_mul.c:48-50).
PairsCompareMultiply ==
  Ended /\ task.op = "pair" =>
    LET a == CryptValue(task.x, Len(task.x))  b == CryptValue(task.y, Len(task.y))
        p == CryptValue(task.product, Len(task.product))
    IN  /\ Last(task.x) # 0 /\ Last(task.y) # 0 =>
             task.order = IF a > b THEN 1 ELSE IF a < b THEN -1 ELSE 0
        /\ IF Len(task.x) = 1 THEN p = a * b ELSE p <= a * b

\* The helpers compute what their names say, with the exceptions of each.
CryptHelpersExact == RangesWhole /\ MovesWhole /\ LimbsExact /\ PairsCompareMultiply
=============================================================================
