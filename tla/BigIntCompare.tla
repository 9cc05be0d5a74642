---------------------------- MODULE BigIntCompare ----------------------------
(***************************************************************************)
(* The calls of dynamol/bigint/bigInt.c that read a number and change      *)
(* nothing: the comparisons with a signed word, a word and another number, *)
(* and the conversions to and from a word.  They are operators, judged in  *)
(* every state that the calls of BigIntMut can leave a number in.          *)
(***************************************************************************)
EXTENDS BigIntMut

\* A byte is made of bits, so that a word has as many negative values as others.
ASSUME CompareAssumption == ByteBase % 2 = 0

\* What a call concludes from a number it does not refuse.
Long(o) == Len(o.d) > 1

-----------------------------------------------------------------------------
(* Comparisons with int64_t.  Once the signs agree the limb decides. *)

EqualI64(o, v) ==
  IF o.d = <<>> THEN v = 0 ELSE SignOf(v) = o.sign /\ o.d = <<Mag(v)>>

\* Mutant: two numbers of one sign are told apart by their magnitudes alone.
LessI64Magnitude(o, v) ==
  CASE o.d = <<>> -> v > 0
    [] o.d # <<>> /\ SignOf(v) # o.sign -> o.sign < SignOf(v)
    [] OTHER -> ~Long(o) /\ o.d[1] < Mag(v)

LessI64(o, v) ==
  CASE o.d = <<>> -> v > 0
    [] o.d # <<>> /\ SignOf(v) # o.sign -> o.sign < SignOf(v)
    [] o.d # <<>> /\ SignOf(v) = o.sign /\ (Long(o) \/ o.d[1] > Mag(v)) -> o.sign = -1
    [] OTHER -> o.d[1] < Mag(v) /\ o.sign = 1

\* "x.sign >= val_sign" where the signs agree: every long number is more.
MoreI64(o, v) ==
  CASE o.d = <<>> -> v < 0
    [] o.d # <<>> /\ SignOf(v) # o.sign -> o.sign > SignOf(v)
    [] o.d # <<>> /\ SignOf(v) = o.sign /\ Long(o) -> TRUE
    [] o.d # <<>> /\ SignOf(v) = o.sign /\ ~Long(o) /\ o.d[1] < Mag(v) -> o.sign = -1
    [] OTHER -> o.d[1] > Mag(v) /\ o.sign = 1

\* The last return takes equal magnitudes for a smaller one.
LEqualI64(o, v) ==
  CASE o.d = <<>> -> v >= 0
    [] o.d # <<>> /\ SignOf(v) # o.sign -> o.sign < SignOf(v)
    [] o.d # <<>> /\ SignOf(v) = o.sign /\ (Long(o) \/ o.d[1] > Mag(v)) -> o.sign = -1
    [] OTHER -> o.sign = 1
MEqualI64(o, v) ==
  CASE o.d = <<>> -> v <= 0
    [] o.d # <<>> /\ SignOf(v) # o.sign -> o.sign > SignOf(v)
    [] o.d # <<>> /\ SignOf(v) = o.sign /\ (Long(o) \/ o.d[1] > Mag(v)) -> o.sign = 1
    [] OTHER -> o.sign = -1

-----------------------------------------------------------------------------
(* Comparisons with uint64_t *)

EqualU64(o, v) == IF o.d = <<>> THEN v = 0 ELSE o.sign = 1 /\ o.d = <<v>>
LessU64(o, v)  == IF o.d = <<>> THEN v # 0 ELSE o.sign = -1 \/ (~Long(o) /\ o.d[1] < v)
MoreU64(o, v)  == o.d # <<>> /\ o.sign = 1 /\ (Long(o) \/ o.d[1] > v)
LEqualU64(o, v) == o.d = <<>> \/ o.sign = -1 \/ (~Long(o) /\ o.d[1] <= v)
MEqualU64(o, v) == IF o.d = <<>> THEN v = 0 ELSE o.sign = 1 /\ (Long(o) \/ o.d[1] >= v)

-----------------------------------------------------------------------------
(* Comparisons with another number: signs, lengths, limbs from the top *)

Equal(a, b) ==
  IF a.d = <<>> THEN b.d = <<>> ELSE a.sign = b.sign /\ MagComp(a.d, b.d) = 0

\* The order of two numbers of one sign, of which MagComp sees the lengths first.
Order(a, b) == a.sign * MagComp(a.d, b.d)

Less(a, b)   == IF a.sign # b.sign THEN a.sign < b.sign ELSE Order(a, b) < 0
More(a, b)   == IF a.sign # b.sign THEN a.sign > b.sign ELSE Order(a, b) > 0
LEqual(a, b) == IF a.sign # b.sign THEN a.sign < b.sign ELSE Order(a, b) <= 0
MEqual(a, b) == IF a.sign # b.sign THEN a.sign > b.sign ELSE Order(a, b) >= 0

-----------------------------------------------------------------------------
(* Conversions.  int64_t goes from -HalfRange to HalfRange - 1. *)

HalfRange == Radix \div 2

\* The int64_t that a product or a cast wraps to.
Wrapped(v) == ((v + HalfRange) % Radix) - HalfRange

RawLimb(o) == IF o.d = <<>> THEN 0 ELSE o.d[1]

\* bigInt_toi64 and bigInt_seti64: the lowest limb alone, with bits masked out
\* of what does not fit.
ToI64(o) ==
  LET raw == RawLimb(o)
  IN  CASE raw > HalfRange /\ o.sign = -1 -> -HalfRange
        [] raw >= HalfRange /\ o.sign = 1 -> raw % HalfRange
        [] OTHER -> Wrapped(Wrapped(raw) * o.sign)

Range64(v) == [status |-> "BIGINT_ERR_RANGE", value |-> v]
Got(v)     == [status |-> "BIGINT_SUCCESS", value |-> v]

\* Mutant: the magnitude of the least int64_t is out of range.
LimbOutOfRangeBelow(o) == RawLimb(o) >= HalfRange
LimbOutOfRange(o) ==
  IF o.sign = -1 THEN RawLimb(o) > HalfRange ELSE RawLimb(o) >= HalfRange

\* bigInt_toi64_safe.
ToI64Safe(o) == IF Long(o) \/ LimbOutOfRange(o) THEN Range64(-HalfRange) ELSE Got(ToI64(o))

\* bigInt_seti64_safe: "if (x.n > 1) BIGINT_ERR_RANGE;" returns nothing.
SetI64Safe(o) == IF LimbOutOfRange(o) THEN Range64(0) ELSE Got(ToI64(o))

\* bigInt_tou64_safe and bigInt_setu64_safe; bigInt_tou64 takes the limb.
ToU64(o)     == RawLimb(o)
ToU64Safe(o) == IF o.sign = -1 \/ Long(o) THEN Range64(0) ELSE Got(RawLimb(o))

FromU64(v) == [d |-> IF v = 0 THEN <<>> ELSE <<v>>, cap |-> 1, sign |-> 1]
FromI64(v) == [d |-> IF v = 0 THEN <<>> ELSE <<Mag(v)>>, cap |-> 1, sign |-> SignOf(v)]

-----------------------------------------------------------------------------
(* Properties *)

\* Whatever calls made x, the fifteen comparisons order it as the integer it
\* stands for.  Not so for int64_t: more, of a long negative number; lequal of
\* two equal negative numbers; mequal of two equal positive ones.
ComparesExact ==
  ArithValid(x) =>
    /\ \A v \in IntWords :
         /\ EqualI64(x, v) <=> Val(x) = v
         /\ LessI64(x, v) <=> Val(x) < v
         /\ ~(Long(x) /\ x.sign = -1 /\ v < 0) => (MoreI64(x, v) <=> Val(x) > v)
         /\ ~(Val(x) = v /\ v < 0) => (LEqualI64(x, v) <=> Val(x) <= v)
         /\ ~(Val(x) = v /\ v > 0) => (MEqualI64(x, v) <=> Val(x) >= v)
    /\ \A v \in Words :
         /\ EqualU64(x, v) <=> Val(x) = v
         /\ LessU64(x, v) <=> Val(x) < v
         /\ MoreU64(x, v) <=> Val(x) > v
         /\ LEqualU64(x, v) <=> Val(x) <= v
         /\ MEqualU64(x, v) <=> Val(x) >= v
    /\ \A y \in Operands :
         /\ Equal(x, y) <=> Val(x) = Val(y)
         /\ Less(x, y) <=> Val(x) < Val(y)
         /\ More(x, y) <=> Val(x) > Val(y)
         /\ LEqual(x, y) <=> Val(x) <= Val(y)
         /\ MEqual(x, y) <=> Val(x) >= Val(y)

\* The safe conversions succeed exactly when the number fits the word, down to
\* the least int64_t, and then, as the others do, return it; words survive the
\* way there and back.  (seti64_safe takes a long number for its lowest limb.)
ConvertsExact ==
  /\ ArithValid(x) =>
       /\ ToI64Safe(x) = IF Val(x) \in IntWords THEN Got(Val(x)) ELSE Range64(-HalfRange)
       /\ ToU64Safe(x) = IF Val(x) \in Words THEN Got(Val(x)) ELSE Range64(0)
       /\ ~Long(x) => SetI64Safe(x) = IF Val(x) \in IntWords THEN Got(Val(x)) ELSE Range64(0)
       /\ Val(x) \in IntWords => ToI64(x) = Val(x)
       /\ Val(x) \in Words => ToU64(x) = Val(x)
  /\ \A v \in IntWords : ToI64(FromI64(v)) = v
  /\ \A v \in Words : ToU64(FromU64(v)) = v
=============================================================================
