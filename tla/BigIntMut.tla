------------------------------ MODULE BigIntMut ------------------------------
(***************************************************************************)
(* One bigInt and the calls that change it in place (dynamol/bigint/       *)
(* bigInt.c, the mutative model): signed arithmetic, copies, assignments   *)
(* and the storage utilities, in every order, with every allocation that   *)
(* may fail.  The build is the release one (_DNML_DEBUG_MODE = 0, where a   *)
(* failed assertion returns its status instead of leaving the process) and *)
(* the balanced allocation strategy, the default.                          *)
(***************************************************************************)
EXTENDS LimbKernels

CONSTANTS
  Ops,        \* the calls the client makes
  Operands,   \* the valid numbers [d, sign] it passes by value
  MaxLimbs,   \* bound: no call whose result is longer is followed
  MaxCap      \* bound: no call that needs more capacity is followed

ASSUME MutAssumption ==
  /\ MaxCap \in Nat \ {0} /\ MaxLimbs \in 1 .. MaxCap
  /\ \A y \in Operands : y.d \in Seq(Limb) /\ y.sign \in {1, -1}

VARIABLES
  x,      \* [d, cap, sign]: the limbs in use (n = Len(d)), the capacity, the sign
  call    \* the last call: [op, word, y, status]

vars == <<x, call>>

Words    == Limb                              \* uint64_t
IntWords == -(Radix \div 2) .. (Radix + 1) \div 2 - 1   \* int64_t
Zero     == [d |-> <<>>, sign |-> 1]
Mag(v)   == IF v < 0 THEN -v ELSE v
SignOf(v) == IF v < 0 THEN -1 ELSE 1

Val(o)   == o.sign * Magnitude(o.d)
IsOne(o) == o.d = <<1>>

-----------------------------------------------------------------------------
(* Validity, dynamol/BIGNUM_CONTRACT.txt *)

\* Rules 1 to 4, __BIGINT_INTERNAL_PVALID__.
CoreValid(o) == o.cap >= 1 /\ Len(o.d) <= o.cap /\ o.sign \in {1, -1}

\* Rules 6 and 7.
ArithValid(o) == IF o.d = <<>> THEN o.sign = 1 ELSE o.d[Len(o.d)] # 0

\* bigInt_pvalidate and bigInt_validate.  They look at limbs[n - 1] before n:
\* for zero that is the memory in front of the array, which may hold a 0.
MayAccept(o) == ArithValid(o)
MayRefuse(o) == ~ArithValid(o) \/ o.d = <<>>

-----------------------------------------------------------------------------
(* Capacity *)

\* Mutant: the test for enough capacity is off by one.
EnsCapLax(o, k) == IF o.cap + 1 >= k THEN o ELSE [o EXCEPT !.cap = k]

\* A capacity after each of k doublings.
Doublings(cap, k) ==
  LET doubled[j \in 0 .. k] == IF j = 0 THEN cap ELSE 2 * doubled[j - 1] IN doubled

\* __BIGINT_INTERNAL_ENSCAP__ and bigInt_reserve: double until k fits.
EnsCap(o, k) ==
  LET doubled == Doublings(o.cap, k)
      passes  == CHOOSE j \in 0 .. k : doubled[j] >= k /\ \A i \in 0 .. j - 1 : doubled[i] < k
  IN  [o EXCEPT !.cap = doubled[passes]]

ResetOf(o) == [o EXCEPT !.d = <<>>, !.sign = 1]

\* bigInt_normalize, __BIGINT_INTERNAL_TRIM_LZ__.
Normalized(o) == [o EXCEPT !.d = Trim(@), !.sign = IF Trim(o.d) = <<>> THEN 1 ELSE @]

-----------------------------------------------------------------------------
(* Calls *)

\* What a call may do instead of returning: write past an array, use one that
\* could not be had, stop the process, loop for ever.
Broken == {"OVERRUN", "NO_LIMBS", "CRASH", "DIVERGES", "UNDEFINED"}

\* Bound: an object that breaks rules 1 to 4 is followed no further.
Usable == CoreValid(x) /\ call.status \notin Broken

\* The call returns o, with more to say of it than that it succeeded.
Hands(op, w, y, o, status) ==
  /\ op \in Ops /\ Usable /\ Len(o.d) <= MaxLimbs /\ o.cap <= MaxCap
  /\ x' = o
  /\ call' = [op |-> op, word |-> w, y |-> y, status |-> status]

Returns(op, w, y, o) == Hands(op, w, y, o, "SUCCESS")

\* The call returns a status that is not success, or breaks, and leaves x alone.
Fails(op, w, y, status) ==
  /\ op \in Ops /\ Usable
  /\ x' = x
  /\ call' = [op |-> op, word |-> w, y |-> y, status |-> status]

\* The call asks for capacity k and then leaves o.
Reserving(op, w, y, k, o) ==
  \/ EnsCap(x, k).cap <= MaxCap /\ Returns(op, w, y, o)
  \/ x.cap < k /\ Fails(op, w, y, "DNML_ALLOC_OOM")

WordOps   == {"mulu64", "divu64", "modu64"}
IntOps    == {"muli64", "divi64", "modi64"}
ObjectOps == {"add", "sub", "mul"}

\* The contract assertion at the head of every arithmetic call fails.
Refused ==
  \/ \E op \in WordOps, v \in Words : MayRefuse(x) /\ Fails(op, v, Zero, "BIGINT_ERR_INVAL")
  \/ \E op \in IntOps, v \in IntWords : MayRefuse(x) /\ Fails(op, v, Zero, "BIGINT_ERR_INVAL")
  \/ \E op \in ObjectOps, y \in Operands :
       (MayRefuse(x) \/ MayRefuse(y)) /\ Fails(op, 0, y, "BIGINT_ERR_INVAL")

DivisionByZero ==
  /\ MayAccept(x)
  /\ \E op \in (WordOps \cup IntOps) \ {"mulu64", "muli64"} : Fails(op, 0, Zero, "BIGINT_ERR_DOMAIN")

-----------------------------------------------------------------------------
(* Assignments and copies *)

\* bigInt_getu64 and bigInt_geti64.
GetU64(o, v) == [o EXCEPT !.d = IF v = 0 THEN <<>> ELSE <<v>>, !.sign = 1]
GetI64(o, v) == [o EXCEPT !.d = IF v = 0 THEN <<>> ELSE <<Mag(v)>>, !.sign = SignOf(v)]

\* bigInt_mut_copyu64: an equal limb returns before the sign is written.
CopyU64(o, v) ==
  IF o.d = <<v>> \/ (v = 0 /\ o.d = <<>>) THEN o ELSE GetU64(o, v)

\* Mutant: the fast path of the unsigned copy, which leaves the sign.
CopyI64KeepsSign(o, v) ==
  IF o.d = <<Mag(v)>> \/ (v = 0 /\ o.d = <<>>) THEN o ELSE GetI64(o, v)

\* bigInt_mut_copyi64.
CopyI64(o, v) ==
  CASE v = 0 /\ o.d = <<>> -> o
    [] o.d = <<Mag(v)>> -> [o EXCEPT !.sign = SignOf(v)]
    [] OTHER -> GetI64(o, v)

\* bigInt_mut_copy.  memcmp and memcpy are given src.n, a number of limbs,
\* where they take a number of bytes; what was above n in dst is unspecified.
CopyFromCases(o, y) ==
  LET n    == Len(y.d)
      rest == [1 .. (IF n > Len(o.d) THEN n - Len(o.d) ELSE 0) -> Limb]
  IN  CASE n = 0 /\ o.d = <<>> -> {o}
        [] n > 0 /\ n = Len(o.d) /\ MemEqual(o.d, y.d, n) -> {[o EXCEPT !.sign = y.sign]}
        [] OTHER -> {[EnsCap(o, n) EXCEPT !.d = SubSeq(MemCopy(o.d \o r, y.d, n), 1, n),
                                          !.sign = y.sign] : r \in rest}

\* bigInt_set and bigInt_set_safe take the first n limbs and the sign of y.
Assigned(o, y, n) == [o EXCEPT !.d = SubSeq(y.d, 1, n), !.sign = y.sign]

\* So do bigInt_mut_dcopy, _ocopy and _tover_copy, unless both are zero.
Copied(o, y, n) == IF y.d = <<>> /\ o.d = <<>> THEN o ELSE Assigned(o, y, n)

GetWord ==
  \/ \E v \in Words : Returns("getu64", v, Zero, GetU64(x, v))
  \/ \E v \in IntWords : Returns("geti64", v, Zero, GetI64(x, v))

CopyWord ==
  \/ \E v \in Words : Returns("copyu64", v, Zero, CopyU64(x, v))
  \/ \E v \in IntWords : Returns("copyi64", v, Zero, CopyI64(x, v))

\* bigInt_mut_dcopyu64 and _dcopyi64 first shrink the array to one limb.
DCopyWord ==
  LET one == [x EXCEPT !.cap = 1]
  IN  \/ \E v \in Words : Returns("dcopyu64", v, Zero, CopyU64(one, v))
      \/ \E v \in IntWords : Returns("dcopyi64", v, Zero, CopyI64(one, v))
      \/ \E v \in Words : x.cap > 1 /\ Fails("dcopyu64", v, Zero, "DNML_ALLOC_OOM")
      \/ \E v \in IntWords : x.cap > 1 /\ Fails("dcopyi64", v, Zero, "DNML_ALLOC_OOM")

MutCopy ==
  \E y \in Operands :
    \/ MayAccept(y) /\ \E o \in CopyFromCases(x, y) : Reserving("copy", 0, y, Len(y.d), o)
    \/ MayRefuse(y) /\ Fails("copy", 0, y, "BIGINT_ERR_INVAL")

\* The first k limbs of a number, all of a shorter one.
Cut(d, k) == SubSeq(d, 1, IF Len(d) > k THEN k ELSE Len(d))

\* bigInt_mut_dcopy takes the capacity c of the source too.
MutDCopy ==
  \E y \in Operands :
    \/ \E c \in Larger(1, Len(y.d)) .. MaxCap :
         \/ Returns("dcopy", 0, y, Copied([x EXCEPT !.cap = c, !.d = Cut(@, c)], y, Len(y.d)))
         \/ c # x.cap /\ Fails("dcopy", 0, y, "DNML_ALLOC_OOM")
    \/ MayRefuse(y) /\ Fails("dcopy", 0, y, "BIGINT_ERR_INVAL")

\* bigInt_mut_ocopy and bigInt_set_safe refuse what does not fit.
CopyIfFits ==
  \E y \in Operands :
    \/ x.cap >= Len(y.d) /\ Returns("ocopy", 0, y, Copied(x, y, Len(y.d)))
    \/ x.cap >= Len(y.d) /\ Returns("set_safe", 0, y, Assigned(x, y, Len(y.d)))
    \/ \E op \in {"ocopy", "set_safe"} :
         \/ x.cap < Len(y.d) /\ Fails(op, 0, y, "BIGINT_ERR_RANGE")
         \/ MayRefuse(y) /\ Fails(op, 0, y, "BIGINT_ERR_INVAL")

\* bigInt_mut_tover_copy and bigInt_set keep the limbs that fit.
CopyTruncated ==
  \E y \in Operands :
    \/ Returns("tover_copy", 0, y, Copied(x, y, Len(Cut(y.d, x.cap))))
    \/ Returns("set", 0, y, Assigned(x, y, Len(Cut(y.d, x.cap))))
    \/ \E op \in {"tover_copy", "set"} :
         MayRefuse(y) /\ Fails(op, 0, y, "BIGINT_ERR_INVAL")

-----------------------------------------------------------------------------
(* Storage utilities *)

MutReset     == Returns("reset", 0, Zero, ResetOf(x))
MutNormalize == Returns("normalize", 0, Zero, Normalized(x))
Reserve      == \E k \in 0 .. MaxCap : Reserving("reserve", k, Zero, k, EnsCap(x, k))

\* bigInt_resize: exactly k limbs; what is above is cut off.
Resize ==
  \E k \in 1 .. MaxCap :
    \/ Returns("resize", k, Zero,
               [x EXCEPT !.cap = k, !.d = Cut(@, k)])
    \/ Fails("resize", k, Zero, "DNML_ALLOC_OOM")

\* bigInt_shrink.  "if (x->n < x->cap) x->n = x->cap" is the test of resize
\* turned round: a shorter number grows into limbs nobody wrote, a longer one
\* keeps its length.
Shrink ==
  \E k \in 1 .. MaxCap :
    \/ x.cap <= k /\ Returns("shrink", k, Zero, x)
    \/ /\ x.cap > k
       /\ \E r \in [1 .. (IF Len(x.d) < k THEN k - Len(x.d) ELSE 0) -> Limb] :
            Returns("shrink", k, Zero, [x EXCEPT !.cap = k, !.d = @ \o r])
    \/ x.cap > k /\ Fails("shrink", k, Zero, "DNML_ALLOC_OOM")

-----------------------------------------------------------------------------
(* Arithmetic with one word *)

MutMulU64 ==
  \E v \in Words :
    /\ MayAccept(x)
    /\ \/ (x.d = <<>> \/ v = 1) /\ Returns("mulu64", v, Zero, x)
       \/ x.d # <<>> /\ v = 0 /\ Returns("mulu64", v, Zero, ResetOf(x))
       \/ IsOne(x) /\ v > 1 /\ Returns("mulu64", v, Zero, CopyU64(x, v))
       \/ /\ x.d # <<>> /\ ~IsOne(x) /\ v > 1
          /\ Reserving("mulu64", v, Zero, Len(x.d) + 1,
                       [EnsCap(x, Len(x.d) + 1) EXCEPT !.d = MulWord(x.d, v)])

\* bigInt_mut_muli64: the last statement turns the sign on every path that
\* reaches it, the copy of val included.
MutMulI64 ==
  \E v \in IntWords :
    /\ MayAccept(x)
    /\ LET Signed(o) == [o EXCEPT !.sign = @ * SignOf(v)]
       IN  \/ x.d = <<>> /\ Returns("muli64", v, Zero, x)
           \/ x.d # <<>> /\ v = 0 /\ Returns("muli64", v, Zero, ResetOf(x))
           \/ x.d # <<>> /\ v \in {1, -1} /\ Returns("muli64", v, Zero, Signed(x))
           \/ IsOne(x) /\ Mag(v) > 1 /\ Returns("muli64", v, Zero, Signed(CopyI64(x, v)))
           \/ /\ x.d # <<>> /\ ~IsOne(x) /\ Mag(v) > 1
              /\ Reserving("muli64", v, Zero, Len(x.d) + 1,
                           Signed([EnsCap(x, Len(x.d) + 1) EXCEPT !.d = MulWord(x.d, Mag(v))]))

\* The quotient of x by the word m in place, its sign turned when s is -1.
Divided(o, m, s) ==
  Normalized([o EXCEPT !.d = DivModWord(o.d, m).quot, !.sign = @ * s])

\* bigInt_mut_divu64: a magnitude of one is reset before val is looked at.
MutDivU64 ==
  \E v \in Words \ {0} :
    /\ MayAccept(x)
    /\ \/ IsOne(x) /\ Returns("divu64", v, Zero, ResetOf(x))
       \/ ~IsOne(x) /\ (x.d = <<>> \/ v = 1) /\ Returns("divu64", v, Zero, x)
       \/ ~IsOne(x) /\ x.d # <<>> /\ v > 1 /\ Returns("divu64", v, Zero, Divided(x, v, 1))

\* bigInt_mut_divi64: a divisor of one or minus one touches the sign of zero too.
MutDivI64 ==
  \E v \in IntWords \ {0} :
    /\ MayAccept(x)
    /\ \/ v \in {1, -1} /\ Returns("divi64", v, Zero, [x EXCEPT !.sign = @ * v])
       \/ Mag(v) > 1 /\ IsOne(x) /\ Returns("divi64", v, Zero, ResetOf(x))
       \/ Mag(v) > 1 /\ x.d = <<>> /\ Returns("divi64", v, Zero, x)
       \/ /\ Mag(v) > 1 /\ x.d # <<>> /\ ~IsOne(x)
          /\ Returns("divi64", v, Zero, Divided(x, Mag(v), SignOf(v)))

\* bigInt_mut_modu64: a zero remainder leaves n = 0 and the sign as it was.
MutModU64 ==
  \E v \in Words \ {0} :
    /\ MayAccept(x)
    /\ LET rem == DivModWord(x.d, v).rem
       IN  \/ x.d = <<>> /\ Returns("modu64", v, Zero, x)
           \/ x.d # <<>> /\ v = 1 /\ Returns("modu64", v, Zero, ResetOf(x))
           \/ /\ x.d # <<>> /\ v > 1 /\ MagCompWord(x.d, v) = -1
              /\ Returns("modu64", v, Zero, x)
           \/ /\ x.d # <<>> /\ v > 1 /\ MagCompWord(x.d, v) = 0
              /\ Returns("modu64", v, Zero, ResetOf(x))
           \/ /\ x.d # <<>> /\ v > 1 /\ MagCompWord(x.d, v) = 1
              /\ Returns("modu64", v, Zero, [x EXCEPT !.d = IF rem = 0 THEN <<>> ELSE <<rem>>])

MutModI64 ==
  \E v \in IntWords \ {0} :
    /\ MayAccept(x)
    /\ LET rem == DivModWord(x.d, Mag(v)).rem
       IN  \/ v \in {1, -1} /\ Returns("modi64", v, Zero, ResetOf(x))
           \/ Mag(v) > 1 /\ x.d = <<>> /\ Returns("modi64", v, Zero, x)
           \/ /\ Mag(v) > 1 /\ x.d # <<>> /\ MagCompWord(x.d, Mag(v)) = -1
              /\ Returns("modi64", v, Zero, x)
           \/ /\ Mag(v) > 1 /\ x.d # <<>> /\ MagCompWord(x.d, Mag(v)) = 0
              /\ Returns("modi64", v, Zero, ResetOf(x))
           \/ /\ Mag(v) > 1 /\ x.d # <<>> /\ MagCompWord(x.d, Mag(v)) = 1
              /\ Returns("modi64", v, Zero,
                         IF rem = 0 THEN ResetOf(x)
                         ELSE [x EXCEPT !.d = <<rem>>, !.sign = @ * SignOf(v)])
-----------------------------------------------------------------------------
(* Arithmetic with another number *)

\* bigInt_mut_add.  Zero takes the other operand by bigInt_mut_copy, whose
\* status matters only when memory ran out.
MutAdd ==
  \E y \in Operands :
    LET n    == Larger(Len(x.d), Len(y.d))
        comp == MagComp(x.d, y.d)
    IN  /\ MayAccept(x) /\ MayAccept(y)
        /\ \/ /\ x.d = <<>>
              /\ \/ \E o \in CopyFromCases(x, y) : Reserving("add", 0, y, Len(y.d), o)
                 \/ MayRefuse(y) /\ Returns("add", 0, y, x)
           \/ /\ x.d # <<>> /\ x.sign = y.sign
              /\ Reserving("add", 0, y, n + 1, [EnsCap(x, n + 1) EXCEPT !.d = MagAdd(x.d, y.d)])
           \/ x.d # <<>> /\ x.sign # y.sign /\ y.d = <<>> /\ Returns("add", 0, y, x)
           \/ /\ x.d # <<>> /\ x.sign # y.sign /\ y.d # <<>>
              /\ \/ comp = 0 /\ Returns("add", 0, y, ResetOf(x))
                 \/ comp = 1 /\ Returns("add", 0, y, [x EXCEPT !.d = MagSub(x.d, y.d)])
                 \/ /\ comp = -1
                    /\ Reserving("add", 0, y, Len(y.d), [EnsCap(x, Len(y.d))
                                   EXCEPT !.d = MagSub(y.d, x.d), !.sign = y.sign])

\* bigInt_mut_sub, the same with the sign of y turned.
MutSub ==
  \E y \in Operands :
    LET n    == Larger(Len(x.d), Len(y.d))
        comp == MagComp(x.d, y.d)
    IN  /\ MayAccept(x) /\ MayAccept(y)
        /\ \/ /\ x.d = <<>>
              /\ \/ \E o \in CopyFromCases(x, y) :
                      Reserving("sub", 0, y, Len(y.d), [o EXCEPT !.sign = -y.sign])
                 \/ MayRefuse(y) /\ Returns("sub", 0, y, [x EXCEPT !.sign = -y.sign])
           \/ /\ x.d # <<>> /\ x.sign = y.sign
              /\ \/ comp = 0 /\ Returns("sub", 0, y, ResetOf(x))
                 \/ comp = 1 /\ Returns("sub", 0, y, [x EXCEPT !.d = MagSub(x.d, y.d)])
                 \/ /\ comp = -1
                    /\ Reserving("sub", 0, y, Len(y.d), [EnsCap(x, Len(y.d))
                                   EXCEPT !.d = MagSub(y.d, x.d), !.sign = -@])
           \/ x.d # <<>> /\ x.sign # y.sign /\ y.d = <<>> /\ Returns("sub", 0, y, x)
           \/ /\ x.d # <<>> /\ x.sign # y.sign /\ y.d # <<>>
              /\ Reserving("sub", 0, y, n + 1, [EnsCap(x, n + 1) EXCEPT !.d = MagAdd(x.d, y.d)])

\* bigInt_mut_mul.  The product is built by the arena kernel and then, because
\* that branch runs into the label heap_mut_mul, built again on the heap: prod
\* arrives with a positive sign and takes the place of x, whose own is lost.
\* (A factor of minus one is taken for one, and one takes y by bigInt_mut_copy
\* before its sign is multiplied in again.)  The second product's array is
\* not checked: when it cannot be had the call does not come back.
MutMul ==
  \E y \in Operands :
    LET n == Len(x.d) + Len(y.d)
    IN  /\ MayAccept(x) /\ MayAccept(y)
        /\ \/ (x.d = <<>> \/ IsOne(y)) /\ Returns("mul", 0, y, x)
           \/ x.d # <<>> /\ y.d = <<>> /\ Returns("mul", 0, y, ResetOf(x))
           \/ /\ IsOne(x) /\ ~IsOne(y) /\ y.d # <<>>
              /\ \E o \in CopyFromCases(x, y) :
                   Reserving("mul", 0, y, Len(y.d), [o EXCEPT !.sign = @ * y.sign])
           \/ /\ x.d # <<>> /\ y.d # <<>> /\ ~IsOne(x) /\ ~IsOne(y)
              /\ \/ Returns("mul", 0, y, [d |-> Schoolbook(x.d, y.d), cap |-> n, sign |-> y.sign])
                 \/ \E how \in {"DNML_ALLOC_OOM", "CRASH"} : Fails("mul", 0, y, how)

-----------------------------------------------------------------------------
(* Specification *)

\* bigInt_new and bigInt_snew.
Fresh == [d : {<<>>}, cap : 1 .. MaxCap, sign : {1}]
New   == [op |-> "new", word |-> 0, y |-> Zero, status |-> "SUCCESS"]

Init == x \in Fresh /\ call = New

\* bigInt_free, and a constructor again.
Renew == x' \in Fresh /\ call' = New

Next ==
  \/ Renew \/ Refused \/ DivisionByZero
  \/ GetWord \/ CopyWord \/ DCopyWord \/ MutCopy \/ MutDCopy \/ CopyIfFits \/ CopyTruncated
  \/ MutReset \/ MutNormalize \/ Reserve \/ Resize \/ Shrink
  \/ MutMulU64 \/ MutMulI64 \/ MutDivU64 \/ MutDivI64 \/ MutModU64 \/ MutModI64
  \/ MutAdd \/ MutSub \/ MutMul

Spec == Init /\ [][Next]_vars
-----------------------------------------------------------------------------
(* Properties *)

\* Rules 1 to 4 hold whatever calls came before, but for shrink: in particular
\* no kernel made more limbs than the capacity that was ensured for it.
CoreContract ==
  /\ CoreValid(x) \/ call.op = "shrink"
  /\ x.d \in Seq(Limb)
  /\ call.op \in Ops \cup {"new"} /\ call.word \in Words \cup IntWords \cup (0 .. MaxCap)

Succeeds(ops) == call'.op \in ops /\ call'.status = "SUCCESS"

\* The quotient C gives: rounded towards zero.
Quotient(a, b) == SignOf(a) * SignOf(b) * (Mag(a) \div Mag(b))

\* Arithmetic with one word is exact, sign included, but for the fast path of
\* |x| = 1 (its product loses the sign or gets it twice, and 1 / 1 is 0) and
\* for the sign of the signed remainder.
WordOpExact ==
  LET v == call'.word
  IN  /\ Succeeds({"mulu64"}) /\ ~(IsOne(x) /\ x.sign = -1 /\ v > 1) => Val(x') = Val(x) * v
      /\ Succeeds({"muli64"}) /\ ~(IsOne(x) /\ Mag(v) > 1 /\ x.sign # SignOf(v))
            => Val(x') = Val(x) * v
      /\ Succeeds({"divu64"}) /\ ~(IsOne(x) /\ v = 1) => Val(x') = Quotient(Val(x), v)
      /\ Succeeds({"divi64"}) => Val(x') = Quotient(Val(x), v)
      /\ Succeeds({"modu64"}) => Val(x') = Val(x) - v * Quotient(Val(x), v)
      /\ Succeeds({"modi64"}) => Mag(Val(x')) = Mag(Val(x)) % Mag(v)

\* The magnitude of a product is exact unless |x| = 1, when it is copied from y
\* by the copy that counts bytes.
ProductMagnitude ==
  Succeeds({"mul"}) /\ (IsOne(x) => IsOne(call'.y))
    => Mag(Val(x')) = Mag(Val(x)) * Magnitude(call'.y.d)

\* Addition and subtraction pick the right kernel, operand order and sign: when
\* no limb carries or borrows the result is exact (x not zero: see MutAdd).
AddSubExact ==
  LET y == call'.y
      s == IF call'.op = "add" THEN y.sign ELSE -y.sign
      most  == IF MagComp(x.d, y.d) >= 0 THEN x.d ELSE y.d
      least == IF MagComp(x.d, y.d) >= 0 THEN y.d ELSE x.d
      carries == \E i \in DOMAIN most :
                   IF x.sign = s \/ y.d = <<>> THEN LimbAt(x.d, i) + LimbAt(y.d, i) >= Radix
                   ELSE most[i] < LimbAt(least, i)
  IN  Succeeds({"add", "sub"}) /\ x.d # <<>> /\ ~carries
        => Val(x') = Val(x) + s * Magnitude(y.d)

\* The copies that count limbs, or one word, make the destination equal to the
\* source.  (copyu64 over the same limb leaves a negative sign.)
CopiesExact ==
  [][ /\ Succeeds({"getu64", "geti64", "copyi64", "dcopyi64"}) => Val(x') = call'.word
      /\ Succeeds({"copyu64", "dcopyu64"}) => Magnitude(x'.d) = call'.word
      /\ Succeeds({"dcopy", "ocopy", "set_safe"}) => Val(x') = Val(call'.y) ]_vars

\* These calls leave an object the next call accepts: the repairing ones from
\* any object, the others from one that was acceptable.
KeepsContract ==
  LET repairing == {"getu64", "geti64", "set_safe", "reset", "normalize"}
      keeping   == {"mulu64", "muli64", "divu64", "modi64", "reserve",
                    "copyu64", "copyi64", "dcopyu64", "dcopyi64", "dcopy", "ocopy"}
  IN  Succeeds(repairing) \/ (Succeeds(keeping) /\ ArithValid(x)) => ArithValid(x')

-----------------------------------------------------------------------------
(* What comments and the contract say, and the code does not do *)

\* bigInt.c, __BIGINT_MAGADD__: "Do single-limb addition with carry (if have)
\* --> Stores the carry": the sum of two numbers of one sign is their sum.
CarryStored ==
  [][ Succeeds({"add"}) /\ x.d # <<>> /\ x.sign = call'.y.sign
        => Val(x') = Val(x) + Val(call'.y) ]_vars
=============================================================================
