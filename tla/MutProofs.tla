------------------------------ MODULE MutProofs ------------------------------
(***************************************************************************)
(* Proofs about BigIntMut, BigIntCompare and BigIntFunc: what the calls make *)
(* of a number in place, what they read of it and the new numbers they make, *)
(* for arrays of any length and limbs of any width.  The kernels are those   *)
(* of LimbProofs; powers and greatest common divisors have a theory of their *)
(* own here, over all numbers.  Then the calls, one lemma each: the step     *)
(* keeps the inductive invariant and its result is exact.  The theorems are  *)
(* at the end.                                                               *)
(***************************************************************************)
EXTENDS BigIntFunc, LimbProofs

-----------------------------------------------------------------------------
(* The capacity that an array gets *)

\* The capacities that doubling goes through.
LEMMA DoublingsOf ==
  ASSUME NEW cap \in Nat, NEW k \in Nat
  PROVE  /\ Doublings(cap, k)[0] = cap /\ \A i \in 0 .. k : Doublings(cap, k)[i] \in Nat
         /\ \A i \in 1 .. k : Doublings(cap, k)[i] = 2 * Doublings(cap, k)[i - 1]
<1> DEFINE Step(r) == [i \in 0 .. k |-> IF i = 0 THEN cap ELSE 2 * r[i - 1]]
           c == CHOOSE r : r = Step(r)
           g == [i \in 1 .. k |-> [s \in Nat |-> 2 * s]]
<1>n. k \in Nat /\ cap \in Nat
  OBVIOUS
<1>0. ASSUME NEW i \in 1 .. k, NEW s \in Nat PROVE 2 * s \in Nat
  OBVIOUS
<1>1. Fits(k, Nat, g) /\ \A i \in 1 .. k : \A s \in Nat : g[i][s] = 2 * s
  BY <1>0 DEF Fits
<1> HIDE DEF g
<1>2. PICK f \in [0 .. k -> Nat] : Run(k, cap, g, f)
  BY <1>n, <1>1, Recursion DEF Runs
<1>3. \A i \in 1 .. k : f[i - 1] \in Nat
  BY <1>n
<1>4. f[0] = cap /\ \A i \in 1 .. k : f[i] = 2 * f[i - 1]
  BY <1>1, <1>2, <1>3 DEF Run
<1>5. f = Step(f)
  BY <1>4
<1>6. c = Step(c)
  BY <1>5
<1>7. Doublings(cap, k) = c
  BY DEF Doublings
<1> HIDE DEF c
<1> DEFINE e == Step(c)
<1>8. e[0] = cap /\ \A i \in 1 .. k : e[i] = 2 * c[i - 1]
  <2>1. \A i \in 0 .. k : e[i] = IF i = 0 THEN cap ELSE 2 * c[i - 1]
    OBVIOUS
  <2> HIDE DEF e
  <2> QED  BY <1>n, <2>1
<1> HIDE DEF e
<1>9. c[0] = cap /\ \A i \in 1 .. k : c[i] = 2 * c[i - 1]
  BY <1>6, <1>8 DEF e
<1>10. \A i \in 0 .. k : c[i] \in Nat
  <2>1. c[0] \in Nat /\ Follows(k, Nat, g, c)
    BY <1>n, <1>1, <1>9 DEF Follows
  <2> QED  BY <1>n, <1>1, <2>1, RunTyped
<1> QED  BY <1>7, <1>9, <1>10

\* Reserving room for k limbs makes it, and never gives back any.
LEMMA EnsCapOf ==
  ASSUME NEW o, NEW cap \in Nat \ {0}, o.cap = cap, NEW k \in Nat
  PROVE  \E c \in Nat \ {0} : c >= k /\ c >= cap /\ EnsCap(o, k) = [o EXCEPT !.cap = c]
<1> DEFINE r == Doublings(cap, k)
           Fit(j) == r[j] >= k /\ \A i \in 0 .. j - 1 : r[i] < k
           passes == CHOOSE j \in 0 .. k : Fit(j)
           S == {j \in 0 .. k : r[j] >= k}
           Q == {j \in 0 .. k : r[j] >= cap /\ r[j] >= j + 1}
<1>1. /\ r[0] = cap /\ \A i \in 0 .. k : r[i] \in Nat
      /\ \A i \in 1 .. k : r[i] = 2 * r[i - 1]
  BY DoublingsOf
<1>2. EnsCap(o, k) = [o EXCEPT !.cap = r[passes]]
  BY DEF EnsCap
<1> HIDE DEF r
<1>3. 0 \in Q
  BY <1>1
<1>4. ASSUME NEW i \in 1 .. k, i - 1 \in Q PROVE i \in Q
  <2>1. i - 1 \in 0 .. k /\ r[i] = 2 * r[i - 1] /\ r[i - 1] \in Nat /\ r[i - 1] >= cap /\ r[i - 1] >= i
    BY <1>1, <1>4
  <2> QED  BY <2>1
<1> HIDE DEF Q
<1>5. \A i \in 0 .. k : i \in Q
  BY <1>3, <1>4, SetInduction
<1>6. \E j \in 0 .. k : Fit(j)
  <2>1. S \subseteq Nat /\ k \in S
    BY <1>1, <1>5 DEF Q
  <2> HIDE DEF S
  <2>2. PICK m \in S : \A j \in S : m <= j
    BY <2>1, LeastNumber
  <2>3. m \in 0 .. k /\ r[m] >= k
    BY <2>2 DEF S
  <2>4. ASSUME NEW i \in 0 .. m - 1 PROVE r[i] < k
    <3>1. i \in 0 .. k /\ ~ (m <= i)
      BY <2>3
    <3>2. i \notin S
      BY <2>2, <3>1
    <3> QED  BY <1>1, <3>1, <3>2 DEF S
  <2> QED  BY <2>3, <2>4
<1>7. passes \in 0 .. k /\ Fit(passes)
  BY <1>6
<1> HIDE DEF passes
<1>8. r[passes] \in Nat \ {0} /\ r[passes] >= k /\ r[passes] >= cap
  BY <1>1, <1>5, <1>7 DEF Q
<1> QED  BY <1>2, <1>8

-----------------------------------------------------------------------------
(* Numbers and the words that are passed to the calls *)

\* A number as the storage holds it, normalised or not.
Num == [d : Seq(Limb), cap : Nat \ {0}, sign : {1, -1}]

\* Every state of Spec: the object is one, and rules 1 to 4 hold but for shrink.
IInv == x \in Num /\ CoreContract

LEMMA NumParts ==
  ASSUME NEW o \in Num
  PROVE  /\ o.d \in Seq(Limb) /\ o.cap \in Nat \ {0} /\ o.sign \in {1, -1}
         /\ Len(o.d) \in Nat /\ Magnitude(o.d) \in Nat
         /\ o = [d |-> o.d, cap |-> o.cap, sign |-> o.sign]
<1>1. o.d \in Seq(Limb) /\ o.cap \in Nat \ {0} /\ o.sign \in {1, -1} /\ o = [d |-> o.d, cap |-> o.cap, sign |-> o.sign]
  BY DEF Num
<1>2. Len(o.d) \in Nat /\ Magnitude(o.d) = From(o.d, 1) /\ From(o.d, 1) \in Nat
  BY <1>1, DigitTyped, FromOf
<1> QED  BY <1>1, <1>2

LEMMA NumMade ==
  ASSUME NEW d \in Seq(Limb), NEW c \in Nat \ {0}, NEW s \in {1, -1}
  PROVE  [d |-> d, cap |-> c, sign |-> s] \in Num
BY DEF Num

\* A number with one of its fields replaced, and with two.
LEMMA ExceptOne ==
  ASSUME NEW o \in Num, NEW f
  PROVE  /\ [o EXCEPT !.d = f] = [d |-> f, cap |-> o.cap, sign |-> o.sign]
         /\ [o EXCEPT !.cap = f] = [d |-> o.d, cap |-> f, sign |-> o.sign]
         /\ [o EXCEPT !.sign = f] = [d |-> o.d, cap |-> o.cap, sign |-> f]
<1>1. PICK a, b, c : o = [d |-> a, cap |-> b, sign |-> c]
  BY NumParts
<1>2. o.d = a /\ o.cap = b /\ o.sign = c
  BY <1>1
<1>3. /\ [o EXCEPT !.d = f] = [d |-> f, cap |-> b, sign |-> c]
      /\ [o EXCEPT !.cap = f] = [d |-> a, cap |-> f, sign |-> c]
      /\ [o EXCEPT !.sign = f] = [d |-> a, cap |-> b, sign |-> f]
  BY <1>1
<1> QED  BY <1>2, <1>3, Zenon

LEMMA ExceptSigned ==
  ASSUME NEW o \in Num, NEW f, NEW s
  PROVE  [o EXCEPT !.d = f, !.sign = s] = [d |-> f, cap |-> o.cap, sign |-> s]
<1>1. PICK a, b, c : o = [d |-> a, cap |-> b, sign |-> c]
  BY NumParts
<1>2. PICK g : g = [o EXCEPT !.d = f]
  OBVIOUS
<1>3. [o EXCEPT !.d = f, !.sign = s] = [g EXCEPT !.sign = s]
  BY <1>2, Zenon
<1>4. g = [d |-> f, cap |-> b, sign |-> c] /\ o.cap = b
  BY <1>1, <1>2
<1>5. [g EXCEPT !.sign = s] = [d |-> f, cap |-> o.cap, sign |-> s]
  BY <1>4
<1> QED  BY <1>3, <1>5, Zenon

LEMMA ExceptResized ==
  ASSUME NEW o \in Num, NEW f, NEW k
  PROVE  [o EXCEPT !.cap = k, !.d = f] = [d |-> f, cap |-> k, sign |-> o.sign]
<1>1. PICK a, b, c : o = [d |-> a, cap |-> b, sign |-> c]
  BY NumParts
<1>2. PICK g : g = [o EXCEPT !.cap = k]
  OBVIOUS
<1>3. [o EXCEPT !.cap = k, !.d = f] = [g EXCEPT !.d = f]
  BY <1>2, Zenon
<1>4. g = [d |-> a, cap |-> k, sign |-> c] /\ o.sign = c
  BY <1>1, <1>2
<1>5. [g EXCEPT !.d = f] = [d |-> f, cap |-> k, sign |-> o.sign]
  BY <1>4
<1> QED  BY <1>3, <1>5, Zenon

\* Room for k limbs, the rest of the number as it is.
LEMMA Reserved ==
  ASSUME NEW o \in Num, NEW k \in Nat
  PROVE  LET e == EnsCap(o, k)
         IN  /\ e \in Num /\ e.cap \in Nat \ {0} /\ e.cap >= k /\ e.cap >= o.cap
             /\ e.d = o.d /\ e.sign = o.sign
<1>1. o.d \in Seq(Limb) /\ o.cap \in Nat \ {0} /\ o.sign \in {1, -1}
  BY NumParts
<1>2. PICK c \in Nat \ {0} : c >= k /\ c >= o.cap /\ EnsCap(o, k) = [o EXCEPT !.cap = c]
  BY <1>1, EnsCapOf
<1>3. EnsCap(o, k) = [d |-> o.d, cap |-> c, sign |-> o.sign]
  BY <1>2, ExceptOne
<1>4. EnsCap(o, k) \in Num
  BY <1>1, <1>3, NumMade
<1>5. EnsCap(o, k).d = o.d /\ EnsCap(o, k).cap = c /\ EnsCap(o, k).sign = o.sign
  BY <1>3
<1> QED  BY <1>2, <1>4, <1>5

LEMMA WordTyped ==
  /\ \A v \in Words : v \in Nat /\ v \in Limb
  /\ \A v \in IntWords : /\ v \in Int /\ Mag(v) \in Limb /\ Mag(v) \in Nat /\ SignOf(v) \in {1, -1}
                         /\ v = SignOf(v) * Mag(v) /\ (v # 0 => Mag(v) # 0)
<1>1. \A v \in Words : v \in Nat /\ v \in Limb
  BY LimbsTyped DEF Words
<1>2. Radix \in Nat /\ Radix >= 2
  BY ByteRangeDivides
<1>3. ASSUME NEW v \in IntWords
      PROVE  /\ v \in Int /\ Mag(v) \in Limb /\ Mag(v) \in Nat /\ SignOf(v) \in {1, -1}
             /\ v = SignOf(v) * Mag(v) /\ (v # 0 => Mag(v) # 0)
  <2>1. Radix \div 2 \in Nat /\ Radix \div 2 <= Radix - 1 /\ (Radix + 1) \div 2 - 1 <= Radix - 1
        /\ (Radix + 1) \div 2 \in Nat
    BY <1>2
  <2>2. v \in Int /\ v >= - (Radix \div 2) /\ v <= (Radix + 1) \div 2 - 1
    BY <2>1 DEF IntWords
  <2>3. v \in - (Radix - 1) .. Radix - 1
    BY <1>2, <2>1, <2>2
  <2> QED  BY <1>2, <2>3 DEF Mag, SignOf, Limb
<1> QED  BY <1>1, <1>3

-----------------------------------------------------------------------------
(* A call that returns, and one that fails *)

\* The numbers passed by value are normalised.
OperandsValid == \A y \in Operands : ArithValid(y)

\* What the calls are bound to beside rules 1 to 4.
Exact ==
  /\ WordOpExact /\ ProductMagnitude /\ AddSubExact
  /\ Succeeds({"getu64", "geti64", "copyi64", "dcopyi64"}) => Val(x') = call'.word
  /\ Succeeds({"copyu64", "dcopyu64"}) => Magnitude(x'.d) = call'.word
  /\ Succeeds({"dcopy", "ocopy", "set_safe"}) => Val(x') = Val(call'.y)
  /\ OperandsValid => KeepsContract

\* The calls that are bound to a value or to an acceptable number.
Computing ==
  {"mulu64", "muli64", "divu64", "divi64", "modu64", "modi64", "mul", "add", "sub",
   "getu64", "geti64", "copyi64", "dcopyi64", "copyu64", "dcopyu64", "dcopy", "ocopy", "set_safe",
   "reset", "normalize", "reserve"}

LEMMA NotComputing ==
  ASSUME ~ (call'.op \in Computing /\ call'.status = "SUCCESS")
  PROVE  Exact
BY DEF Computing, Exact, WordOpExact, ProductMagnitude, AddSubExact, KeepsContract, Succeeds

CallWords == Words \cup IntWords \cup (0 .. MaxCap)

LEMMA HandsStep ==
  ASSUME NEW op, NEW w \in CallWords, NEW y, NEW o \in Num, NEW status, Hands(op, w, y, o, status),
         Len(o.d) <= o.cap \/ op = "shrink"
  PROVE  IInv'
<1>1. x' = o /\ call' = [op |-> op, word |-> w, y |-> y, status |-> status] /\ op \in Ops
  BY DEF Hands
<1>2. call'.op = op /\ call'.word = w
  BY <1>1
<1>3. o.d \in Seq(Limb) /\ o.cap \in Nat \ {0} /\ o.sign \in {1, -1}
  BY NumParts
<1>4. CoreValid(x)' \/ call'.op = "shrink"
  BY <1>1, <1>2, <1>3 DEF CoreValid
<1> QED  BY <1>1, <1>2, <1>3, <1>4 DEF IInv, CoreContract, CallWords, Num

LEMMA FailsStep ==
  ASSUME IInv, NEW op, NEW w \in CallWords, NEW y, NEW status, status # "SUCCESS", Fails(op, w, y, status)
  PROVE  IInv' /\ Exact
<1>1. x' = x /\ call' = [op |-> op, word |-> w, y |-> y, status |-> status] /\ op \in Ops /\ CoreValid(x)
  BY DEF Fails, Usable
<1>2. call'.op = op /\ call'.word = w /\ call'.status # "SUCCESS"
  BY <1>1
<1>3. IInv'
  BY <1>1, <1>2 DEF IInv, CoreContract, CallWords, CoreValid
<1> QED  BY <1>2, <1>3, NotComputing

LEMMA ReservingStep ==
  ASSUME IInv, NEW op, NEW w \in CallWords, NEW y, NEW k, NEW o \in Num, Reserving(op, w, y, k, o),
         Len(o.d) <= o.cap
  PROVE  IInv' /\ (Exact \/ Returns(op, w, y, o))
<1>1. CASE Returns(op, w, y, o)
  <2>1. Hands(op, w, y, o, "SUCCESS")
    BY <1>1 DEF Returns
  <2>2. IInv'
    BY <2>1, HandsStep
  <2> QED  BY <1>1, <2>2
<1>2. CASE Fails(op, w, y, "DNML_ALLOC_OOM")
  BY <1>2, FailsStep
<1> QED  BY <1>1, <1>2 DEF Reserving

LEMMA Returned ==
  ASSUME NEW op, NEW w \in CallWords, NEW y, NEW o \in Num, Returns(op, w, y, o), Len(o.d) <= o.cap
  PROVE  /\ IInv' /\ x' = o
         /\ call'.op = op /\ call'.word = w /\ call'.y = y /\ call'.status = "SUCCESS"
<1>1. Hands(op, w, y, o, "SUCCESS")
  BY DEF Returns
<1>2. IInv'
  BY <1>1, HandsStep
<1>3. x' = o /\ call' = [op |-> op, word |-> w, y |-> y, status |-> "SUCCESS"]
  BY <1>1 DEF Hands
<1>4. call'.op = op /\ call'.word = w /\ call'.y = y /\ call'.status = "SUCCESS"
  BY <1>3
<1> QED  BY <1>2, <1>3, <1>4

\* The calls that repair or keep the contract, and are bound to no value.
LEMMA KeepingStep ==
  ASSUME NEW op \in {"reset", "normalize", "reserve"}, NEW w \in CallWords, NEW y, NEW o \in Num,
         Returns(op, w, y, o), Len(o.d) <= o.cap,
         IF op = "reserve" THEN ArithValid(x) => ArithValid(o) ELSE ArithValid(o)
  PROVE  IInv' /\ Exact
<1>1. IInv' /\ x' = o /\ call'.op = op /\ call'.status = "SUCCESS"
  BY Returned
<1>2. ArithValid(x)' = ArithValid(o)
  BY <1>1 DEF ArithValid
<1>3. KeepsContract
  BY <1>1, <1>2 DEF KeepsContract, Succeeds
<1> QED  BY <1>1, <1>3 DEF Exact, WordOpExact, ProductMagnitude, AddSubExact, Succeeds

\* A call that is bound to no value.
LEMMA ReturnsStep ==
  ASSUME NEW op, op \notin Computing, NEW w \in CallWords, NEW y, NEW o \in Num, Returns(op, w, y, o),
         Len(o.d) <= o.cap \/ op = "shrink"
  PROVE  IInv' /\ Exact
<1>1. Hands(op, w, y, o, "SUCCESS")
  BY DEF Returns
<1>2. IInv'
  BY <1>1, HandsStep
<1>3. call'.op = op
  BY <1>1 DEF Hands
<1> QED  BY <1>2, <1>3, NotComputing

LEMMA OperandTyped ==
  ASSUME NEW y \in Operands
  PROVE  y.d \in Seq(Limb) /\ y.sign \in {1, -1} /\ Len(y.d) \in Nat /\ Magnitude(y.d) \in Nat
<1>1. y.d \in Seq(Limb) /\ y.sign \in {1, -1}
  BY MutAssumption
<1>2. Len(y.d) \in Nat /\ Magnitude(y.d) = From(y.d, 1) /\ From(y.d, 1) \in Nat
  BY <1>1, DigitTyped, FromOf, SMTT(60)
<1> QED  BY <1>1, <1>2

LEMMA CallWordsTyped ==
  /\ 0 \in CallWords /\ Words \subseteq CallWords /\ IntWords \subseteq CallWords
  /\ (0 .. MaxCap) \subseteq CallWords /\ (1 .. MaxCap) \subseteq CallWords
BY MutAssumption DEF CallWords

\* The object a call finds.
LEMMA UsableTyped ==
  ASSUME IInv, CoreValid(x)
  PROVE  /\ x \in Num /\ x.d \in Seq(Limb) /\ x.cap \in Nat \ {0} /\ x.sign \in {1, -1}
         /\ Len(x.d) \in Nat /\ Len(x.d) <= x.cap /\ Magnitude(x.d) \in Nat
BY NumParts DEF IInv, CoreValid

LEMMA InitInv == Init => IInv
<1> SUFFICES ASSUME Init PROVE IInv
  OBVIOUS
<1>1. PICK c \in 1 .. MaxCap : x = [d |-> <<>>, cap |-> c, sign |-> 1]
  BY DEF Init, Fresh
<1>2. c \in Nat \ {0} /\ <<>> \in Seq(Limb) /\ Len(<<>>) = 0
  BY MutAssumption
<1>3. x \in Num
  BY <1>1, <1>2, NumMade
<1>4. CoreValid(x) /\ x.d \in Seq(Limb)
  BY <1>1, <1>2 DEF CoreValid
<1>5. call.op = "new" /\ call.word = 0
  BY DEF Init, New
<1> QED  BY <1>3, <1>4, <1>5, CallWordsTyped DEF IInv, CoreContract, CallWords

LEMMA RenewStep == Renew => IInv' /\ Exact
<1> SUFFICES ASSUME Renew PROVE IInv' /\ Exact
  OBVIOUS
<1>1. PICK c \in 1 .. MaxCap : x' = [d |-> <<>>, cap |-> c, sign |-> 1]
  BY DEF Renew, Fresh
<1>2. c \in Nat \ {0} /\ <<>> \in Seq(Limb) /\ Len(<<>>) = 0
  BY MutAssumption
<1>3. x' \in Num
  BY <1>1, <1>2, NumMade
<1>4. CoreValid(x)' /\ x'.d \in Seq(Limb)
  BY <1>1, <1>2 DEF CoreValid
<1>5. call'.op = "new" /\ call'.word = 0
  BY DEF Renew, New
<1>6. IInv'
  BY <1>3, <1>4, <1>5, CallWordsTyped DEF IInv, CoreContract, CallWords
<1>7. call'.op \notin Computing
  BY <1>5 DEF Computing
<1> QED  BY <1>6, <1>7, NotComputing

LEMMA StutterStep == IInv /\ UNCHANGED vars => IInv'
BY DEF IInv, CoreContract, CoreValid, vars

LEMMA RefusedStep == IInv /\ Refused => IInv' /\ Exact
<1> SUFFICES ASSUME IInv, Refused PROVE IInv' /\ Exact
  OBVIOUS
<1>1. ASSUME NEW op, NEW v \in Words, Fails(op, v, Zero, "BIGINT_ERR_INVAL") PROVE IInv' /\ Exact
  BY <1>1, FailsStep, CallWordsTyped
<1>2. ASSUME NEW op, NEW v \in IntWords, Fails(op, v, Zero, "BIGINT_ERR_INVAL") PROVE IInv' /\ Exact
  BY <1>2, FailsStep, CallWordsTyped
<1>3. ASSUME NEW op, NEW y, Fails(op, 0, y, "BIGINT_ERR_INVAL") PROVE IInv' /\ Exact
  BY <1>3, FailsStep, CallWordsTyped
<1> QED  BY <1>1, <1>2, <1>3 DEF Refused

LEMMA DivisionByZeroStep == IInv /\ DivisionByZero => IInv' /\ Exact
<1> SUFFICES ASSUME IInv, DivisionByZero PROVE IInv' /\ Exact
  OBVIOUS
<1>1. PICK op : Fails(op, 0, Zero, "BIGINT_ERR_DOMAIN")
  BY DEF DivisionByZero
<1> QED  BY <1>1, FailsStep, CallWordsTyped

LEMMA ConcatLength ==
  ASSUME NEW a \in Seq(Limb), NEW b \in Seq(Limb)
  PROVE  Len(a \o b) = Len(a) + Len(b)
OBVIOUS

\* bigInt_mut_copy leaves a number that fits what it reserved.
LEMMA CopyFromTyped ==
  ASSUME NEW o \in Num, Len(o.d) <= o.cap, NEW y \in Operands, NEW e \in CopyFromCases(o, y)
  PROVE  e \in Num /\ Len(e.d) <= e.cap
<1> DEFINE n == Len(y.d)
           m == IF n > Len(o.d) THEN n - Len(o.d) ELSE 0
<1>1. /\ y.d \in Seq(Limb) /\ y.sign \in {1, -1} /\ n \in Nat
      /\ o.d \in Seq(Limb) /\ o.cap \in Nat \ {0} /\ o.sign \in {1, -1} /\ Len(o.d) \in Nat
      /\ o = [d |-> o.d, cap |-> o.cap, sign |-> o.sign]
  BY OperandTyped, NumParts
<1>2. CASE e = o
  BY <1>2
<1>3. CASE e = [o EXCEPT !.sign = y.sign]
  <2>1. e = [d |-> o.d, cap |-> o.cap, sign |-> y.sign]
    BY <1>1, <1>3
  <2> QED  BY <1>1, <2>1, NumMade
<1>4. ASSUME NEW r \in [1 .. m -> Limb],
             e = [EnsCap(o, n) EXCEPT !.d = SubSeq(MemCopy(o.d \o r, y.d, n), 1, n), !.sign = y.sign]
      PROVE  e \in Num /\ Len(e.d) <= e.cap
  <2> DEFINE d == SubSeq(MemCopy(o.d \o r, y.d, n), 1, n)
  <2> DEFINE c == EnsCap(o, n).cap
  <2>1. EnsCap(o, n) \in Num /\ c \in Nat \ {0} /\ c >= n
    BY <1>1, Reserved
  <2>2. m \in Nat /\ Len(o.d) + m >= n
    BY <1>1
  <2> HIDE DEF m
  <2>3. r \in Seq(Limb) /\ Len(r) = m
    BY <2>2
  <2>4. o.d \o r \in Seq(Limb) /\ Len(o.d \o r) = Len(o.d) + m
    <3>1. o.d \o r \in Seq(Limb)
      BY <1>1, <2>3
    <3>2. Len(o.d \o r) = Len(o.d) + Len(r)
      BY <1>1, <2>3, ConcatLength
    <3> QED  BY <2>3, <3>1, <3>2
  <2>5. MemCopy(o.d \o r, y.d, n) \in Seq(Limb) /\ Len(MemCopy(o.d \o r, y.d, n)) = Len(o.d) + m
    BY <1>1, <2>4, MemCopyTyped
  <2>6. d \in Seq(Limb) /\ Len(d) = n
    BY <1>1, <2>2, <2>5
  <2> HIDE DEF d
  <2>7. e = [d |-> d, cap |-> c, sign |-> y.sign]
    <3>1. e = [EnsCap(o, n) EXCEPT !.d = d, !.sign = y.sign]
      BY <1>4 DEF d
    <3> QED  BY <2>1, <3>1, ExceptSigned
  <2> QED  BY <1>1, <2>1, <2>6, <2>7, NumMade
<1> QED  BY <1>2, <1>3, <1>4 DEF CopyFromCases

LEMMA MutCopyStep == IInv /\ MutCopy => IInv' /\ Exact
<1> SUFFICES ASSUME IInv, MutCopy PROVE IInv' /\ Exact
  OBVIOUS
<1>1. PICK y \in Operands :
        \/ \E o \in CopyFromCases(x, y) : Reserving("copy", 0, y, Len(y.d), o)
        \/ Fails("copy", 0, y, "BIGINT_ERR_INVAL")
  BY DEF MutCopy
<1>2. ASSUME NEW o \in CopyFromCases(x, y), Reserving("copy", 0, y, Len(y.d), o) PROVE IInv' /\ Exact
  <2>1. CoreValid(x)
    BY <1>2 DEF Reserving, Returns, Hands, Fails, Usable
  <2>2. o \in Num /\ Len(o.d) <= o.cap
    BY <2>1, UsableTyped, CopyFromTyped
  <2>3. IInv' /\ (Exact \/ Returns("copy", 0, y, o))
    BY <1>2, <2>2, CallWordsTyped, ReservingStep
  <2>4. "copy" \notin Computing
    BY DEF Computing
  <2>5. CASE Returns("copy", 0, y, o)
    BY <2>2, <2>4, <2>5, CallWordsTyped, ReturnsStep
  <2> QED  BY <2>3, <2>5
<1>3. CASE Fails("copy", 0, y, "BIGINT_ERR_INVAL")
  BY <1>3, FailsStep, CallWordsTyped
<1> QED  BY <1>1, <1>2, <1>3

LEMMA MutResetStep == IInv /\ MutReset => IInv' /\ Exact
<1> SUFFICES ASSUME IInv, MutReset PROVE IInv' /\ Exact
  OBVIOUS
<1>1. Returns("reset", 0, Zero, ResetOf(x)) /\ CoreValid(x)
  BY DEF MutReset, Returns, Hands, Usable
<1>2. ResetOf(x) = [d |-> <<>>, cap |-> x.cap, sign |-> 1] /\ ResetOf(x) \in Num /\ Len(ResetOf(x).d) <= x.cap
  <2>1. x \in Num /\ x.cap \in Nat \ {0} /\ <<>> \in Seq(Limb) /\ Len(<<>>) = 0
    BY <1>1, UsableTyped
  <2>2. ResetOf(x) = [d |-> <<>>, cap |-> x.cap, sign |-> 1]
    BY <2>1, ExceptSigned DEF ResetOf
  <2>3. ResetOf(x) \in Num
    BY <2>1, <2>2, NumMade
  <2> QED  BY <2>1, <2>2, <2>3
<1>3. Len(ResetOf(x).d) <= ResetOf(x).cap /\ ArithValid(ResetOf(x))
  BY <1>2 DEF ArithValid
<1> QED  BY <1>1, <1>2, <1>3, CallWordsTyped, KeepingStep

LEMMA NormalizedOf ==
  ASSUME NEW o \in Num
  PROVE  /\ Normalized(o) \in Num /\ Len(Normalized(o).d) <= Len(o.d) /\ Normalized(o).cap = o.cap
         /\ Normalized(o).d = Trim(o.d) /\ Val(Normalized(o)) = Val(o) /\ ArithValid(Normalized(o))
<1> DEFINE t == Trim(o.d)
           s == IF t = <<>> THEN 1 ELSE o.sign
<1>1. o.d \in Seq(Limb) /\ o.cap \in Nat \ {0} /\ o.sign \in {1, -1} /\ Len(o.d) \in Nat
      /\ o = [d |-> o.d, cap |-> o.cap, sign |-> o.sign]
  BY NumParts
<1>2. t \in Seq(Limb) /\ Len(t) \in 0 .. Len(o.d) /\ Magnitude(t) = Magnitude(o.d) /\ (t # <<>> => t[Len(t)] # 0)
  BY <1>1, TrimOf, TrimKeepsValue
<1>3. Normalized(o) = [o EXCEPT !.d = t, !.sign = s]
  BY DEF Normalized
<1> HIDE DEF t
<1>4. Normalized(o) = [d |-> t, cap |-> o.cap, sign |-> s]
  BY <1>1, <1>3
<1>5. Normalized(o) \in Num
  BY <1>1, <1>2, <1>4, NumMade
<1>6. Val(Normalized(o)) = Val(o)
  <2>1. CASE t # <<>>
    BY <1>2, <1>4, <2>1 DEF Val
  <2>2. CASE t = <<>>
    <3>1. Magnitude(t) = 0
      BY <2>2, WordValue
    <3> QED  BY <1>1, <1>2, <1>4, <2>2, <3>1 DEF Val
  <2> QED  BY <2>1, <2>2
<1>7. ArithValid(Normalized(o))
  BY <1>2, <1>4 DEF ArithValid
<1> QED  BY <1>1, <1>2, <1>4, <1>5, <1>6, <1>7 DEF t

LEMMA MutNormalizeStep == IInv /\ MutNormalize => IInv' /\ Exact
<1> SUFFICES ASSUME IInv, MutNormalize PROVE IInv' /\ Exact
  OBVIOUS
<1>1. Returns("normalize", 0, Zero, Normalized(x)) /\ CoreValid(x)
  BY DEF MutNormalize, Returns, Hands, Usable
<1>2. x \in Num /\ Len(x.d) \in Nat /\ Len(x.d) <= x.cap /\ x.cap \in Nat
  BY <1>1, UsableTyped
<1>3. Normalized(x) \in Num /\ Len(Normalized(x).d) <= Len(x.d) /\ Normalized(x).cap = x.cap
  BY <1>2, NormalizedOf
<1>4. Len(Normalized(x).d) <= Normalized(x).cap
  BY <1>2, <1>3, NumParts
<1>5. ArithValid(Normalized(x))
  BY <1>2, NormalizedOf
<1> QED  BY <1>1, <1>3, <1>4, <1>5, CallWordsTyped, KeepingStep

LEMMA ReserveStep == IInv /\ Reserve => IInv' /\ Exact
<1> SUFFICES ASSUME IInv, Reserve PROVE IInv' /\ Exact
  OBVIOUS
<1>1. PICK k \in 0 .. MaxCap : Reserving("reserve", k, Zero, k, EnsCap(x, k))
  BY DEF Reserve
<1>2. CoreValid(x)
  BY <1>1 DEF Reserving, Returns, Hands, Fails, Usable
<1>3. x \in Num /\ x.d \in Seq(Limb) /\ Len(x.d) \in Nat /\ Len(x.d) <= x.cap /\ x.cap \in Nat \ {0} /\ x.sign \in {1, -1}
  BY <1>2, UsableTyped
<1>4. k \in Nat
  BY MutAssumption
<1>5. EnsCap(x, k) \in Num /\ EnsCap(x, k).cap >= x.cap /\ EnsCap(x, k).cap \in Nat /\ EnsCap(x, k).d = x.d
  BY <1>3, <1>4, Reserved
<1>6. Len(EnsCap(x, k).d) <= EnsCap(x, k).cap
  BY <1>3, <1>5
<1>7. ArithValid(x) => ArithValid(EnsCap(x, k))
  BY <1>3, <1>4, Reserved DEF ArithValid
<1>8. IInv' /\ (Exact \/ Returns("reserve", k, Zero, EnsCap(x, k)))
  BY <1>1, <1>5, <1>6, CallWordsTyped, ReservingStep
<1>9. CASE Returns("reserve", k, Zero, EnsCap(x, k))
  BY <1>5, <1>6, <1>7, <1>9, CallWordsTyped, KeepingStep
<1> QED  BY <1>8, <1>9

LEMMA CutOf ==
  ASSUME NEW d \in Seq(Limb), NEW k \in Nat
  PROVE  Cut(d, k) \in Seq(Limb) /\ Len(Cut(d, k)) <= k /\ Len(Cut(d, k)) <= Len(d) /\ Len(Cut(d, k)) \in Nat
         /\ (k > 0 => (Cut(d, k) = <<>> <=> d = <<>>))
<1> DEFINE m == IF Len(d) > k THEN k ELSE Len(d)
<1>1. m \in 0 .. Len(d) /\ m <= k /\ Cut(d, k) = SubSeq(d, 1, m) /\ Len(d) \in Nat
  BY DigitTyped DEF Cut
<1>2. k > 0 => (m = 0 <=> Len(d) = 0)
  BY <1>1
<1>3. Len(d) = 0 <=> d = <<>>
  OBVIOUS
<1> HIDE DEF m
<1>4. SubSeq(d, 1, m) \in Seq(Limb) /\ Len(SubSeq(d, 1, m)) = m
  BY <1>1
<1>5. Cut(d, k) \in Seq(Limb) /\ Len(Cut(d, k)) = m
  BY <1>1, <1>4
<1>6. Cut(d, k) = <<>> <=> m = 0
  BY <1>5
<1> QED  BY <1>1, <1>2, <1>3, <1>5, <1>6

LEMMA ResizeStep == IInv /\ Resize => IInv' /\ Exact
<1> SUFFICES ASSUME IInv, Resize PROVE IInv' /\ Exact
  OBVIOUS
<1>1. PICK k \in 1 .. MaxCap : \/ Returns("resize", k, Zero, [x EXCEPT !.cap = k, !.d = Cut(@, k)])
                               \/ Fails("resize", k, Zero, "DNML_ALLOC_OOM")
  BY DEF Resize
<1>2. k \in Nat \ {0} /\ k \in CallWords
  BY MutAssumption, CallWordsTyped
<1>3. CASE Returns("resize", k, Zero, [x EXCEPT !.cap = k, !.d = Cut(@, k)])
  <2> DEFINE o == [x EXCEPT !.cap = k, !.d = Cut(@, k)]
  <2>1. CoreValid(x)
    BY <1>3 DEF Returns, Hands, Usable
  <2>2. x \in Num /\ x.d \in Seq(Limb) /\ x.sign \in {1, -1} /\ x = [d |-> x.d, cap |-> x.cap, sign |-> x.sign]
    BY <2>1, UsableTyped, NumParts
  <2>3. o = [d |-> Cut(x.d, k), cap |-> k, sign |-> x.sign]
    BY <2>2, ExceptResized
  <2>4. Cut(x.d, k) \in Seq(Limb) /\ Len(Cut(x.d, k)) <= k
    BY <1>2, <2>2, CutOf
  <2> HIDE DEF o
  <2>5. o \in Num /\ Len(o.d) <= o.cap
    BY <1>2, <2>2, <2>3, <2>4, NumMade
  <2>6. Returns("resize", k, Zero, o) /\ "resize" \notin Computing
    BY <1>3 DEF o, Computing
  <2> QED  BY <1>2, <2>5, <2>6, ReturnsStep
<1>4. CASE Fails("resize", k, Zero, "DNML_ALLOC_OOM")
  BY <1>2, <1>4, FailsStep
<1> QED  BY <1>1, <1>3, <1>4

LEMMA ShrinkStep == IInv /\ Shrink => IInv' /\ Exact
<1> SUFFICES ASSUME IInv, Shrink PROVE IInv' /\ Exact
  OBVIOUS
<1>0. "shrink" \notin Computing
  BY DEF Computing
<1>1. PICK k \in 1 .. MaxCap :
         \/ Returns("shrink", k, Zero, x)
         \/ \E r \in [1 .. (IF Len(x.d) < k THEN k - Len(x.d) ELSE 0) -> Limb] :
              Returns("shrink", k, Zero, [x EXCEPT !.cap = k, !.d = @ \o r])
         \/ Fails("shrink", k, Zero, "DNML_ALLOC_OOM")
  BY DEF Shrink
<1>2. k \in Nat \ {0} /\ k \in CallWords
  BY MutAssumption, CallWordsTyped
<1>3. CASE Returns("shrink", k, Zero, x)
  <2>1. x \in Num
    BY DEF IInv
  <2> QED  BY <1>0, <1>2, <1>3, <2>1, ReturnsStep
<1>4. ASSUME NEW r \in [1 .. (IF Len(x.d) < k THEN k - Len(x.d) ELSE 0) -> Limb],
             Returns("shrink", k, Zero, [x EXCEPT !.cap = k, !.d = @ \o r])
      PROVE  IInv' /\ Exact
  <2> DEFINE o == [x EXCEPT !.cap = k, !.d = @ \o r]
             m == IF Len(x.d) < k THEN k - Len(x.d) ELSE 0
  <2>1. x \in Num /\ x.d \in Seq(Limb) /\ x.sign \in {1, -1} /\ x = [d |-> x.d, cap |-> x.cap, sign |-> x.sign]
        /\ Len(x.d) \in Nat
    BY NumParts DEF IInv
  <2>2. m \in Nat
    BY <1>2, <2>1
  <2> HIDE DEF m
  <2>3. r \in Seq(Limb)
    BY <1>4, <2>2 DEF m
  <2>4. x.d \o r \in Seq(Limb)
    BY <2>1, <2>3
  <2>5. o = [d |-> x.d \o r, cap |-> k, sign |-> x.sign]
    BY <2>1, ExceptResized
  <2> HIDE DEF o
  <2>6. o \in Num
    BY <1>2, <2>1, <2>4, <2>5, NumMade
  <2>7. Returns("shrink", k, Zero, o)
    BY <1>4 DEF o
  <2> QED  BY <1>0, <1>2, <2>6, <2>7, ReturnsStep
<1>5. CASE Fails("shrink", k, Zero, "DNML_ALLOC_OOM")
  BY <1>2, <1>5, FailsStep
<1> QED  BY <1>1, <1>3, <1>4, <1>5

-----------------------------------------------------------------------------
(* Assignments and copies *)

\* A number that holds one word.
WordDigits(v) == IF v = 0 THEN <<>> ELSE <<v>>

LEMMA OneWordOf ==
  ASSUME NEW c \in Nat \ {0}, NEW v \in Limb, NEW s \in {1, -1}
  PROVE  LET e == [d |-> WordDigits(v), cap |-> c, sign |-> s]
         IN  /\ e \in Num /\ Len(e.d) <= e.cap /\ Magnitude(e.d) = v
             /\ (v = 0 => s = 1) => ArithValid(e)
             /\ v # 0 => e.d = <<v>>
<1> DEFINE f == WordDigits(v)
           e == [d |-> f, cap |-> c, sign |-> s]
<1>1. f \in Seq(Limb) /\ Len(f) <= 1 /\ Len(f) \in Nat /\ Magnitude(f) = v
  <2>1. CASE v = 0
    <3>1. f = <<>>
      BY <2>1 DEF WordDigits
    <3> HIDE DEF f
    <3>2. <<>> \in Seq(Limb) /\ Len(<<>>) = 0 /\ Magnitude(<<>>) = 0
      BY WordValue
    <3> QED  BY <2>1, <3>1, <3>2
  <2>2. CASE v # 0
    <3>1. f = <<v>>
      BY <2>2 DEF WordDigits
    <3> HIDE DEF f
    <3>2. <<v>> \in Seq(Limb) /\ Len(<<v>>) = 1 /\ Magnitude(<<v>>) = v
      BY WordValue
    <3> QED  BY <3>1, <3>2
  <2> QED  BY <2>1, <2>2
<1>2. (v = 0 => f = <<>>) /\ (v # 0 => f = <<v>>)
  BY DEF WordDigits
<1> HIDE DEF f
<1>3. e \in Num
  BY <1>1, NumMade
<1>4. e.d = f /\ e.cap = c /\ e.sign = s
  OBVIOUS
<1> HIDE DEF e
<1>5. (v = 0 => s = 1) => ArithValid(e)
  <2>1. v # 0 => e.d # <<>> /\ Len(e.d) = 1 /\ e.d[1] = v
    <3>1. <<v>> # <<>> /\ Len(<<v>>) = 1 /\ <<v>>[1] = v
      OBVIOUS
    <3>2. v # 0 => e.d = <<v>>
      BY <1>2, <1>4
    <3> QED  BY <3>1, <3>2, Zenon
  <2> QED  BY <1>2, <1>4, <2>1 DEF ArithValid
<1>6. Len(e.d) <= e.cap
  BY <1>1, <1>4
<1>7. Magnitude(e.d) = v /\ (v # 0 => e.d = <<v>>)
  BY <1>1, <1>2, <1>4
<1> QED  BY <1>3, <1>5, <1>6, <1>7 DEF e, f

LEMMA GetWordOf ==
  ASSUME NEW o \in Num
  PROVE  /\ \A v \in Words : LET e == GetU64(o, v)
                             IN  /\ e \in Num /\ Len(e.d) <= e.cap /\ ArithValid(e) /\ e.cap = o.cap
                                 /\ Val(e) = v /\ Magnitude(e.d) = v /\ e.sign = 1 /\ (v # 0 => e.d = <<v>>)
         /\ \A v \in IntWords : LET e == GetI64(o, v)
                                IN  /\ e \in Num /\ Len(e.d) <= e.cap /\ ArithValid(e) /\ e.cap = o.cap
                                    /\ Val(e) = v /\ Magnitude(e.d) = Mag(v) /\ e.sign = SignOf(v)
                                    /\ (v # 0 => e.d = <<Mag(v)>>)
<1>1. ASSUME NEW v \in Words
      PROVE  LET e == GetU64(o, v)
             IN  /\ e \in Num /\ Len(e.d) <= e.cap /\ ArithValid(e) /\ e.cap = o.cap
                 /\ Val(e) = v /\ Magnitude(e.d) = v /\ e.sign = 1 /\ (v # 0 => e.d = <<v>>)
  <2> DEFINE e == GetU64(o, v)
  <2>1. v \in Limb /\ v \in Nat
    BY WordTyped
  <2>2. e = [d |-> WordDigits(v), cap |-> o.cap, sign |-> 1]
    <3>1. e = [o EXCEPT !.d = WordDigits(v), !.sign = 1]
      BY DEF GetU64, WordDigits
    <3> HIDE DEF e
    <3> QED  BY <3>1, ExceptSigned
  <2> HIDE DEF e
  <2>c. o.cap \in Nat \ {0} /\ 1 \in {1, -1}
    BY NumParts
  <2>3. /\ e \in Num /\ Len(e.d) <= e.cap /\ e.sign = 1 /\ Magnitude(e.d) = v /\ ArithValid(e)
        /\ e.cap = o.cap /\ (v # 0 => e.d = <<v>>)
    <3> DEFINE a == [d |-> WordDigits(v), cap |-> o.cap, sign |-> 1]
    <3>1. /\ a \in Num /\ Len(a.d) <= a.cap /\ Magnitude(a.d) = v /\ ArithValid(a)
          /\ (v # 0 => a.d = <<v>>)
      BY <2>1, <2>c, OneWordOf
    <3>2. a.cap = o.cap /\ a.sign = 1
      OBVIOUS
    <3> HIDE DEF a
    <3>3. e = a
      BY <2>2 DEF a
    <3> QED  BY <3>1, <3>2, <3>3
  <2>4. Val(e) = v
    BY <2>1, <2>3 DEF Val
  <2> QED  BY <2>3, <2>4 DEF e
<1>2. ASSUME NEW v \in IntWords
      PROVE  LET e == GetI64(o, v)
             IN  /\ e \in Num /\ Len(e.d) <= e.cap /\ ArithValid(e) /\ e.cap = o.cap
                 /\ Val(e) = v /\ Magnitude(e.d) = Mag(v) /\ e.sign = SignOf(v)
                 /\ (v # 0 => e.d = <<Mag(v)>>)
  <2> DEFINE e == GetI64(o, v)
             m == Mag(v)
             s == SignOf(v)
  <2>1. v \in Int /\ m \in Limb /\ m \in Nat /\ s \in {1, -1} /\ v = s * m /\ (m = 0 <=> v = 0)
    BY WordTyped DEF Mag
  <2>2. v = 0 => s = 1
    BY DEF SignOf
  <2>3. e = [d |-> WordDigits(m), cap |-> o.cap, sign |-> s]
    <3>1. WordDigits(m) = IF v = 0 THEN <<>> ELSE <<m>>
      BY <2>1 DEF WordDigits
    <3>2. e = [o EXCEPT !.d = WordDigits(m), !.sign = s]
      BY <3>1 DEF GetI64
    <3> HIDE DEF e, m, s
    <3> QED  BY <3>2, ExceptSigned
  <2> HIDE DEF e, m, s
  <2>c. o.cap \in Nat \ {0}
    BY NumParts
  <2>4. /\ e \in Num /\ Len(e.d) <= e.cap /\ e.sign = s /\ Magnitude(e.d) = m /\ ArithValid(e)
        /\ e.cap = o.cap /\ (m # 0 => e.d = <<m>>)
    <3> DEFINE a == [d |-> WordDigits(m), cap |-> o.cap, sign |-> s]
    <3>1. /\ a \in Num /\ Len(a.d) <= a.cap /\ Magnitude(a.d) = m
          /\ (m = 0 => s = 1) => ArithValid(a)
          /\ (m # 0 => a.d = <<m>>)
      BY <2>1, <2>c, OneWordOf
    <3>2. a.cap = o.cap /\ a.sign = s
      OBVIOUS
    <3> HIDE DEF a
    <3>3. e = a
      BY <2>3 DEF a
    <3> QED  BY <2>1, <2>2, <3>1, <3>2, <3>3
  <2>5. Val(e) = v
    BY <2>1, <2>4 DEF Val
  <2> QED  BY <2>1, <2>4, <2>5 DEF e, m, s
<1> QED  BY <1>1, <1>2

\* The copies of a word: the unsigned one keeps the sign of an equal magnitude.
LEMMA CopyWordOf ==
  ASSUME NEW o \in Num
  PROVE  /\ \A v \in Words : LET e == CopyU64(o, v)
                             IN  /\ e \in Num /\ Len(e.d) <= e.cap /\ Magnitude(e.d) = v
                                 /\ (ArithValid(o) => ArithValid(e))
         /\ \A v \in IntWords : LET e == CopyI64(o, v)
                                IN  /\ e \in Num /\ Len(e.d) <= e.cap /\ Val(e) = v
                                    /\ (ArithValid(o) => ArithValid(e))
<1>0. o.d \in Seq(Limb) /\ o.cap \in Nat \ {0} /\ o.sign \in {1, -1} /\ Len(<<>>) = 0
  BY NumParts
<1>1. ASSUME NEW v \in Words
      PROVE  LET e == CopyU64(o, v)
             IN  /\ e \in Num /\ Len(e.d) <= e.cap /\ Magnitude(e.d) = v
                 /\ (ArithValid(o) => ArithValid(e))
  <2>1. v \in Limb
    BY WordTyped
  <2>2. CASE o.d = <<v>>
    <3>1. Len(o.d) = 1 /\ Magnitude(o.d) = v
      BY <2>1, <2>2, WordValue
    <3> QED  BY <1>0, <2>2, <3>1, SMTT(60) DEF CopyU64
  <2>3. CASE v = 0 /\ o.d = <<>>
    <3>1. Len(o.d) = 0 /\ Magnitude(o.d) = v
      BY <2>3, WordValue
    <3> QED  BY <1>0, <2>3, <3>1 DEF CopyU64
  <2>4. CASE ~ (o.d = <<v>> \/ (v = 0 /\ o.d = <<>>))
    <3>1. CopyU64(o, v) = GetU64(o, v)
      BY <2>4 DEF CopyU64
    <3> QED  BY <3>1, GetWordOf
  <2> QED  BY <2>2, <2>3, <2>4
<1>2. ASSUME NEW v \in IntWords
      PROVE  LET e == CopyI64(o, v)
             IN  /\ e \in Num /\ Len(e.d) <= e.cap /\ Val(e) = v
                 /\ (ArithValid(o) => ArithValid(e))
  <2> DEFINE e == CopyI64(o, v)
             m == Mag(v)
             s == SignOf(v)
  <2>1. v \in Int /\ m \in Limb /\ m \in Nat /\ s \in {1, -1} /\ v = s * m /\ (v = 0 => m = 0)
    BY WordTyped DEF Mag
  <2>2. CASE v = 0 /\ o.d = <<>>
    <3>1. Len(o.d) = 0 /\ Magnitude(o.d) = 0
      BY <2>2, WordValue
    <3>2. e = o
      BY <2>2 DEF CopyI64
    <3>3. Val(e) = v
      BY <1>0, <2>2, <3>1, <3>2 DEF Val
    <3> HIDE DEF e
    <3>4. e \in Num /\ Len(e.d) <= e.cap /\ (ArithValid(o) => ArithValid(e))
      BY <1>0, <3>1, <3>2
    <3> QED  BY <3>3, <3>4 DEF e
  <2>3. CASE o.d = <<m>>
    <3>1. o.d # <<>> /\ Len(o.d) = 1 /\ o.d[1] = m /\ Magnitude(o.d) = m
      BY <2>1, <2>3, WordValue
    <3>2. e = [o EXCEPT !.sign = s]
      BY <2>3, <3>1 DEF CopyI64
    <3>3. e = [d |-> o.d, cap |-> o.cap, sign |-> s]
      BY <3>2, ExceptOne
    <3> HIDE DEF e, s, m
    <3>4. e \in Num /\ e.d = o.d /\ e.cap = o.cap /\ e.sign = s
      BY <1>0, <2>1, <3>3, NumMade
    <3>5. Val(e) = v
      BY <2>1, <3>1, <3>4 DEF Val
    <3>6. ArithValid(o) => ArithValid(e)
      BY <3>1, <3>4 DEF ArithValid
    <3>7. Len(e.d) <= e.cap
      <4>1. Len(e.d) = 1
        BY <3>1, <3>4
      <4>2. e.cap \in Nat \ {0}
        BY <1>0, <3>4
      <4> QED  BY <4>1, <4>2
    <3> QED  BY <3>4, <3>5, <3>6, <3>7 DEF e
  <2>4. CASE ~ (v = 0 /\ o.d = <<>>) /\ o.d # <<m>>
    <3>1. e = GetI64(o, v)
      BY <2>4 DEF CopyI64
    <3> QED  BY <3>1, GetWordOf
  <2> QED  BY <2>2, <2>3, <2>4
<1> QED  BY <1>1, <1>2

LEMMA GetWordStep == IInv /\ GetWord => IInv' /\ Exact
<1> SUFFICES ASSUME IInv, GetWord PROVE IInv' /\ Exact
  OBVIOUS
<1>0. x \in Num
  BY DEF IInv
<1>1. ASSUME NEW v \in Words, Returns("getu64", v, Zero, GetU64(x, v)) PROVE IInv' /\ Exact
  <2> DEFINE o == GetU64(x, v)
  <2>1. o \in Num /\ Len(o.d) <= o.cap /\ ArithValid(o) /\ Val(o) = v
    BY <1>0, GetWordOf
  <2> HIDE DEF o
  <2>2. Returns("getu64", v, Zero, o) /\ v \in CallWords
    BY <1>1, CallWordsTyped DEF o
  <2>3. IInv' /\ x' = o /\ call'.op = "getu64" /\ call'.word = v
    BY <2>1, <2>2, Returned
  <2>4. Val(x') = call'.word /\ ArithValid(x)'
    BY <2>1, <2>3 DEF Val, ArithValid
  <2> QED  BY <2>3, <2>4 DEF Exact, WordOpExact, ProductMagnitude, AddSubExact, KeepsContract, Succeeds
<1>2. ASSUME NEW v \in IntWords, Returns("geti64", v, Zero, GetI64(x, v)) PROVE IInv' /\ Exact
  <2> DEFINE o == GetI64(x, v)
  <2>1. o \in Num /\ Len(o.d) <= o.cap /\ ArithValid(o) /\ Val(o) = v
    BY <1>0, GetWordOf
  <2> HIDE DEF o
  <2>2. Returns("geti64", v, Zero, o) /\ v \in CallWords
    BY <1>2, CallWordsTyped DEF o
  <2>3. IInv' /\ x' = o /\ call'.op = "geti64" /\ call'.word = v
    BY <2>1, <2>2, Returned
  <2>4. Val(x') = call'.word /\ ArithValid(x)'
    BY <2>1, <2>3 DEF Val, ArithValid
  <2> QED  BY <2>3, <2>4 DEF Exact, WordOpExact, ProductMagnitude, AddSubExact, KeepsContract, Succeeds
<1> QED  BY <1>1, <1>2 DEF GetWord

LEMMA CopyWordExact ==
  ASSUME IInv, NEW o \in Num, ArithValid(x) => ArithValid(o)
  PROVE  /\ \A v \in Words : \A op \in {"copyu64", "dcopyu64"} :
              Returns(op, v, Zero, CopyU64(o, v)) => IInv' /\ Exact
         /\ \A v \in IntWords : \A op \in {"copyi64", "dcopyi64"} :
              Returns(op, v, Zero, CopyI64(o, v)) => IInv' /\ Exact
<1>1. ASSUME NEW v \in Words, NEW op \in {"copyu64", "dcopyu64"}, Returns(op, v, Zero, CopyU64(o, v))
      PROVE  IInv' /\ Exact
  <2> DEFINE e == CopyU64(o, v)
  <2>1. e \in Num /\ Len(e.d) <= e.cap /\ Magnitude(e.d) = v /\ (ArithValid(x) => ArithValid(e))
    BY CopyWordOf
  <2> HIDE DEF e
  <2>2. Returns(op, v, Zero, e) /\ v \in CallWords
    BY <1>1, CallWordsTyped DEF e
  <2>3. IInv' /\ x' = e /\ call'.op = op /\ call'.word = v
    BY <2>1, <2>2, Returned
  <2>4. Magnitude(x'.d) = call'.word /\ (ArithValid(x) => ArithValid(x)')
    BY <2>1, <2>3 DEF ArithValid
  <2> QED  BY <2>3, <2>4 DEF Exact, WordOpExact, ProductMagnitude, AddSubExact, KeepsContract, Succeeds
<1>2. ASSUME NEW v \in IntWords, NEW op \in {"copyi64", "dcopyi64"}, Returns(op, v, Zero, CopyI64(o, v))
      PROVE  IInv' /\ Exact
  <2> DEFINE e == CopyI64(o, v)
  <2>1. e \in Num /\ Len(e.d) <= e.cap /\ Val(e) = v /\ (ArithValid(x) => ArithValid(e))
    BY CopyWordOf
  <2> HIDE DEF e
  <2>2. Returns(op, v, Zero, e) /\ v \in CallWords
    BY <1>2, CallWordsTyped DEF e
  <2>3. IInv' /\ x' = e /\ call'.op = op /\ call'.word = v
    BY <2>1, <2>2, Returned
  <2>4. Val(x') = call'.word /\ (ArithValid(x) => ArithValid(x)')
    BY <2>1, <2>3 DEF ArithValid, Val
  <2> QED  BY <2>3, <2>4 DEF Exact, WordOpExact, ProductMagnitude, AddSubExact, KeepsContract, Succeeds
<1> QED  BY <1>1, <1>2

LEMMA CopyWordStep == IInv /\ CopyWord => IInv' /\ Exact
<1> SUFFICES ASSUME IInv, CopyWord PROVE IInv' /\ Exact
  OBVIOUS
<1>1. x \in Num
  BY DEF IInv
<1> QED  BY <1>1, CopyWordExact DEF CopyWord

LEMMA DCopyWordStep == IInv /\ DCopyWord => IInv' /\ Exact
<1> SUFFICES ASSUME IInv, DCopyWord PROVE IInv' /\ Exact
  OBVIOUS
<1> DEFINE one == [x EXCEPT !.cap = 1]
<1>1. x \in Num /\ x.d \in Seq(Limb) /\ x.sign \in {1, -1}
  BY NumParts DEF IInv
<1>2. one = [d |-> x.d, cap |-> 1, sign |-> x.sign]
  BY <1>1, ExceptOne
<1> HIDE DEF one
<1>3. one \in Num /\ one.d = x.d /\ one.sign = x.sign
  <2>1. one \in Num
    <3>1. 1 \in Nat \ {0}
      OBVIOUS
    <3> QED  BY <1>1, <1>2, <3>1, NumMade
  <2>2. one.d = x.d /\ one.sign = x.sign
    BY <1>2
  <2> QED  BY <2>1, <2>2
<1>4. ArithValid(x) => ArithValid(one)
  BY <1>3 DEF ArithValid
<1>5. ASSUME NEW v \in Words, Fails("dcopyu64", v, Zero, "DNML_ALLOC_OOM") PROVE IInv' /\ Exact
  BY <1>5, FailsStep, CallWordsTyped
<1>6. ASSUME NEW v \in IntWords, Fails("dcopyi64", v, Zero, "DNML_ALLOC_OOM") PROVE IInv' /\ Exact
  BY <1>6, FailsStep, CallWordsTyped
<1>7. ASSUME NEW v \in Words, Returns("dcopyu64", v, Zero, CopyU64(one, v)) PROVE IInv' /\ Exact
  BY <1>3, <1>4, <1>7, CopyWordExact
<1>8. ASSUME NEW v \in IntWords, Returns("dcopyi64", v, Zero, CopyI64(one, v)) PROVE IInv' /\ Exact
  BY <1>3, <1>4, <1>8, CopyWordExact
<1> QED  BY <1>5, <1>6, <1>7, <1>8 DEF DCopyWord, one

\* The first n limbs of an operand, with its sign.
LEMMA AssignedOf ==
  ASSUME NEW o \in Num, NEW y \in Operands, NEW n \in 0 .. Len(y.d)
  PROVE  LET e == Assigned(o, y, n)
         IN  /\ e \in Num /\ e.cap = o.cap /\ Len(e.d) = n /\ e.sign = y.sign
             /\ n = Len(y.d) => e.d = y.d
<1> DEFINE e == Assigned(o, y, n)
           f == SubSeq(y.d, 1, n)
<1>1. y.d \in Seq(Limb) /\ y.sign \in {1, -1} /\ Len(y.d) \in Nat /\ o.cap \in Nat \ {0}
  BY OperandTyped, NumParts
<1>2. f \in Seq(Limb) /\ Len(f) = n
  BY <1>1
<1>3. n = Len(y.d) => f = y.d
  BY <1>1
<1>4. e = [o EXCEPT !.d = f, !.sign = y.sign]
  BY DEF Assigned
<1> HIDE DEF e, f
<1>5. e = [d |-> f, cap |-> o.cap, sign |-> y.sign]
  BY <1>4, ExceptSigned
<1>6. e \in Num
  BY <1>1, <1>2, <1>5, NumMade
<1>7. e.d = f /\ e.cap = o.cap /\ e.sign = y.sign
  BY <1>5
<1> QED  BY <1>2, <1>3, <1>6, <1>7 DEF e

LEMMA CopiedOf ==
  ASSUME NEW o \in Num, Len(o.d) <= o.cap, NEW y \in Operands, NEW n \in 0 .. Len(y.d), n <= o.cap
  PROVE  LET e == Copied(o, y, n)
         IN  /\ e \in Num /\ Len(e.d) <= e.cap
             /\ n = Len(y.d) => Val(e) = Val(y)
             /\ n = Len(y.d) /\ ArithValid(y) /\ (o.d = <<>> => o.sign = 1) => ArithValid(e)
<1> DEFINE e == Copied(o, y, n)
<1>1. y.d \in Seq(Limb) /\ y.sign \in {1, -1} /\ Len(y.d) \in Nat /\ o.cap \in Nat \ {0}
      /\ o.sign \in {1, -1}
  BY OperandTyped, NumParts
<1>2. CASE y.d = <<>> /\ o.d = <<>>
  <2>1. e = o
    BY <1>2 DEF Copied
  <2> HIDE DEF e
  <2>2. Magnitude(y.d) = 0 /\ Magnitude(o.d) = 0
    BY <1>2, WordValue
  <2>3. Val(e) = Val(y)
    BY <1>1, <2>1, <2>2 DEF Val
  <2>4. (o.d = <<>> => o.sign = 1) => ArithValid(e)
    BY <1>2, <2>1 DEF ArithValid
  <2> QED  BY <2>1, <2>3, <2>4 DEF e
<1>3. CASE ~ (y.d = <<>> /\ o.d = <<>>)
  <2>1. e = Assigned(o, y, n)
    BY <1>3 DEF Copied
  <2> HIDE DEF e
  <2>2. e \in Num /\ e.cap = o.cap /\ Len(e.d) = n /\ e.sign = y.sign /\ (n = Len(y.d) => e.d = y.d)
    BY <2>1, AssignedOf
  <2>3. n = Len(y.d) => Val(e) = Val(y)
    BY <2>2 DEF Val
  <2>4. n = Len(y.d) /\ ArithValid(y) => ArithValid(e)
    BY <2>2 DEF ArithValid
  <2> QED  BY <2>2, <2>3, <2>4 DEF e
<1> QED  BY <1>2, <1>3

LEMMA CutOperand ==
  ASSUME NEW y \in Operands, NEW k \in Nat
  PROVE  Len(Cut(y.d, k)) \in 0 .. Len(y.d) /\ Len(Cut(y.d, k)) <= k
<1>1. y.d \in Seq(Limb) /\ Len(y.d) \in Nat
  BY OperandTyped
<1>2. Len(Cut(y.d, k)) <= k /\ Len(Cut(y.d, k)) <= Len(y.d) /\ Len(Cut(y.d, k)) \in Nat
  BY <1>1, CutOf
<1> QED  BY <1>1, <1>2

LEMMA CopyTruncatedStep == IInv /\ CopyTruncated => IInv' /\ Exact
<1> SUFFICES ASSUME IInv, CopyTruncated PROVE IInv' /\ Exact
  OBVIOUS
<1>1. PICK y \in Operands :
        \/ Returns("tover_copy", 0, y, Copied(x, y, Len(Cut(y.d, x.cap))))
        \/ Returns("set", 0, y, Assigned(x, y, Len(Cut(y.d, x.cap))))
        \/ \E op \in {"tover_copy", "set"} : Fails(op, 0, y, "BIGINT_ERR_INVAL")
  BY DEF CopyTruncated
<1>2. "tover_copy" \notin Computing /\ "set" \notin Computing
  BY DEF Computing
<1>3. CASE \E op \in {"tover_copy", "set"} : Fails(op, 0, y, "BIGINT_ERR_INVAL")
  BY <1>3, FailsStep, CallWordsTyped
<1> DEFINE n == Len(Cut(y.d, x.cap))
<1>4. ASSUME CoreValid(x) PROVE n \in 0 .. Len(y.d) /\ n <= x.cap /\ x \in Num /\ Len(x.d) <= x.cap
  <2>1. x \in Num /\ Len(x.d) <= x.cap /\ x.cap \in Nat
    BY <1>4, UsableTyped
  <2> QED  BY <2>1, CutOperand
<1>5. CASE Returns("set", 0, y, Assigned(x, y, n))
  <2> DEFINE o == Assigned(x, y, n)
  <2>1. CoreValid(x)
    BY <1>5 DEF Returns, Hands, Usable
  <2>2. n \in 0 .. Len(y.d) /\ n <= x.cap /\ x \in Num
    BY <1>4, <2>1
  <2> HIDE DEF n
  <2>3. o \in Num /\ o.cap = x.cap /\ Len(o.d) = n
    BY <2>2, AssignedOf
  <2> HIDE DEF o
  <2>4. Len(o.d) <= o.cap
    BY <2>2, <2>3
  <2>5. Returns("set", 0, y, o)
    BY <1>5 DEF o
  <2> QED  BY <1>2, <2>3, <2>4, <2>5, CallWordsTyped, ReturnsStep
<1>6. CASE Returns("tover_copy", 0, y, Copied(x, y, n))
  <2> DEFINE o == Copied(x, y, n)
  <2>1. CoreValid(x)
    BY <1>6 DEF Returns, Hands, Usable
  <2>2. n \in 0 .. Len(y.d) /\ n <= x.cap /\ x \in Num /\ Len(x.d) <= x.cap
    BY <1>4, <2>1
  <2> HIDE DEF n
  <2>3. o \in Num /\ Len(o.d) <= o.cap
    BY <2>2, CopiedOf
  <2> HIDE DEF o
  <2>4. Returns("tover_copy", 0, y, o)
    BY <1>6 DEF o
  <2> QED  BY <1>2, <2>3, <2>4, CallWordsTyped, ReturnsStep
<1> QED  BY <1>1, <1>3, <1>5, <1>6

\* The copies that count limbs: the value of the source, and its validity.
LEMMA CopyExact ==
  ASSUME NEW op \in {"dcopy", "ocopy", "set_safe"}, NEW y \in Operands, NEW o \in Num,
         Returns(op, 0, y, o), Len(o.d) <= o.cap, Val(o) = Val(y),
         ArithValid(o) \/ ~ ArithValid(y) \/ (op # "set_safe" /\ ~ ArithValid(x))
  PROVE  IInv' /\ Exact
<1>1. IInv' /\ x' = o /\ call'.op = op /\ call'.y = y /\ call'.status = "SUCCESS"
  BY CallWordsTyped, Returned
<1>2. ArithValid(x)' = ArithValid(o) /\ Val(x') = Val(o)
  BY <1>1 DEF ArithValid, Val
<1>3. OperandsValid => KeepsContract
  BY <1>1, <1>2 DEF KeepsContract, Succeeds, OperandsValid
<1>4. WordOpExact /\ ProductMagnitude /\ AddSubExact
  BY <1>1 DEF WordOpExact, ProductMagnitude, AddSubExact, Succeeds
<1> QED  BY <1>1, <1>2, <1>3, <1>4 DEF Exact, Succeeds

LEMMA CopyIfFitsStep == IInv /\ CopyIfFits => IInv' /\ Exact
<1> SUFFICES ASSUME IInv, CopyIfFits PROVE IInv' /\ Exact
  OBVIOUS
<1>1. PICK y \in Operands :
        \/ x.cap >= Len(y.d) /\ Returns("ocopy", 0, y, Copied(x, y, Len(y.d)))
        \/ x.cap >= Len(y.d) /\ Returns("set_safe", 0, y, Assigned(x, y, Len(y.d)))
        \/ \E op \in {"ocopy", "set_safe"} : \/ Fails(op, 0, y, "BIGINT_ERR_RANGE")
                                             \/ Fails(op, 0, y, "BIGINT_ERR_INVAL")
  BY DEF CopyIfFits
<1> DEFINE n == Len(y.d)
<1>n. n \in 0 .. Len(y.d)
  BY OperandTyped
<1> HIDE DEF n
<1>2. CASE \E op \in {"ocopy", "set_safe"} : \/ Fails(op, 0, y, "BIGINT_ERR_RANGE")
                                             \/ Fails(op, 0, y, "BIGINT_ERR_INVAL")
  BY <1>2, FailsStep, CallWordsTyped
<1>3. CASE x.cap >= n /\ Returns("set_safe", 0, y, Assigned(x, y, n))
  <2> DEFINE o == Assigned(x, y, n)
  <2>1. x \in Num /\ x.cap \in Nat
    BY NumParts DEF IInv
  <2>2. o \in Num /\ o.cap = x.cap /\ Len(o.d) = n /\ o.sign = y.sign /\ o.d = y.d
    BY <1>n, <2>1, AssignedOf DEF n
  <2> HIDE DEF o
  <2>3. Len(o.d) <= o.cap /\ Val(o) = Val(y) /\ (ArithValid(y) => ArithValid(o))
    BY <1>n, <1>3, <2>1, <2>2 DEF Val, ArithValid
  <2>4. Returns("set_safe", 0, y, o)
    BY <1>3 DEF o
  <2> QED  BY <2>2, <2>3, <2>4, CopyExact
<1>4. CASE x.cap >= n /\ Returns("ocopy", 0, y, Copied(x, y, n))
  <2> DEFINE o == Copied(x, y, n)
  <2>1. CoreValid(x)
    BY <1>4 DEF Returns, Hands, Usable
  <2>2. x \in Num /\ x.cap \in Nat /\ Len(x.d) <= x.cap
    BY <2>1, UsableTyped
  <2>3. n <= x.cap /\ n = Len(y.d)
    BY <1>n, <1>4, <2>2 DEF n
  <2>4. /\ o \in Num /\ Len(o.d) <= o.cap /\ Val(o) = Val(y)
        /\ ArithValid(y) /\ (x.d = <<>> => x.sign = 1) => ArithValid(o)
    BY <1>n, <2>2, <2>3, CopiedOf
  <2> HIDE DEF o
  <2>5. ArithValid(y) /\ ArithValid(x) => ArithValid(o)
    BY <2>4 DEF ArithValid
  <2>6. Returns("ocopy", 0, y, o)
    BY <1>4 DEF o
  <2> QED  BY <2>4, <2>5, <2>6, CopyExact
<1> QED  BY <1>1, <1>2, <1>3, <1>4 DEF n

LEMMA MutDCopyStep == IInv /\ MutDCopy => IInv' /\ Exact
<1> SUFFICES ASSUME IInv, MutDCopy PROVE IInv' /\ Exact
  OBVIOUS
<1>1. PICK y \in Operands :
        \/ \E c \in Larger(1, Len(y.d)) .. MaxCap :
             \/ Returns("dcopy", 0, y, Copied([x EXCEPT !.cap = c, !.d = Cut(@, c)], y, Len(y.d)))
             \/ Fails("dcopy", 0, y, "DNML_ALLOC_OOM")
        \/ Fails("dcopy", 0, y, "BIGINT_ERR_INVAL")
  BY DEF MutDCopy
<1>2. ASSUME NEW status, status # "SUCCESS", Fails("dcopy", 0, y, status) PROVE IInv' /\ Exact
  BY <1>2, FailsStep, CallWordsTyped
<1>3. ASSUME NEW c \in Larger(1, Len(y.d)) .. MaxCap,
             Returns("dcopy", 0, y, Copied([x EXCEPT !.cap = c, !.d = Cut(@, c)], y, Len(y.d)))
      PROVE  IInv' /\ Exact
  <2> DEFINE b == [x EXCEPT !.cap = c, !.d = Cut(@, c)]
             n == Len(y.d)
             o == Copied(b, y, n)
  <2>1. x \in Num /\ x.d \in Seq(Limb) /\ x.sign \in {1, -1} /\ n \in Nat
    BY OperandTyped, NumParts DEF IInv
  <2> HIDE DEF n
  <2>2. c \in Nat \ {0} /\ c >= n
    BY <2>1, MutAssumption DEF Larger, n
  <2>3. b = [d |-> Cut(x.d, c), cap |-> c, sign |-> x.sign]
    BY <2>1, ExceptResized
  <2>4. Cut(x.d, c) \in Seq(Limb) /\ Len(Cut(x.d, c)) <= c /\ (Cut(x.d, c) = <<>> <=> x.d = <<>>)
    BY <2>1, <2>2, CutOf
  <2> HIDE DEF b
  <2>5. b \in Num
    BY <2>1, <2>2, <2>3, <2>4, NumMade
  <2>6. b.d = Cut(x.d, c) /\ b.cap = c /\ b.sign = x.sign
    BY <2>3
  <2>7. n \in 0 .. Len(y.d) /\ n <= b.cap /\ Len(b.d) <= b.cap /\ n = Len(y.d)
    BY <2>1, <2>2, <2>4, <2>6 DEF n
  <2>8. /\ o \in Num /\ Len(o.d) <= o.cap /\ Val(o) = Val(y)
        /\ ArithValid(y) /\ (b.d = <<>> => b.sign = 1) => ArithValid(o)
    BY <2>5, <2>7, CopiedOf
  <2> HIDE DEF o
  <2>9. ArithValid(x) /\ ArithValid(y) => ArithValid(o)
    BY <2>4, <2>6, <2>8 DEF ArithValid
  <2>10. Returns("dcopy", 0, y, o)
    BY <1>3 DEF o, b, n
  <2> QED  BY <2>8, <2>9, <2>10, CopyExact
<1> QED  BY <1>1, <1>2, <1>3

-----------------------------------------------------------------------------
(* Arithmetic with one word *)

\* The quotient and the remainder are the only ones.
LEMMA QuotientOf ==
  ASSUME NEW a \in Nat, NEW m \in Nat \ {0}, NEW q \in Nat, NEW r \in 0 .. m - 1, a = m * q + r
  PROVE  a \div m = q /\ a % m = r
<1> DEFINE p == a \div m
           t == a % m
<1>1. p \in Nat /\ t \in 0 .. m - 1 /\ a = m * p + t
  BY Division
<1> HIDE DEF p, t
<1>2. m * p \in Nat /\ m * q \in Nat
  BY <1>1
<1>3. ~ (m * p < m * q)
  <2>1. SUFFICES ASSUME m * p < m * q PROVE FALSE
    OBVIOUS
  <2>2. m * p + m <= m * q
    BY <1>1, <2>1, FactorBelow
  <2> QED  BY <1>1, <1>2, <2>2
<1>4. ~ (m * q < m * p)
  <2>1. SUFFICES ASSUME m * q < m * p PROVE FALSE
    OBVIOUS
  <2>2. m * q + m <= m * p
    BY <1>1, <2>1, FactorBelow
  <2> QED  BY <1>1, <1>2, <2>2
<1>5. p = q
  <2>1. ~ (p < q)
    <3>1. ASSUME p < q PROVE m * p < m * q
      <4>1. PICK j \in Nat : q = p + 1 + j
        <5>1. q - p - 1 \in Nat /\ q = p + 1 + (q - p - 1)
          BY <1>1, <3>1
        <5> QED  BY <5>1
      <4>2. m * q = m * p + m + m * j /\ m * j \in Nat
        BY <1>1, <4>1
      <4> QED  BY <1>2, <4>2
    <3> QED  BY <1>3, <3>1
  <2>2. ~ (q < p)
    <3>1. ASSUME q < p PROVE m * q < m * p
      <4>1. PICK j \in Nat : p = q + 1 + j
        <5>1. p - q - 1 \in Nat /\ p = q + 1 + (p - q - 1)
          BY <1>1, <3>1
        <5> QED  BY <5>1
      <4>2. m * p = m * q + m + m * j /\ m * j \in Nat
        BY <1>1, <4>1
      <4> QED  BY <1>2, <4>2
    <3> QED  BY <1>4, <3>1
  <2> QED  BY <1>1, <2>1, <2>2
<1>6. t = r
  <2> DEFINE z == m * q
  <2>1. a = z + t /\ a = z + r /\ z \in Nat
    BY <1>1, <1>2, <1>5
  <2> HIDE DEF z
  <2> QED  BY <1>1, <2>1
<1> QED  BY <1>5, <1>6 DEF p, t

\* The value of a number, and its quotient by t * m.
LEMMA ValOf ==
  ASSUME NEW o \in Num
  PROVE  /\ Val(o) = o.sign * Magnitude(o.d) /\ Val(o) \in Int /\ Mag(Val(o)) = Magnitude(o.d)
         /\ o.d = <<>> => Val(o) = 0 /\ Magnitude(o.d) = 0
         /\ IsOne(o) => Val(o) = o.sign /\ Magnitude(o.d) = 1 /\ o.d # <<>>
<1>1. o.sign \in {1, -1} /\ Magnitude(o.d) \in Nat
  BY NumParts
<1> DEFINE M == Magnitude(o.d)
<1>2. Val(o) = o.sign * M
  BY DEF Val
<1>3. o.d = <<>> => M = 0
  BY WordValue
<1>4. IsOne(o) => M = 1 /\ o.d # <<>>
  <2>1. 1 \in Limb /\ <<1>> # <<>>
    BY LimbsTyped
  <2> QED  BY <2>1, WordValue DEF IsOne
<1> HIDE DEF M
<1>5. M \in Nat
  BY <1>1 DEF M
<1>6. Mag(Val(o)) = M /\ Val(o) \in Int
  BY <1>1, <1>2, <1>5 DEF Mag
<1>7. (o.d = <<>> => Val(o) = 0 /\ M = 0) /\ (IsOne(o) => Val(o) = o.sign /\ M = 1 /\ o.d # <<>>)
  BY <1>1, <1>2, <1>3, <1>4
<1> QED  BY <1>2, <1>6, <1>7 DEF M

LEMMA SignMade ==
  ASSUME NEW m \in Nat \ {0}, NEW s \in {1, -1}
  PROVE  SignOf(s * m) = s /\ Mag(s * m) = m /\ s * m \in Int /\ Mag(0) = 0
BY DEF SignOf, Mag

LEMMA ValQuotient ==
  ASSUME NEW o \in Num, NEW m \in Nat \ {0}, NEW s \in {1, -1}, NEW q \in Nat, NEW r \in 0 .. m - 1,
         Magnitude(o.d) = m * q + r
  PROVE  /\ Quotient(Val(o), s * m) = o.sign * s * q
         /\ Magnitude(o.d) % m = r /\ Mag(s * m) = m
<1> DEFINE M == Magnitude(o.d)
<1>1. o.sign \in {1, -1} /\ M \in Nat /\ Val(o) = o.sign * M /\ Mag(Val(o)) = M
  BY NumParts, ValOf
<1>2. M \div m = q /\ M % m = r
  BY <1>1, QuotientOf
<1> HIDE DEF M
<1>3. SignOf(s * m) = s /\ Mag(s * m) = m
  BY SignMade
<1>4. Quotient(Val(o), s * m) = SignOf(Val(o)) * s * q
  BY <1>1, <1>2, <1>3 DEF Quotient
<1>5. CASE M # 0
  <2>1. SignOf(Val(o)) = o.sign
    BY <1>1, <1>5, SignMade
  <2> QED  BY <1>2, <1>3, <1>4, <2>1 DEF M
<1>6. CASE M = 0
  <2>1. q = 0
    <3>1. 0 = m * 0 + 0 /\ 0 \in Nat /\ 0 \in 0 .. m - 1
      OBVIOUS
    <3>2. 0 \div m = 0
      BY <3>1, QuotientOf
    <3> QED  BY <1>2, <1>6, <3>2
  <2>2. SignOf(Val(o)) \in Int /\ o.sign \in Int
    BY <1>1 DEF SignOf
  <2>3. SignOf(Val(o)) * s \in Int /\ o.sign * s \in Int
    BY <2>2
  <2> QED  BY <1>2, <1>3, <1>4, <2>1, <2>3 DEF M
<1> QED  BY <1>5, <1>6

LEMMA ResetTo ==
  ASSUME NEW o \in Num
  PROVE  /\ ResetOf(o) \in Num /\ Len(ResetOf(o).d) <= ResetOf(o).cap /\ Val(ResetOf(o)) = 0
         /\ ArithValid(ResetOf(o)) /\ Magnitude(ResetOf(o).d) = 0
<1> DEFINE e == ResetOf(o)
<1>1. o.cap \in Nat \ {0} /\ <<>> \in Seq(Limb) /\ Len(<<>>) = 0
  BY NumParts
<1>2. e = [d |-> <<>>, cap |-> o.cap, sign |-> 1]
  BY ExceptSigned DEF ResetOf
<1> HIDE DEF e
<1>3. e \in Num
  BY <1>1, <1>2, NumMade
<1>4. e.d = <<>> /\ e.cap = o.cap /\ e.sign = 1
  BY <1>2
<1>5. Val(e) = 0 /\ Magnitude(e.d) = 0
  BY <1>3, <1>4, ValOf
<1> QED  BY <1>1, <1>3, <1>4, <1>5 DEF e, ArithValid

\* A number whose sign is multiplied by s.
LEMMA SignedOf ==
  ASSUME NEW o \in Num, NEW s \in {1, -1}
  PROVE  LET e == [o EXCEPT !.sign = @ * s]
         IN  /\ e \in Num /\ e.d = o.d /\ e.cap = o.cap /\ e.sign = o.sign * s /\ Val(e) = Val(o) * s
             /\ ArithValid(o) /\ o.d # <<>> => ArithValid(e)
<1> DEFINE e == [o EXCEPT !.sign = @ * s]
           t == o.sign * s
<1>1. o.d \in Seq(Limb) /\ o.cap \in Nat \ {0} /\ o.sign \in {1, -1} /\ Magnitude(o.d) \in Nat
  BY NumParts
<1>2. e = [d |-> o.d, cap |-> o.cap, sign |-> t]
  BY ExceptOne
<1>3. t \in {1, -1}
  BY <1>1
<1> HIDE DEF e, t
<1>4. e \in Num
  BY <1>1, <1>2, <1>3, NumMade
<1>5. e.d = o.d /\ e.cap = o.cap /\ e.sign = t
  BY <1>2
<1>6. Val(e) = Val(o) * s
  <2>1. CASE s = 1
    BY <1>1, <1>5, <2>1 DEF t, Val
  <2>2. CASE s = -1
    BY <1>1, <1>5, <2>2 DEF t, Val
  <2> QED  BY <2>1, <2>2
<1>7. ArithValid(o) /\ o.d # <<>> => ArithValid(e)
  BY <1>5 DEF ArithValid
<1> QED  BY <1>4, <1>5, <1>6, <1>7 DEF e, t

\* The quotient of a number by a word, rounded towards zero.
LEMMA DividedOf ==
  ASSUME NEW o \in Num, Len(o.d) <= o.cap, NEW m \in Limb \ {0}, NEW s \in {1, -1}
  PROVE  LET e == Divided(o, m, s)
         IN  /\ e \in Num /\ Len(e.d) <= e.cap /\ ArithValid(e)
             /\ Val(e) = Quotient(Val(o), s * m)
<1> DEFINE e == Divided(o, m, s)
           q == DivModWord(o.d, m).quot
           r == DivModWord(o.d, m).rem
           t == o.sign * s
           b == [d |-> q, cap |-> o.cap, sign |-> t]
<1>1. /\ o.d \in Seq(Limb) /\ o.cap \in Nat \ {0} /\ o.sign \in {1, -1} /\ Len(o.d) \in Nat
      /\ m \in Nat \ {0}
  BY NumParts, LimbsTyped
<1>2. q \in Seq(Limb) /\ Len(q) <= Len(o.d) /\ r \in 0 .. m - 1 /\ Magnitude(o.d) = m * Magnitude(q) + r
  BY <1>1, DivModWordOf
<1>3. e = Normalized([o EXCEPT !.d = q, !.sign = t])
  BY DEF Divided
<1> HIDE DEF q, r
<1>4. [o EXCEPT !.d = q, !.sign = t] = b
  BY ExceptSigned
<1>5. t \in {1, -1}
  BY <1>1
<1> HIDE DEF t
<1>6. b \in Num
  BY <1>1, <1>2, <1>5, NumMade
<1>7. b.d = q /\ b.cap = o.cap /\ b.sign = t
  OBVIOUS
<1> HIDE DEF b, e
<1>8. e = Normalized(b)
  BY <1>3, <1>4
<1>9. e \in Num /\ Len(e.d) <= Len(b.d) /\ e.cap = b.cap /\ Val(e) = Val(b) /\ ArithValid(e)
  BY <1>6, <1>8, NormalizedOf
<1>10. Len(e.d) \in Nat /\ Len(b.d) \in Nat
  BY <1>6, <1>9, NumParts
<1>11. Magnitude(q) \in Nat
  BY <1>6, <1>7, NumParts
<1>12. Quotient(Val(o), s * m) = t * Magnitude(q)
  BY <1>1, <1>2, <1>11, ValQuotient, ZenonT(60) DEF t
<1>13. Val(b) = t * Magnitude(q)
  BY <1>7 DEF Val
<1> QED  BY <1>1, <1>2, <1>7, <1>9, <1>10, <1>12, <1>13 DEF e

\* A product by a word keeps its top limb from zero.
LEMMA MulWordTop ==
  ASSUME NEW d \in Seq(Limb), d # <<>>, d[Len(d)] # 0, NEW v \in Limb \ {0}
  PROVE  MulWord(d, v) # <<>> /\ MulWord(d, v)[Len(MulWord(d, v))] # 0
<1> DEFINE n == Len(d)
           c == Carries(d, v)
           u == [i \in 1 .. n |-> (d[i] * v + c[i - 1]) % Radix]
           all == IF c[n] = 0 THEN u ELSE Append(u, c[n])
<1>1. n \in Nat \ {0} /\ Radix \in Nat \ {0} /\ v \in Nat \ {0} /\ d[n] \in Nat \ {0}
  BY DigitTyped, LimbsTyped, ByteRangeDivides
<1>2. (\A i \in 0 .. n : c[i] \in Limb) /\ \A i \in 1 .. n : c[i] = (d[i] * v + c[i - 1]) \div Radix
  BY CarriesOf
<1>3. MulWord(d, v) = IF IsPowerOf2(v) THEN Trim(all) ELSE all
  BY DEF MulWord
<1> HIDE DEF c
<1>4. ASSUME NEW i \in 1 .. n PROVE (d[i] * v + c[i - 1]) % Radix \in Limb
  <2>1. d[i] \in Nat /\ c[i - 1] \in Nat
    <3>1. i - 1 \in 0 .. n
      BY <1>1
    <3> QED  BY <1>2, <3>1, DigitTyped, LimbsTyped
  <2>2. d[i] * v + c[i - 1] \in Nat
    BY <1>1, <2>1
  <2> QED  BY <1>1, <2>2, Division DEF Limb
<1>5. u \in Seq(Limb) /\ Len(u) = n
  BY <1>1, <1>4
<1>6. c[n] = 0 => u[n] # 0
  <2> DEFINE t == d[n] * v + c[n - 1]
  <2>1. t \in Nat \ {0}
    <3>1. n - 1 \in 0 .. n
      BY <1>1
    <3>2. c[n - 1] \in Nat
      BY <1>2, <3>1, LimbsTyped
    <3>3. d[n] * v \in Nat \ {0}
      BY <1>1
    <3> QED  BY <3>2, <3>3
  <2>2. c[n] = t \div Radix /\ u[n] = t % Radix
    BY <1>1, <1>2
  <2> HIDE DEF t, u
  <2>3. t = Radix * (t \div Radix) + (t % Radix)
    BY <1>1, <2>1, Division
  <2>4. c[n] = 0 => t = Radix * 0 + u[n]
    BY <2>2, <2>3
  <2> QED  BY <1>1, <2>1, <2>4
<1> HIDE DEF u
<1>7. all \in Seq(Limb) /\ all # <<>> /\ all[Len(all)] # 0
  <2>1. CASE c[n] = 0
    BY <1>1, <1>5, <1>6, <2>1
  <2>2. CASE c[n] # 0
    <3>1. c[n] \in Limb
      BY <1>1, <1>2
    <3> QED  BY <1>5, <2>2, <3>1
  <2> QED  BY <2>1, <2>2
<1> HIDE DEF all
<1>8. Trim(all) # <<>>
  <2> DEFINE l == Len(all)
  <2>1. l \in Nat \ {0} /\ l \in DOMAIN all
    BY <1>7
  <2>2. LimbAt(all, l) # 0
    BY <1>7, <2>1 DEF LimbAt
  <2> HIDE DEF l
  <2>3. LimbAt(Trim(all), l) # 0
    BY <1>7, <2>1, <2>2, TrimOf
  <2> QED  BY <2>3 DEF LimbAt
<1>9. Trim(all)[Len(Trim(all))] # 0
  BY <1>7, <1>8, TrimOf
<1> QED  BY <1>3, <1>7, <1>8, <1>9

LEMMA MagCompWordOf ==
  ASSUME NEW d \in Seq(Limb), d # <<>>, NEW v \in Limb
  PROVE  /\ MagCompWord(d, v) = -1 => Magnitude(d) < v
         /\ MagCompWord(d, v) = 0 => Magnitude(d) = v
<1>1. Len(d) \in Nat \ {0} /\ d[1] \in Limb /\ d[1] \in Nat /\ v \in Nat
  BY DigitTyped, LimbsTyped
<1>2. Len(d) = 1 => Magnitude(d) = d[1]
  <2>1. SUFFICES ASSUME Len(d) = 1 PROVE Magnitude(d) = d[1]
    OBVIOUS
  <2>2. d = <<d[1]>>
    BY <2>1
  <2>3. Magnitude(<<d[1]>>) = d[1]
    BY <1>1, WordValue
  <2> QED  BY <2>2, <2>3
<1> DEFINE n == Len(d)
           l == d[1]
           A == n > 1 \/ l > v
           B == n = 1 /\ l < v
<1>3. MagCompWord(d, v) = CASE A -> 1 [] B -> -1 [] OTHER -> 0
  BY DEF MagCompWord
<1>4. n \in Nat \ {0} /\ l \in Nat /\ (n = 1 => Magnitude(d) = l)
  BY <1>1, <1>2
<1> HIDE DEF n, l
<1>5. A => ~ B
  BY <1>1, <1>4
<1>6. ~ A /\ ~ B => n = 1 /\ l = v
  BY <1>1, <1>4
<1>7. B => n = 1 /\ l < v
  OBVIOUS
<1> HIDE DEF A, B
<1>8. MagCompWord(d, v) = -1 => B
  BY <1>3
<1>9. MagCompWord(d, v) = 0 => ~ A /\ ~ B
  BY <1>3, <1>5
<1> QED  BY <1>4, <1>6, <1>7, <1>8, <1>9

\* What a call with one word owes of the number o it returns.
WordRight(op, v, o) ==
  /\ op = "mulu64" /\ ~ (IsOne(x) /\ x.sign = -1 /\ v > 1) => Val(o) = Val(x) * v
  /\ op = "muli64" /\ ~ (IsOne(x) /\ Mag(v) > 1 /\ x.sign # SignOf(v)) => Val(o) = Val(x) * v
  /\ op = "divu64" /\ ~ (IsOne(x) /\ v = 1) => Val(o) = Quotient(Val(x), v)
  /\ op = "divi64" => Val(o) = Quotient(Val(x), v)
  /\ op = "modu64" => Val(o) = Val(x) - v * Quotient(Val(x), v)
  /\ op = "modi64" => Mag(Val(o)) = Mag(Val(x)) % Mag(v)
  /\ op \in {"mulu64", "muli64", "divu64", "modi64"} => ArithValid(o)

LEMMA WordStep ==
  ASSUME NEW op \in WordOps \cup IntOps, NEW v \in CallWords, NEW o \in Num, Returns(op, v, Zero, o),
         Len(o.d) <= o.cap, WordRight(op, v, o)
  PROVE  IInv' /\ Exact
<1>1. IInv' /\ x' = o /\ call'.op = op /\ call'.word = v /\ call'.status = "SUCCESS"
  BY Returned
<1>2. ArithValid(x)' = ArithValid(o) /\ Val(x') = Val(o)
  BY <1>1 DEF ArithValid, Val
<1>3. op \in {"mulu64", "muli64", "divu64", "divi64", "modu64", "modi64"}
  BY DEF WordOps, IntOps
<1>4. WordOpExact
  BY <1>1, <1>2 DEF WordOpExact, WordRight, Succeeds
<1>5. KeepsContract
  BY <1>1, <1>2, <1>3 DEF WordRight, KeepsContract, Succeeds
<1> QED  BY <1>1, <1>3, <1>4, <1>5 DEF Exact, ProductMagnitude, AddSubExact, Succeeds

\* The object every arithmetic call finds, and the words it is called with.
LEMMA Accepted ==
  ASSUME IInv, CoreValid(x), MayAccept(x)
  PROVE  /\ x \in Num /\ x.d \in Seq(Limb) /\ x.cap \in Nat \ {0} /\ x.sign \in {1, -1}
         /\ Len(x.d) \in Nat /\ Len(x.d) <= x.cap /\ Magnitude(x.d) \in Nat /\ ArithValid(x)
         /\ Val(x) = x.sign * Magnitude(x.d) /\ Val(x) \in Int /\ Mag(Val(x)) = Magnitude(x.d)
         /\ x.d = <<>> => Val(x) = 0 /\ Magnitude(x.d) = 0 /\ x.sign = 1
         /\ IsOne(x) => Val(x) = x.sign /\ Magnitude(x.d) = 1 /\ x.d # <<>>
         /\ x.d # <<>> => x.d[Len(x.d)] # 0
BY UsableTyped, ValOf DEF MayAccept, ArithValid

\* What a word makes of the number 0, and of one that has no more limbs.
LEMMA QuotientOfNothing ==
  ASSUME NEW m \in Nat \ {0}, NEW s \in {1, -1}
  PROVE  Quotient(0, s * m) = 0 /\ 0 % m = 0
<1>1. 0 = m * 0 + 0 /\ 0 \in Nat /\ 0 \in 0 .. m - 1
  OBVIOUS
<1>2. 0 \div m = 0 /\ 0 % m = 0
  BY <1>1, QuotientOf
<1>3. Mag(0) = 0 /\ SignOf(0) = 1 /\ SignOf(s * m) = s /\ Mag(s * m) = m
  BY SignMade DEF SignOf
<1> QED  BY <1>2, <1>3 DEF Quotient

\* A limb that is written over the number: what remains of it.
LEMMA OneLimb ==
  ASSUME NEW o \in Num, NEW v \in Limb \ {0}, NEW s \in {1, -1}
  PROVE  LET e == [d |-> <<v>>, cap |-> o.cap, sign |-> s]
         IN  e \in Num /\ Len(e.d) <= e.cap /\ ArithValid(e) /\ Val(e) = s * v /\ Magnitude(e.d) = v
<1> DEFINE e == [d |-> <<v>>, cap |-> o.cap, sign |-> s]
<1>1. v \in Limb /\ o.cap \in Nat \ {0} /\ v # 0
  BY NumParts
<1>2. WordDigits(v) = <<v>>
  BY DEF WordDigits
<1>3. e \in Num /\ Len(e.d) <= e.cap /\ Magnitude(e.d) = v /\ ArithValid(e)
  <2> DEFINE b == [d |-> WordDigits(v), cap |-> o.cap, sign |-> s]
  <2>1. b \in Num /\ Len(b.d) <= b.cap /\ Magnitude(b.d) = v /\ ArithValid(b)
    BY <1>1, OneWordOf
  <2>2. b = e
    BY <1>2
  <2> HIDE DEF b, e
  <2> QED  BY <2>1, <2>2
<1>4. Val(e) = s * v
  BY <1>3 DEF Val
<1> QED  BY <1>3, <1>4

LEMMA MutMulU64Step == IInv /\ MutMulU64 => IInv' /\ Exact
<1> SUFFICES ASSUME IInv, MutMulU64 PROVE IInv' /\ Exact
  OBVIOUS
<1>1. PICK v \in Words :
        /\ MayAccept(x)
        /\ \/ (x.d = <<>> \/ v = 1) /\ Returns("mulu64", v, Zero, x)
           \/ x.d # <<>> /\ v = 0 /\ Returns("mulu64", v, Zero, ResetOf(x))
           \/ IsOne(x) /\ v > 1 /\ Returns("mulu64", v, Zero, CopyU64(x, v))
           \/ /\ x.d # <<>> /\ ~IsOne(x) /\ v > 1
              /\ Reserving("mulu64", v, Zero, Len(x.d) + 1,
                           [EnsCap(x, Len(x.d) + 1) EXCEPT !.d = MulWord(x.d, v)])
  BY DEF MutMulU64
<1>2. CoreValid(x)
  BY <1>1 DEF Reserving, Returns, Hands, Fails, Usable
<1>3. v \in Limb /\ v \in Nat /\ v \in CallWords /\ "mulu64" \in WordOps \cup IntOps
  BY WordTyped, CallWordsTyped DEF WordOps
<1>4. /\ x \in Num /\ x.d \in Seq(Limb) /\ x.cap \in Nat \ {0} /\ x.sign \in {1, -1}
      /\ Len(x.d) \in Nat /\ Len(x.d) <= x.cap /\ Magnitude(x.d) \in Nat /\ ArithValid(x)
      /\ Val(x) = x.sign * Magnitude(x.d) /\ Val(x) \in Int
      /\ x.d = <<>> => Val(x) = 0
      /\ IsOne(x) => Val(x) = x.sign
      /\ x.d # <<>> => x.d[Len(x.d)] # 0
  BY <1>1, <1>2, Accepted
<1>5. CASE (x.d = <<>> \/ v = 1) /\ Returns("mulu64", v, Zero, x)
  <2>1. Val(x) = Val(x) * v
    BY <1>3, <1>4, <1>5
  <2>2. WordRight("mulu64", v, x)
    BY <1>4, <2>1 DEF WordRight
  <2> QED  BY <1>3, <1>4, <1>5, <2>2, WordStep
<1>6. CASE v = 0 /\ Returns("mulu64", v, Zero, ResetOf(x))
  <2>1. /\ ResetOf(x) \in Num /\ Len(ResetOf(x).d) <= ResetOf(x).cap /\ Val(ResetOf(x)) = 0
        /\ ArithValid(ResetOf(x))
    BY <1>4, ResetTo
  <2>2. Val(ResetOf(x)) = Val(x) * v
    BY <1>4, <1>6, <2>1
  <2>3. WordRight("mulu64", v, ResetOf(x))
    BY <2>1, <2>2 DEF WordRight
  <2> QED  BY <1>3, <1>6, <2>1, <2>3, WordStep
<1>7. CASE IsOne(x) /\ v > 1 /\ Returns("mulu64", v, Zero, CopyU64(x, v))
  <2> DEFINE o == CopyU64(x, v)
  <2>1. o \in Num /\ Len(o.d) <= o.cap /\ ArithValid(o)
    BY <1>4, CopyWordOf
  <2>2. o = GetU64(x, v)
    <3>1. <<1>> # <<v>> /\ x.d = <<1>>
      BY <1>7 DEF IsOne
    <3> QED  BY <1>3, <1>7, <3>1 DEF CopyU64
  <2>3. Val(o) = v
    BY <1>4, <2>2, GetWordOf
  <2> HIDE DEF o
  <2>4. x.sign = 1 => Val(o) = Val(x) * v
    BY <1>3, <1>4, <1>7, <2>3
  <2>5. WordRight("mulu64", v, o)
    BY <1>4, <1>7, <2>1, <2>4 DEF WordRight
  <2>6. Returns("mulu64", v, Zero, o)
    BY <1>7 DEF o
  <2> QED  BY <1>3, <2>1, <2>5, <2>6, WordStep
<1>8. CASE /\ x.d # <<>> /\ ~IsOne(x) /\ v > 1
           /\ Reserving("mulu64", v, Zero, Len(x.d) + 1,
                        [EnsCap(x, Len(x.d) + 1) EXCEPT !.d = MulWord(x.d, v)])
  <2> DEFINE k == Len(x.d) + 1
             b == EnsCap(x, k)
             f == MulWord(x.d, v)
             o == [b EXCEPT !.d = f]
  <2>1. k \in Nat
    BY <1>4
  <2>2. b \in Num /\ b.cap \in Nat \ {0} /\ b.cap >= k /\ b.sign = x.sign
    BY <1>4, <2>1, Reserved
  <2>3. f \in Seq(Limb) /\ Len(f) <= k /\ Magnitude(f) = v * Magnitude(x.d) /\ Len(f) \in Nat
    BY <1>3, <1>4, MulWordOf, DigitTyped
  <2>4. f # <<>> /\ f[Len(f)] # 0
    BY <1>3, <1>4, <1>8, MulWordTop
  <2> HIDE DEF f, b, k
  <2>5. o = [d |-> f, cap |-> b.cap, sign |-> x.sign]
    BY <2>2, ExceptOne, ZenonT(60)
  <2> HIDE DEF o
  <2>6. o \in Num
    BY <1>4, <2>2, <2>3, <2>5, NumMade
  <2>7. o.d = f /\ o.cap = b.cap /\ o.sign = x.sign
    BY <2>5
  <2>8. Len(o.d) <= o.cap
    BY <2>1, <2>2, <2>3, <2>7
  <2>9. ArithValid(o)
    BY <2>4, <2>7 DEF ArithValid
  <2>10. Val(o) = Val(x) * v
    BY <1>3, <1>4, <2>3, <2>7 DEF Val
  <2>11. Reserving("mulu64", v, Zero, k, o)
    BY <1>8 DEF o, b, f, k
  <2>12. IInv' /\ (Exact \/ Returns("mulu64", v, Zero, o))
    BY <1>3, <2>6, <2>8, <2>11, ReservingStep
  <2>13. WordRight("mulu64", v, o)
    BY <2>9, <2>10 DEF WordRight
  <2> QED  BY <1>3, <2>6, <2>8, <2>12, <2>13, WordStep
<1> QED  BY <1>1, <1>5, <1>6, <1>7, <1>8

LEMMA MutMulI64Step == IInv /\ MutMulI64 => IInv' /\ Exact
<1> SUFFICES ASSUME IInv, MutMulI64 PROVE IInv' /\ Exact
  OBVIOUS
<1> DEFINE Signed(o, v) == [o EXCEPT !.sign = @ * SignOf(v)]
<1>1. PICK v \in IntWords :
        /\ MayAccept(x)
        /\ \/ x.d = <<>> /\ Returns("muli64", v, Zero, x)
           \/ x.d # <<>> /\ v = 0 /\ Returns("muli64", v, Zero, ResetOf(x))
           \/ x.d # <<>> /\ v \in {1, -1} /\ Returns("muli64", v, Zero, Signed(x, v))
           \/ IsOne(x) /\ Mag(v) > 1 /\ Returns("muli64", v, Zero, Signed(CopyI64(x, v), v))
           \/ /\ x.d # <<>> /\ ~IsOne(x) /\ Mag(v) > 1
              /\ Reserving("muli64", v, Zero, Len(x.d) + 1,
                           Signed([EnsCap(x, Len(x.d) + 1) EXCEPT !.d = MulWord(x.d, Mag(v))], v))
  BY DEF MutMulI64
<1>2. CoreValid(x)
  BY <1>1 DEF Reserving, Returns, Hands, Fails, Usable
<1> DEFINE m == Mag(v)
           s == SignOf(v)
<1>3. /\ v \in CallWords /\ "muli64" \in WordOps \cup IntOps
      /\ v \in Int /\ m \in Limb /\ m \in Nat /\ s \in {1, -1} /\ v = s * m /\ (v # 0 => m # 0)
  BY WordTyped, CallWordsTyped DEF IntOps
<1>4. /\ x \in Num /\ x.d \in Seq(Limb) /\ x.cap \in Nat \ {0} /\ x.sign \in {1, -1}
      /\ Len(x.d) \in Nat /\ Len(x.d) <= x.cap /\ Magnitude(x.d) \in Nat /\ ArithValid(x)
      /\ Val(x) = x.sign * Magnitude(x.d) /\ Val(x) \in Int
      /\ x.d = <<>> => Val(x) = 0
      /\ IsOne(x) => Val(x) = x.sign
      /\ x.d # <<>> => x.d[Len(x.d)] # 0
  BY <1>1, <1>2, Accepted
<1>5. CASE x.d = <<>> /\ Returns("muli64", v, Zero, x)
  <2>1. Val(x) = Val(x) * v
    BY <1>3, <1>4, <1>5
  <2>2. WordRight("muli64", v, x)
    BY <1>4, <2>1 DEF WordRight
  <2> QED  BY <1>3, <1>4, <1>5, <2>2, WordStep
<1>6. CASE v = 0 /\ Returns("muli64", v, Zero, ResetOf(x))
  <2>1. /\ ResetOf(x) \in Num /\ Len(ResetOf(x).d) <= ResetOf(x).cap /\ Val(ResetOf(x)) = 0
        /\ ArithValid(ResetOf(x))
    BY <1>4, ResetTo
  <2>2. Val(ResetOf(x)) = Val(x) * v
    BY <1>4, <1>6, <2>1
  <2>3. WordRight("muli64", v, ResetOf(x))
    BY <2>1, <2>2 DEF WordRight
  <2> QED  BY <1>3, <1>6, <2>1, <2>3, WordStep
<1>7. CASE x.d # <<>> /\ v \in {1, -1} /\ Returns("muli64", v, Zero, Signed(x, v))
  <2> DEFINE o == Signed(x, v)
  <2>1. o \in Num /\ o.d = x.d /\ o.cap = x.cap /\ Val(o) = Val(x) * s /\ ArithValid(o)
    BY <1>3, <1>4, <1>7, SignedOf
  <2>2. s = v
    BY <1>7 DEF SignOf
  <2>3. Returns("muli64", v, Zero, o) /\ Len(o.d) <= o.cap
    BY <1>4, <1>7, <2>1
  <2> HIDE DEF o, s
  <2>4. Val(o) = Val(x) * v
    BY <2>1, <2>2
  <2>5. WordRight("muli64", v, o)
    BY <2>1, <2>4 DEF WordRight
  <2> QED  BY <1>3, <2>1, <2>3, <2>5, WordStep
<1>8. CASE IsOne(x) /\ m > 1 /\ Returns("muli64", v, Zero, Signed(CopyI64(x, v), v))
  <2> DEFINE b == CopyI64(x, v)
             o == Signed(b, v)
  <2>1. b \in Num /\ Len(b.d) <= b.cap /\ Val(b) = v /\ ArithValid(b)
    BY <1>4, CopyWordOf
  <2> HIDE DEF b
  <2>2. b.d # <<>>
    <3>1. v # 0
      BY <1>8 DEF Mag
    <3> QED  BY <2>1, <3>1, ValOf
  <2>3. o \in Num /\ o.d = b.d /\ o.cap = b.cap /\ Val(o) = Val(b) * s /\ ArithValid(o)
    BY <1>3, <2>1, <2>2, SignedOf
  <2>4. Returns("muli64", v, Zero, o) /\ Len(o.d) <= o.cap
    BY <1>8, <2>1, <2>3 DEF b
  <2> HIDE DEF o
  <2>5. x.sign = s => Val(o) = Val(x) * v
    BY <1>3, <1>4, <1>8, <2>1, <2>3
  <2>6. WordRight("muli64", v, o)
    BY <1>8, <2>3, <2>5 DEF WordRight
  <2> QED  BY <1>3, <2>3, <2>4, <2>6, WordStep
<1>9. CASE /\ x.d # <<>> /\ m > 1
           /\ Reserving("muli64", v, Zero, Len(x.d) + 1,
                        Signed([EnsCap(x, Len(x.d) + 1) EXCEPT !.d = MulWord(x.d, m)], v))
  <2> DEFINE k == Len(x.d) + 1
             b == EnsCap(x, k)
             f == MulWord(x.d, m)
             e == [b EXCEPT !.d = f]
             o == Signed(e, v)
  <2>1. k \in Nat
    BY <1>4
  <2>2. b \in Num /\ b.cap \in Nat \ {0} /\ b.cap >= k /\ b.sign = x.sign
    BY <1>4, <2>1, Reserved
  <2>3. f \in Seq(Limb) /\ Len(f) <= k /\ Magnitude(f) = m * Magnitude(x.d) /\ Len(f) \in Nat
    BY <1>3, <1>4, MulWordOf, DigitTyped
  <2>4. f # <<>> /\ f[Len(f)] # 0
    BY <1>3, <1>4, <1>9, MulWordTop
  <2> HIDE DEF f, b, k
  <2>5. e = [d |-> f, cap |-> b.cap, sign |-> x.sign]
    BY <2>2, ExceptOne
  <2> HIDE DEF e
  <2>6. e \in Num
    BY <1>4, <2>2, <2>3, <2>5, NumMade
  <2>7. e.d = f /\ e.cap = b.cap /\ e.sign = x.sign
    BY <2>5
  <2>8. ArithValid(e)
    BY <2>4, <2>7 DEF ArithValid
  <2>9. Val(e) = Val(x) * m
    BY <1>3, <1>4, <2>3, <2>7 DEF Val
  <2>10. o \in Num /\ o.d = f /\ o.cap = b.cap /\ Val(o) = Val(e) * s /\ ArithValid(o)
    BY <1>3, <2>4, <2>6, <2>7, <2>8, SignedOf
  <2>11. Reserving("muli64", v, Zero, k, o)
    BY <1>9 DEF o, e, b, f, k
  <2> HIDE DEF o, s, m
  <2>12. Val(o) = Val(x) * v
    BY <1>3, <1>4, <2>9, <2>10
  <2>13. Len(o.d) <= o.cap
    BY <2>1, <2>2, <2>3, <2>10
  <2>14. IInv' /\ (Exact \/ Returns("muli64", v, Zero, o))
    BY <1>3, <2>10, <2>11, <2>13, ReservingStep
  <2>15. WordRight("muli64", v, o)
    BY <2>10, <2>12 DEF WordRight
  <2> QED  BY <1>3, <2>10, <2>13, <2>14, <2>15, WordStep
<1> QED  BY <1>1, <1>5, <1>6, <1>7, <1>8, <1>9

\* A word that leaves the magnitude as it is, and one above it.
LEMMA SmallQuotient ==
  ASSUME NEW o \in Num, NEW m \in Nat \ {0}, NEW s \in {1, -1}
  PROVE  /\ m = 1 => Quotient(Val(o), s * m) = s * Val(o) /\ Magnitude(o.d) % m = 0
         /\ Magnitude(o.d) < m => Quotient(Val(o), s * m) = 0 /\ Magnitude(o.d) % m = Magnitude(o.d)
         /\ Magnitude(o.d) = m => Quotient(Val(o), s * m) = o.sign * s /\ Magnitude(o.d) % m = 0
<1> DEFINE M == Magnitude(o.d)
<1>1. o.sign \in {1, -1} /\ M \in Nat /\ Val(o) = o.sign * M
  BY NumParts, ValOf
<1>2. ASSUME m = 1 PROVE Quotient(Val(o), s * m) = s * Val(o) /\ M % m = 0
  <2>1. M = m * M + 0 /\ 0 \in 0 .. m - 1
    BY <1>1, <1>2
  <2>2. Quotient(Val(o), s * m) = o.sign * s * M /\ M % m = 0
    BY <1>1, <2>1, ValQuotient, ZenonT(60)
  <2> QED  BY <1>1, <2>2
<1>3. ASSUME M < m PROVE Quotient(Val(o), s * m) = 0 /\ M % m = M
  <2>1. M = m * 0 + M /\ M \in 0 .. m - 1 /\ 0 \in Nat
    BY <1>1, <1>3
  <2>2. Quotient(Val(o), s * m) = o.sign * s * 0 /\ M % m = M
    BY <2>1, ValQuotient
  <2> QED  BY <1>1, <2>2
<1>4. ASSUME M = m PROVE Quotient(Val(o), s * m) = o.sign * s /\ M % m = 0
  <2>1. M = m * 1 + 0 /\ 0 \in 0 .. m - 1 /\ 1 \in Nat
    BY <1>4
  <2>2. Quotient(Val(o), s * m) = o.sign * s * 1 /\ M % m = 0
    BY <2>1, ValQuotient, ZenonT(60)
  <2> QED  BY <1>1, <2>2
<1> QED  BY <1>2, <1>3, <1>4

LEMMA MutDivU64Step == IInv /\ MutDivU64 => IInv' /\ Exact
<1> SUFFICES ASSUME IInv, MutDivU64 PROVE IInv' /\ Exact
  OBVIOUS
<1>1. PICK v \in Words \ {0} :
        /\ MayAccept(x)
        /\ \/ IsOne(x) /\ Returns("divu64", v, Zero, ResetOf(x))
           \/ ~IsOne(x) /\ (x.d = <<>> \/ v = 1) /\ Returns("divu64", v, Zero, x)
           \/ ~IsOne(x) /\ x.d # <<>> /\ v > 1 /\ Returns("divu64", v, Zero, Divided(x, v, 1))
  BY DEF MutDivU64
<1>2. CoreValid(x)
  BY <1>1 DEF Returns, Hands, Usable
<1>3. /\ v \in Limb \ {0} /\ v \in Nat \ {0} /\ v \in CallWords /\ "divu64" \in WordOps \cup IntOps
      /\ 1 * v = v /\ 1 \in {1, -1}
  BY WordTyped, CallWordsTyped DEF WordOps
<1>4. /\ x \in Num /\ x.d \in Seq(Limb) /\ x.cap \in Nat \ {0} /\ x.sign \in {1, -1}
      /\ Len(x.d) \in Nat /\ Len(x.d) <= x.cap /\ Magnitude(x.d) \in Nat /\ ArithValid(x)
      /\ Val(x) = x.sign * Magnitude(x.d) /\ Val(x) \in Int
      /\ x.d = <<>> => Val(x) = 0 /\ Magnitude(x.d) = 0
      /\ IsOne(x) => Val(x) = x.sign /\ Magnitude(x.d) = 1
  BY <1>1, <1>2, Accepted
<1>q. /\ v = 1 => Quotient(Val(x), v) = Val(x)
      /\ Magnitude(x.d) < v => Quotient(Val(x), v) = 0
  <2>1. /\ v = 1 => Quotient(Val(x), 1 * v) = 1 * Val(x)
        /\ Magnitude(x.d) < v => Quotient(Val(x), 1 * v) = 0
    BY <1>3, <1>4, SmallQuotient
  <2> QED  BY <1>3, <1>4, <2>1
<1>5. CASE IsOne(x) /\ Returns("divu64", v, Zero, ResetOf(x))
  <2>1. /\ ResetOf(x) \in Num /\ Len(ResetOf(x).d) <= ResetOf(x).cap /\ Val(ResetOf(x)) = 0
        /\ ArithValid(ResetOf(x))
    BY <1>4, ResetTo
  <2>2. v # 1 => Quotient(Val(x), v) = 0
    BY <1>3, <1>4, <1>5, <1>q
  <2>3. WordRight("divu64", v, ResetOf(x))
    BY <1>5, <2>1, <2>2 DEF WordRight
  <2> QED  BY <1>3, <1>5, <2>1, <2>3, WordStep
<1>6. CASE (x.d = <<>> \/ v = 1) /\ Returns("divu64", v, Zero, x)
  <2>1. Val(x) = Quotient(Val(x), v)
    BY <1>3, <1>4, <1>6, <1>q
  <2>2. WordRight("divu64", v, x)
    BY <1>4, <2>1 DEF WordRight
  <2> QED  BY <1>3, <1>4, <1>6, <2>2, WordStep
<1>7. CASE Returns("divu64", v, Zero, Divided(x, v, 1))
  <2> DEFINE o == Divided(x, v, 1)
  <2>1. o \in Num /\ Len(o.d) <= o.cap /\ ArithValid(o) /\ Val(o) = Quotient(Val(x), 1 * v)
    BY <1>3, <1>4, DividedOf
  <2> HIDE DEF o
  <2>2. Val(o) = Quotient(Val(x), v)
    BY <1>3, <2>1
  <2>3. WordRight("divu64", v, o)
    BY <2>1, <2>2 DEF WordRight
  <2>4. Returns("divu64", v, Zero, o)
    BY <1>7 DEF o
  <2> QED  BY <1>3, <2>1, <2>3, <2>4, WordStep
<1> QED  BY <1>1, <1>5, <1>6, <1>7

LEMMA MutDivI64Step == IInv /\ MutDivI64 => IInv' /\ Exact
<1> SUFFICES ASSUME IInv, MutDivI64 PROVE IInv' /\ Exact
  OBVIOUS
<1>1. PICK v \in IntWords \ {0} :
        /\ MayAccept(x)
        /\ \/ v \in {1, -1} /\ Returns("divi64", v, Zero, [x EXCEPT !.sign = @ * v])
           \/ Mag(v) > 1 /\ IsOne(x) /\ Returns("divi64", v, Zero, ResetOf(x))
           \/ Mag(v) > 1 /\ x.d = <<>> /\ Returns("divi64", v, Zero, x)
           \/ /\ Mag(v) > 1 /\ x.d # <<>> /\ ~IsOne(x)
              /\ Returns("divi64", v, Zero, Divided(x, Mag(v), SignOf(v)))
  BY DEF MutDivI64
<1>2. CoreValid(x)
  BY <1>1 DEF Returns, Hands, Usable
<1> DEFINE m == Mag(v)
           s == SignOf(v)
<1>3. /\ v \in CallWords /\ "divi64" \in WordOps \cup IntOps
      /\ v \in Int /\ m \in Limb \ {0} /\ m \in Nat \ {0} /\ s \in {1, -1} /\ v = s * m
  BY WordTyped, CallWordsTyped DEF IntOps
<1>4. /\ x \in Num /\ x.d \in Seq(Limb) /\ x.cap \in Nat \ {0} /\ x.sign \in {1, -1}
      /\ Len(x.d) \in Nat /\ Len(x.d) <= x.cap /\ Magnitude(x.d) \in Nat /\ ArithValid(x)
      /\ Val(x) = x.sign * Magnitude(x.d) /\ Val(x) \in Int
      /\ x.d = <<>> => Val(x) = 0 /\ Magnitude(x.d) = 0
      /\ IsOne(x) => Val(x) = x.sign /\ Magnitude(x.d) = 1
  BY <1>1, <1>2, Accepted
<1>q. /\ m = 1 => Quotient(Val(x), v) = s * Val(x)
      /\ Magnitude(x.d) < m => Quotient(Val(x), v) = 0
  <2>1. /\ m = 1 => Quotient(Val(x), s * m) = s * Val(x)
        /\ Magnitude(x.d) < m => Quotient(Val(x), s * m) = 0
    BY <1>3, <1>4, SmallQuotient
  <2> QED  BY <1>3, <2>1
<1>5. CASE v \in {1, -1} /\ Returns("divi64", v, Zero, [x EXCEPT !.sign = @ * v])
  <2> DEFINE o == [x EXCEPT !.sign = @ * v]
  <2>1. o \in Num /\ o.d = x.d /\ o.cap = x.cap /\ Val(o) = Val(x) * v
    BY <1>4, <1>5, SignedOf
  <2>2. Returns("divi64", v, Zero, o) /\ Len(o.d) <= o.cap
    BY <1>4, <1>5, <2>1
  <2> HIDE DEF o
  <2>3. m = 1 /\ s = v
    BY <1>5 DEF Mag, SignOf
  <2>4. Val(o) = Quotient(Val(x), v)
    BY <1>4, <1>5, <1>q, <2>1, <2>3
  <2>5. WordRight("divi64", v, o)
    BY <2>4 DEF WordRight
  <2> QED  BY <1>3, <2>1, <2>2, <2>5, WordStep
<1>6. CASE m > 1 /\ IsOne(x) /\ Returns("divi64", v, Zero, ResetOf(x))
  <2>1. /\ ResetOf(x) \in Num /\ Len(ResetOf(x).d) <= ResetOf(x).cap /\ Val(ResetOf(x)) = 0
    BY <1>4, ResetTo
  <2>2. Quotient(Val(x), v) = 0
    BY <1>3, <1>4, <1>6, <1>q
  <2>3. WordRight("divi64", v, ResetOf(x))
    BY <2>1, <2>2 DEF WordRight
  <2> QED  BY <1>3, <1>6, <2>1, <2>3, WordStep
<1>7. CASE x.d = <<>> /\ Returns("divi64", v, Zero, x)
  <2>1. Val(x) = Quotient(Val(x), v)
    BY <1>3, <1>4, <1>7, <1>q
  <2>2. WordRight("divi64", v, x)
    BY <2>1 DEF WordRight
  <2> QED  BY <1>3, <1>4, <1>7, <2>2, WordStep
<1>8. CASE Returns("divi64", v, Zero, Divided(x, m, s))
  <2> DEFINE o == Divided(x, m, s)
  <2>1. o \in Num /\ Len(o.d) <= o.cap /\ Val(o) = Quotient(Val(x), s * m)
    BY <1>3, <1>4, DividedOf
  <2> HIDE DEF o
  <2>2. Val(o) = Quotient(Val(x), v)
    BY <1>3, <2>1
  <2>3. WordRight("divi64", v, o)
    BY <2>2 DEF WordRight
  <2>4. Returns("divi64", v, Zero, o)
    BY <1>8 DEF o
  <2> QED  BY <1>3, <2>1, <2>3, <2>4, WordStep
<1> QED  BY <1>1, <1>5, <1>6, <1>7, <1>8

\* A remainder, and the number less the multiple of the word below it.
LEMMA RemainderOf ==
  ASSUME NEW o \in Num, NEW v \in Limb \ {0}
  PROVE  LET rem == DivModWord(o.d, v).rem
         IN  /\ rem \in Limb /\ rem \in Nat /\ Magnitude(o.d) % v = rem
             /\ Val(o) - v * Quotient(Val(o), v) = o.sign * rem
<1> DEFINE rem == DivModWord(o.d, v).rem
           q   == Magnitude(DivModWord(o.d, v).quot)
           M   == Magnitude(o.d)
<1>1. v \in Nat \ {0} /\ v < Radix /\ Radix \in Nat /\ o.d \in Seq(Limb) /\ o.sign \in {1, -1} /\ M \in Nat
  BY NumParts, LimbsTyped, ByteRangeDivides
<1>2. DivModWord(o.d, v).quot \in Seq(Limb) /\ rem \in 0 .. v - 1 /\ M = v * q + rem
  BY <1>1, DivModWordOf
<1>3. q \in Nat
  BY <1>2, FromOf
<1>4. Val(o) = o.sign * M
  BY ValOf
<1> HIDE DEF rem, q, M
<1>5. Quotient(Val(o), 1 * v) = o.sign * 1 * q /\ M % v = rem
  <2>1. 1 \in {1, -1} /\ v \in Nat \ {0} /\ q \in Nat /\ rem \in 0 .. v - 1 /\ Magnitude(o.d) = v * q + rem
    BY <1>1, <1>2, <1>3 DEF M
  <2>2. ASSUME NEW s \in {1, -1}
        PROVE  Quotient(Val(o), s * v) = o.sign * s * q
    BY <2>1, ValQuotient, ZenonT(60)
  <2>3. Magnitude(o.d) \in Nat
    BY <1>1 DEF M
  <2>4. Magnitude(o.d) % v = rem
    BY <2>1, <2>3, QuotientOf
  <2> QED  BY <2>1, <2>2, <2>4 DEF M
<1>6. 1 * v = v /\ o.sign * 1 * q = o.sign * q
  BY <1>1, <1>3
<1>7. Val(o) - v * Quotient(Val(o), v) = o.sign * rem
  <2>1. Quotient(Val(o), v) = o.sign * q
    BY <1>5, <1>6
  <2>2. Val(o) - v * (o.sign * q) = o.sign * rem
    <3>1. CASE o.sign = 1
      BY <1>1, <1>2, <1>3, <1>4, <3>1
    <3>2. CASE o.sign = -1
      BY <1>1, <1>2, <1>3, <1>4, <3>2
    <3> QED  BY <1>1, <3>1, <3>2
  <2> QED  BY <2>1, <2>2
<1>8. rem \in Limb /\ rem \in Nat
  BY <1>1, <1>2 DEF Limb
<1> QED  BY <1>5, <1>7, <1>8 DEF rem, M

LEMMA MutModU64Step == IInv /\ MutModU64 => IInv' /\ Exact
<1> SUFFICES ASSUME IInv, MutModU64 PROVE IInv' /\ Exact
  OBVIOUS
<1> DEFINE rem(v) == DivModWord(x.d, v).rem
<1>1. PICK v \in Words \ {0} :
        /\ MayAccept(x)
        /\ \/ x.d = <<>> /\ Returns("modu64", v, Zero, x)
           \/ x.d # <<>> /\ v = 1 /\ Returns("modu64", v, Zero, ResetOf(x))
           \/ x.d # <<>> /\ MagCompWord(x.d, v) = -1 /\ Returns("modu64", v, Zero, x)
           \/ x.d # <<>> /\ MagCompWord(x.d, v) = 0 /\ Returns("modu64", v, Zero, ResetOf(x))
           \/ Returns("modu64", v, Zero, [x EXCEPT !.d = IF rem(v) = 0 THEN <<>> ELSE <<rem(v)>>])
  BY DEF MutModU64
<1>2. CoreValid(x)
  BY <1>1 DEF Returns, Hands, Usable
<1>3. /\ v \in Limb \ {0} /\ v \in Nat \ {0} /\ v \in CallWords /\ "modu64" \in WordOps \cup IntOps
      /\ 1 * v = v /\ 1 \in {1, -1}
  BY WordTyped, CallWordsTyped DEF WordOps
<1>4. /\ x \in Num /\ x.d \in Seq(Limb) /\ x.cap \in Nat \ {0} /\ x.sign \in {1, -1}
      /\ Len(x.d) \in Nat /\ Len(x.d) <= x.cap /\ Magnitude(x.d) \in Nat
      /\ Val(x) = x.sign * Magnitude(x.d) /\ Val(x) \in Int
      /\ x.d = <<>> => Val(x) = 0 /\ Magnitude(x.d) = 0
  BY <1>1, <1>2, Accepted
<1>q. /\ v = 1 => Quotient(Val(x), v) = Val(x)
      /\ Magnitude(x.d) < v => Quotient(Val(x), v) = 0
      /\ Magnitude(x.d) = v => Quotient(Val(x), v) = x.sign
  <2>1. /\ v = 1 => Quotient(Val(x), 1 * v) = 1 * Val(x)
        /\ Magnitude(x.d) < v => Quotient(Val(x), 1 * v) = 0
        /\ Magnitude(x.d) = v => Quotient(Val(x), 1 * v) = x.sign * 1
    BY <1>3, <1>4, SmallQuotient
  <2> QED  BY <1>3, <1>4, <2>1
<1>5. ASSUME Magnitude(x.d) < v, Returns("modu64", v, Zero, x) PROVE IInv' /\ Exact
  <2>1. Val(x) = Val(x) - v * Quotient(Val(x), v)
    BY <1>3, <1>4, <1>5, <1>q
  <2>2. WordRight("modu64", v, x)
    BY <2>1 DEF WordRight
  <2> QED  BY <1>3, <1>4, <1>5, <2>2, WordStep
<1>6. ASSUME v = 1 \/ Magnitude(x.d) = v, Returns("modu64", v, Zero, ResetOf(x)) PROVE IInv' /\ Exact
  <2>1. ResetOf(x) \in Num /\ Len(ResetOf(x).d) <= ResetOf(x).cap /\ Val(ResetOf(x)) = 0
    BY <1>4, ResetTo
  <2>2. 0 = Val(x) - v * Quotient(Val(x), v)
    <3>1. CASE v = 1
      BY <1>4, <1>q, <3>1
    <3>2. CASE Magnitude(x.d) = v
      BY <1>3, <1>4, <1>q, <3>2
    <3> QED  BY <1>6, <3>1, <3>2
  <2>3. WordRight("modu64", v, ResetOf(x))
    BY <2>1, <2>2 DEF WordRight
  <2> QED  BY <1>3, <1>6, <2>1, <2>3, WordStep
<1>7. ASSUME Returns("modu64", v, Zero, [x EXCEPT !.d = IF rem(v) = 0 THEN <<>> ELSE <<rem(v)>>])
      PROVE  IInv' /\ Exact
  <2> DEFINE r == rem(v)
             f == WordDigits(r)
             o == [x EXCEPT !.d = f]
             e == [d |-> f, cap |-> x.cap, sign |-> x.sign]
  <2>1. r \in Limb /\ r \in Nat /\ Val(x) - v * Quotient(Val(x), v) = x.sign * r
    BY <1>3, <1>4, RemainderOf
  <2>2. Returns("modu64", v, Zero, o)
    BY <1>7 DEF WordDigits
  <2> HIDE DEF r
  <2>3. e \in Num /\ Len(e.d) <= e.cap /\ Magnitude(e.d) = r
    BY <1>4, <2>1, OneWordOf
  <2>4. e.sign = x.sign
    OBVIOUS
  <2> HIDE DEF f
  <2>5. o = e
    BY <1>4, ExceptOne
  <2> HIDE DEF o, e
  <2>6. Val(e) = x.sign * r
    BY <2>3, <2>4 DEF Val
  <2>7. WordRight("modu64", v, e)
    BY <2>1, <2>6 DEF WordRight
  <2>8. Returns("modu64", v, Zero, e)
    BY <2>2, <2>5
  <2> QED  BY <1>3, <2>3, <2>7, <2>8, WordStep
<1>8. ASSUME x.d # <<>>
      PROVE  /\ MagCompWord(x.d, v) = -1 => Magnitude(x.d) < v
             /\ MagCompWord(x.d, v) = 0 => Magnitude(x.d) = v
  BY <1>3, <1>4, <1>8, MagCompWordOf
<1>9. x.d = <<>> => Magnitude(x.d) < v
  BY <1>3, <1>4
<1> QED  BY <1>1, <1>5, <1>6, <1>7, <1>8, <1>9

LEMMA MutModI64Step == IInv /\ MutModI64 => IInv' /\ Exact
<1> SUFFICES ASSUME IInv, MutModI64 PROVE IInv' /\ Exact
  OBVIOUS
<1> DEFINE rem(v) == DivModWord(x.d, Mag(v)).rem
<1>1. PICK v \in IntWords \ {0} :
        /\ MayAccept(x)
        /\ \/ v \in {1, -1} /\ Returns("modi64", v, Zero, ResetOf(x))
           \/ x.d = <<>> /\ Returns("modi64", v, Zero, x)
           \/ x.d # <<>> /\ MagCompWord(x.d, Mag(v)) = -1 /\ Returns("modi64", v, Zero, x)
           \/ x.d # <<>> /\ MagCompWord(x.d, Mag(v)) = 0 /\ Returns("modi64", v, Zero, ResetOf(x))
           \/ Returns("modi64", v, Zero,
                      IF rem(v) = 0 THEN ResetOf(x)
                      ELSE [x EXCEPT !.d = <<rem(v)>>, !.sign = @ * SignOf(v)])
  BY DEF MutModI64
<1>2. CoreValid(x)
  BY <1>1 DEF Returns, Hands, Usable
<1> DEFINE m == Mag(v)
           s == SignOf(v)
<1>3. /\ v \in CallWords /\ "modi64" \in WordOps \cup IntOps
      /\ v \in Int /\ m \in Limb \ {0} /\ m \in Nat \ {0} /\ s \in {1, -1} /\ v = s * m
  BY WordTyped, CallWordsTyped DEF IntOps
<1>4. /\ x \in Num /\ x.d \in Seq(Limb) /\ x.cap \in Nat \ {0} /\ x.sign \in {1, -1}
      /\ Len(x.d) \in Nat /\ Len(x.d) <= x.cap /\ Magnitude(x.d) \in Nat /\ ArithValid(x)
      /\ Mag(Val(x)) = Magnitude(x.d)
      /\ x.d = <<>> => Val(x) = 0 /\ Magnitude(x.d) = 0
  BY <1>1, <1>2, Accepted
<1>q. /\ m = 1 => Magnitude(x.d) % m = 0
      /\ Magnitude(x.d) < m => Magnitude(x.d) % m = Magnitude(x.d)
      /\ Magnitude(x.d) = m => Magnitude(x.d) % m = 0
  BY <1>3, <1>4, SmallQuotient
<1>r. rem(v) \in Limb /\ rem(v) \in Nat /\ Magnitude(x.d) % m = rem(v)
  BY <1>3, <1>4, RemainderOf
<1> HIDE DEF s, m
<1>5. ASSUME Magnitude(x.d) < m, Returns("modi64", v, Zero, x) PROVE IInv' /\ Exact
  <2>1. Mag(Val(x)) = Mag(Val(x)) % Mag(v)
    BY <1>4, <1>5, <1>q DEF m
  <2>2. WordRight("modi64", v, x)
    BY <1>4, <2>1 DEF WordRight
  <2> QED  BY <1>3, <1>4, <1>5, <2>2, WordStep
<1>6. ASSUME Magnitude(x.d) % m = 0, Returns("modi64", v, Zero, ResetOf(x)) PROVE IInv' /\ Exact
  <2>1. /\ ResetOf(x) \in Num /\ Len(ResetOf(x).d) <= ResetOf(x).cap /\ Val(ResetOf(x)) = 0
        /\ ArithValid(ResetOf(x))
    BY <1>4, ResetTo
  <2>2. Mag(Val(ResetOf(x))) = Mag(Val(x)) % Mag(v)
    <3>1. Mag(0) = 0
      BY DEF Mag
    <3> QED  BY <1>4, <1>6, <2>1, <3>1 DEF m
  <2>3. WordRight("modi64", v, ResetOf(x))
    BY <2>1, <2>2 DEF WordRight
  <2> QED  BY <1>3, <1>6, <2>1, <2>3, WordStep
<1>7. ASSUME rem(v) # 0, Returns("modi64", v, Zero, [x EXCEPT !.d = <<rem(v)>>, !.sign = @ * s])
      PROVE  IInv' /\ Exact
  <2> DEFINE r == rem(v)
             t == x.sign * s
             o == [x EXCEPT !.d = <<r>>, !.sign = t]
             e == [d |-> <<r>>, cap |-> x.cap, sign |-> t]
  <2>1. Returns("modi64", v, Zero, o) /\ r \in Limb \ {0} /\ Magnitude(x.d) % m = r
    BY <1>7, <1>r
  <2>2. t \in {1, -1}
    BY <1>3, <1>4
  <2> HIDE DEF r, t
  <2>3. e \in Num /\ Len(e.d) <= e.cap /\ ArithValid(e) /\ Magnitude(e.d) = r
    BY <1>4, <2>1, <2>2, OneLimb
  <2>4. o = e
    BY <1>4, ExceptSigned
  <2> HIDE DEF o, e
  <2>5. Mag(Val(e)) = r
    BY <2>3, ValOf
  <2>6. WordRight("modi64", v, e)
    BY <1>4, <2>1, <2>3, <2>5 DEF WordRight, m
  <2>7. Returns("modi64", v, Zero, e)
    BY <2>1, <2>4
  <2> QED  BY <1>3, <2>3, <2>6, <2>7, WordStep
<1>8. ASSUME x.d # <<>>
      PROVE  /\ MagCompWord(x.d, m) = -1 => Magnitude(x.d) < m
             /\ MagCompWord(x.d, m) = 0 => Magnitude(x.d) = m
  BY <1>3, <1>4, <1>8, MagCompWordOf
<1>9. x.d = <<>> => Magnitude(x.d) < m
  BY <1>3, <1>4
<1>10. v \in {1, -1} => m = 1
  BY DEF m, Mag
<1> HIDE DEF rem
<1>11. CASE Returns("modi64", v, Zero, IF rem(v) = 0 THEN ResetOf(x)
                                       ELSE [x EXCEPT !.d = <<rem(v)>>, !.sign = @ * SignOf(v)])
  <2>1. CASE rem(v) = 0
    BY <1>6, <1>11, <1>r, <2>1
  <2>2. CASE rem(v) # 0
    BY <1>7, <1>11, <2>2 DEF s
  <2> QED  BY <2>1, <2>2
<1>12. CASE v \in {1, -1} /\ Returns("modi64", v, Zero, ResetOf(x))
  BY <1>6, <1>10, <1>12, <1>q
<1>13. CASE x.d # <<>> /\ MagCompWord(x.d, m) = 0 /\ Returns("modi64", v, Zero, ResetOf(x))
  BY <1>6, <1>8, <1>13, <1>q
<1>14. CASE x.d # <<>> /\ MagCompWord(x.d, m) = -1 /\ Returns("modi64", v, Zero, x)
  BY <1>5, <1>8, <1>14
<1>15. CASE x.d = <<>> /\ Returns("modi64", v, Zero, x)
  BY <1>5, <1>9, <1>15
<1> QED  BY <1>1, <1>11, <1>12, <1>13, <1>14, <1>15 DEF m

-----------------------------------------------------------------------------
(* Arithmetic with another number *)

MostOf(y)  == IF MagComp(x.d, y.d) >= 0 THEN x.d ELSE y.d
LeastOf(y) == IF MagComp(x.d, y.d) >= 0 THEN y.d ELSE x.d

\* Some limb carries, or borrows, when y is added with the sign s.
Spills(y, s) ==
  \E i \in DOMAIN MostOf(y) :
    IF x.sign = s \/ y.d = <<>> THEN LimbAt(x.d, i) + LimbAt(y.d, i) >= Radix
    ELSE MostOf(y)[i] < LimbAt(LeastOf(y), i)

\* What an addition of y with the sign s owes of the number o it returns.
SumRight(y, s, o) == x.d # <<>> /\ ~ Spills(y, s) => Val(o) = Val(x) + s * Magnitude(y.d)

LEMMA SumStep ==
  ASSUME NEW op \in {"add", "sub"}, NEW y \in Operands, NEW o \in Num, Returns(op, 0, y, o),
         Len(o.d) <= o.cap, SumRight(y, IF op = "add" THEN y.sign ELSE -y.sign, o)
  PROVE  IInv' /\ Exact
<1>1. IInv' /\ x' = o /\ call'.op = op /\ call'.y = y /\ call'.status = "SUCCESS"
  BY CallWordsTyped, Returned
<1>2. Val(x') = Val(o)
  BY <1>1 DEF Val
<1>3. AddSubExact
  BY <1>1, <1>2 DEF AddSubExact, SumRight, Spills, MostOf, LeastOf, Succeeds
<1> QED  BY <1>1, <1>3 DEF Exact, WordOpExact, ProductMagnitude, KeepsContract, Succeeds

LEMMA LimbAtOf ==
  ASSUME NEW d \in Seq(Limb), NEW i \in Nat \ {0}
  PROVE  /\ LimbAt(d, i) \in Nat /\ LimbAt(d, i) < Radix /\ Radix \in Nat
         /\ i \in DOMAIN d => LimbAt(d, i) = d[i]
         /\ i \notin DOMAIN d => LimbAt(d, i) = 0
<1>1. LimbAt(d, i) \in Limb
  <2>1. i \in Int
    OBVIOUS
  <2> QED  BY <2>1, LimbAtTyped
<1>2. LimbAt(d, i) \in Nat /\ LimbAt(d, i) < Radix /\ Radix \in Nat
  BY <1>1, LimbsTyped, ByteRangeDivides
<1>3. (i \in DOMAIN d => LimbAt(d, i) = d[i]) /\ (i \notin DOMAIN d => LimbAt(d, i) = 0)
  BY DEF LimbAt
<1> QED  BY <1>2, <1>3

\* The number that MagComp prefers is the longer one, so above it both are zero.
LEMMA NoSpill ==
  ASSUME x \in Num, x.d # <<>>, NEW y \in Operands, NEW s \in {1, -1}, ~ Spills(y, s), NEW i \in Nat \ {0}
  PROVE  /\ x.sign = s => LimbAt(x.d, i) + LimbAt(y.d, i) < Radix
         /\ x.sign # s /\ MagComp(x.d, y.d) = 1 => LimbAt(x.d, i) >= LimbAt(y.d, i)
         /\ x.sign # s /\ MagComp(x.d, y.d) = -1 => LimbAt(y.d, i) >= LimbAt(x.d, i)
<1> DEFINE a == LimbAt(x.d, i)
           b == LimbAt(y.d, i)
           comp == MagComp(x.d, y.d)
           most == MostOf(y)
<1>1. /\ x.d \in Seq(Limb) /\ y.d \in Seq(Limb)
      /\ DOMAIN x.d = 1 .. Len(x.d) /\ DOMAIN y.d = 1 .. Len(y.d)
      /\ Len(x.d) \in Nat \ {0} /\ Len(y.d) \in Nat
  BY NumParts, OperandTyped
<1>2. /\ a \in Nat /\ a < Radix /\ Radix \in Nat /\ b \in Nat /\ b < Radix
      /\ (i \in DOMAIN x.d => a = x.d[i]) /\ (i \notin DOMAIN x.d => a = 0)
      /\ (i \in DOMAIN y.d => b = y.d[i]) /\ (i \notin DOMAIN y.d => b = 0)
  BY <1>1, LimbAtOf
<1>3. /\ comp \in {-1, 0, 1}
      /\ comp >= 0 => Len(x.d) >= Len(y.d)
      /\ comp <= 0 => Len(y.d) >= Len(x.d)
  BY <1>1, MagCompOf
<1>4. ASSUME comp >= 0
      PROVE  /\ x.sign = s => a + b < Radix
             /\ x.sign # s => a >= b
  <2>1. most = x.d /\ LeastOf(y) = y.d
    BY <1>4 DEF MostOf, LeastOf
  <2>2. CASE i \notin DOMAIN x.d
    <3>1. i \notin DOMAIN y.d
      BY <1>1, <1>3, <1>4, <2>2
    <3> QED  BY <1>2, <2>2, <3>1
  <2>3. CASE i \in DOMAIN x.d
    <3>1. ~ (IF x.sign = s \/ y.d = <<>> THEN a + b >= Radix ELSE x.d[i] < b)
      BY <2>1, <2>3 DEF Spills
    <3>2. y.d = <<>> => b = 0
      BY <1>2
    <3> QED  BY <1>2, <2>3, <3>1, <3>2
  <2> QED  BY <2>2, <2>3
<1>5. ASSUME comp = -1
      PROVE  /\ x.sign = s => a + b < Radix
             /\ x.sign # s => b >= a
  <2>1. most = y.d /\ LeastOf(y) = x.d /\ y.d # <<>>
    <3>1. Len(y.d) >= Len(x.d)
      BY <1>3, <1>5
    <3>2. y.d # <<>>
      BY <1>1, <3>1
    <3> QED  BY <1>5, <3>2 DEF MostOf, LeastOf
  <2>2. CASE i \notin DOMAIN y.d
    <3>1. i \notin DOMAIN x.d
      BY <1>1, <1>3, <1>5, <2>2
    <3> QED  BY <1>2, <2>2, <3>1
  <2>3. CASE i \in DOMAIN y.d
    <3>1. ~ (IF x.sign = s THEN a + b >= Radix ELSE y.d[i] < a)
      BY <2>1, <2>3 DEF Spills
    <3> QED  BY <1>2, <2>3, <3>1
  <2> QED  BY <2>2, <2>3
<1> HIDE DEF comp, a, b
<1>6. CASE comp >= 0
  BY <1>3, <1>4, <1>6 DEF comp, a, b
<1>7. CASE comp = -1
  BY <1>5, <1>7 DEF comp, a, b
<1> QED  BY <1>3, <1>6, <1>7

LEMMA SumOf ==
  ASSUME x \in Num, NEW y \in Operands, NEW s \in {1, -1}, x.sign = s,
         NEW o \in Num, o.d = MagAdd(x.d, y.d), o.sign = s
  PROVE  SumRight(y, s, o)
<1> SUFFICES ASSUME x.d # <<>>, ~ Spills(y, s) PROVE Val(o) = Val(x) + s * Magnitude(y.d)
  BY DEF SumRight
<1>1. x.d \in Seq(Limb) /\ y.d \in Seq(Limb) /\ Magnitude(x.d) \in Nat /\ Magnitude(y.d) \in Nat
  BY NumParts, OperandTyped
<1>2. \A i \in Nat \ {0} : LimbAt(x.d, i) + LimbAt(y.d, i) < Radix
  BY NoSpill
<1>3. Magnitude(o.d) = Magnitude(x.d) + Magnitude(y.d)
  BY <1>1, <1>2, MagAddOf
<1> QED  BY <1>1, <1>3 DEF Val

LEMMA DifferenceOf ==
  ASSUME x \in Num, NEW y \in Operands, NEW s \in {1, -1}, x.sign = -s, NEW o \in Num,
         \/ MagComp(x.d, y.d) = 0 /\ Val(o) = 0
         \/ MagComp(x.d, y.d) = 1 /\ o.d = MagSub(x.d, y.d) /\ o.sign = x.sign
         \/ MagComp(x.d, y.d) = -1 /\ o.d = MagSub(y.d, x.d) /\ o.sign = s
  PROVE  SumRight(y, s, o)
<1> SUFFICES ASSUME x.d # <<>>, ~ Spills(y, s) PROVE Val(o) = Val(x) + s * Magnitude(y.d)
  BY DEF SumRight
<1>1. /\ x.d \in Seq(Limb) /\ y.d \in Seq(Limb) /\ Magnitude(x.d) \in Nat /\ Magnitude(y.d) \in Nat
      /\ Magnitude(o.d) \in Nat /\ x.sign # s
  BY NumParts, OperandTyped
<1>2. CASE MagComp(x.d, y.d) = 0 /\ Val(o) = 0
  <2>1. x.d = y.d
    BY <1>1, <1>2, MagCompOf
  <2> QED  BY <1>1, <1>2, <2>1 DEF Val
<1>3. CASE MagComp(x.d, y.d) = 1 /\ o.d = MagSub(x.d, y.d) /\ o.sign = x.sign
  <2>1. \A i \in Nat \ {0} : LimbAt(x.d, i) >= LimbAt(y.d, i)
    BY <1>1, <1>3, NoSpill
  <2>2. Magnitude(x.d) = Magnitude(o.d) + Magnitude(y.d)
    BY <1>1, <1>3, <2>1, MagSubOf
  <2> QED  BY <1>1, <1>3, <2>2 DEF Val
<1>4. CASE MagComp(x.d, y.d) = -1 /\ o.d = MagSub(y.d, x.d) /\ o.sign = s
  <2>1. \A i \in Nat \ {0} : LimbAt(y.d, i) >= LimbAt(x.d, i)
    BY <1>1, <1>4, NoSpill
  <2>2. Magnitude(y.d) = Magnitude(o.d) + Magnitude(x.d)
    BY <1>1, <1>4, <2>1, MagSubOf
  <2> QED  BY <1>1, <1>4, <2>2 DEF Val
<1> QED  BY <1>2, <1>3, <1>4

\* What is reserved, and the limbs and the sign that are put into it.
LEMMA PutInto ==
  ASSUME NEW o \in Num, NEW k \in Nat, NEW d \in Seq(Limb), Len(d) <= k
  PROVE  LET f == [EnsCap(o, k) EXCEPT !.d = d]
         IN  f \in Num /\ Len(f.d) <= f.cap /\ f.d = d /\ f.sign = o.sign
<1> DEFINE b == EnsCap(o, k)
           c == b.cap
           f == [b EXCEPT !.d = d]
<1>1. b \in Num /\ c \in Nat \ {0} /\ c >= k /\ b.sign = o.sign /\ o.sign \in {1, -1}
  BY Reserved, NumParts
<1>2. Len(d) \in Nat
  BY DigitTyped
<1> HIDE DEF b
<1>3. f = [d |-> d, cap |-> c, sign |-> o.sign]
  <2>1. f = [d |-> d, cap |-> b.cap, sign |-> b.sign]
    BY <1>1, ExceptOne
  <2> HIDE DEF f
  <2> QED  BY <1>1, <2>1
<1> HIDE DEF c, f
<1>4. f \in Num
  BY <1>1, <1>3, NumMade
<1>5. f.d = d /\ f.cap = c /\ f.sign = o.sign
  BY <1>3
<1>6. Len(d) <= c
  BY <1>1, <1>2
<1> QED  BY <1>4, <1>5, <1>6 DEF f, b

LEMMA PutSigned ==
  ASSUME NEW o \in Num, NEW k \in Nat, NEW d \in Seq(Limb), Len(d) <= k, NEW s \in {1, -1}
  PROVE  LET e == [d |-> d, cap |-> EnsCap(o, k).cap, sign |-> s]
         IN  e \in Num /\ Len(e.d) <= e.cap
<1> DEFINE c == EnsCap(o, k).cap
           e == [d |-> d, cap |-> c, sign |-> s]
<1>1. c \in Nat \ {0} /\ c >= k
  BY Reserved
<1>2. Len(d) \in Nat
  BY DigitTyped
<1> HIDE DEF c
<1>3. e \in Num
  BY <1>1, NumMade
<1>4. Len(e.d) <= e.cap
  BY <1>1, <1>2
<1> QED  BY <1>3, <1>4 DEF c

LEMMA PutOver ==
  ASSUME NEW o \in Num, Len(o.d) <= o.cap, NEW d \in Seq(Limb), Len(d) = Len(o.d), NEW s \in {1, -1}
  PROVE  LET e == [o EXCEPT !.d = d]
             f == [o EXCEPT !.sign = s]
         IN  /\ e \in Num /\ Len(e.d) <= e.cap /\ e.d = d /\ e.sign = o.sign
             /\ f \in Num /\ Len(f.d) <= f.cap /\ f.d = o.d /\ f.sign = s
<1> DEFINE e == [o EXCEPT !.d = d]
           f == [o EXCEPT !.sign = s]
<1>1. o.cap \in Nat \ {0} /\ o.sign \in {1, -1} /\ o.d \in Seq(Limb)
  BY NumParts
<1>2. e = [d |-> d, cap |-> o.cap, sign |-> o.sign] /\ f = [d |-> o.d, cap |-> o.cap, sign |-> s]
  BY ExceptOne
<1> HIDE DEF e, f
<1>3. e \in Num
  BY <1>1, <1>2, NumMade
<1>4. f \in Num
  BY <1>1, <1>2, NumMade
<1>5. e.d = d /\ e.cap = o.cap /\ e.sign = o.sign /\ f.d = o.d /\ f.cap = o.cap /\ f.sign = s
  BY <1>2
<1>6. Len(e.d) <= e.cap /\ Len(f.d) <= f.cap
  BY <1>5
<1> QED  BY <1>3, <1>4, <1>5, <1>6 DEF e, f

\* The object and the operand that an addition finds.
LEMMA AcceptedBoth ==
  ASSUME IInv, CoreValid(x), MayAccept(x), NEW y \in Operands
  PROVE  /\ x \in Num /\ x.d \in Seq(Limb) /\ x.sign \in {1, -1} /\ Len(x.d) \in Nat
         /\ Len(x.d) <= x.cap /\ x.cap \in Nat \ {0}
         /\ y.d \in Seq(Limb) /\ y.sign \in {1, -1} /\ -y.sign \in {1, -1} /\ Len(y.d) \in Nat
         /\ x.d = <<>> => x.sign = 1
         /\ Len(MagAdd(x.d, y.d)) <= Larger(Len(x.d), Len(y.d)) + 1
         /\ MagAdd(x.d, y.d) \in Seq(Limb) /\ Larger(Len(x.d), Len(y.d)) + 1 \in Nat
         /\ MagSub(x.d, y.d) \in Seq(Limb) /\ Len(MagSub(x.d, y.d)) = Len(x.d)
         /\ MagSub(y.d, x.d) \in Seq(Limb) /\ Len(MagSub(y.d, x.d)) = Len(y.d)
         /\ MagComp(x.d, y.d) \in {-1, 0, 1}
<1>1. /\ x \in Num /\ x.d \in Seq(Limb) /\ x.sign \in {1, -1} /\ Len(x.d) \in Nat
      /\ Len(x.d) <= x.cap /\ x.cap \in Nat \ {0} /\ (x.d = <<>> => x.sign = 1)
  BY Accepted
<1>2. y.d \in Seq(Limb) /\ y.sign \in {1, -1} /\ Len(y.d) \in Nat
  BY OperandTyped
<1>3. -y.sign \in {1, -1}
  BY <1>2
<1>4. MagAdd(x.d, y.d) \in Seq(Limb) /\ Len(MagAdd(x.d, y.d)) = Larger(Len(x.d), Len(y.d))
  BY <1>1, <1>2, MagAddOf
<1>5. /\ MagSub(x.d, y.d) \in Seq(Limb) /\ Len(MagSub(x.d, y.d)) = Len(x.d)
      /\ MagSub(y.d, x.d) \in Seq(Limb) /\ Len(MagSub(y.d, x.d)) = Len(y.d)
      /\ MagComp(x.d, y.d) \in {-1, 0, 1}
  BY <1>1, <1>2, MagSubOf, MagCompOf
<1>6. Larger(Len(x.d), Len(y.d)) \in Nat
  BY <1>1, <1>2 DEF Larger
<1> QED  BY <1>1, <1>2, <1>3, <1>4, <1>5, <1>6

\* An addition that reserves room first.
LEMMA SumReserving ==
  ASSUME IInv, NEW op \in {"add", "sub"}, NEW y \in Operands, NEW o \in Num, NEW k, Reserving(op, 0, y, k, o),
         Len(o.d) <= o.cap, SumRight(y, IF op = "add" THEN y.sign ELSE -y.sign, o)
  PROVE  IInv' /\ Exact
<1>1. IInv' /\ (Exact \/ Returns(op, 0, y, o))
  BY CallWordsTyped, ReservingStep
<1> QED  BY <1>1, SumStep

LEMMA MutAddStep == IInv /\ MutAdd => IInv' /\ Exact
<1> SUFFICES ASSUME IInv, MutAdd PROVE IInv' /\ Exact
  OBVIOUS
<1> DEFINE n(y) == Larger(Len(x.d), Len(y.d))
           comp(y) == MagComp(x.d, y.d)
<1>1. PICK y \in Operands :
        /\ MayAccept(x)
        /\ \/ /\ x.d = <<>>
              /\ \/ \E o \in CopyFromCases(x, y) : Reserving("add", 0, y, Len(y.d), o)
                 \/ Returns("add", 0, y, x)
           \/ /\ x.d # <<>> /\ x.sign = y.sign
              /\ Reserving("add", 0, y, n(y) + 1, [EnsCap(x, n(y) + 1) EXCEPT !.d = MagAdd(x.d, y.d)])
           \/ x.d # <<>> /\ x.sign # y.sign /\ y.d = <<>> /\ Returns("add", 0, y, x)
           \/ /\ x.d # <<>> /\ x.sign # y.sign
              /\ \/ comp(y) = 0 /\ Returns("add", 0, y, ResetOf(x))
                 \/ comp(y) = 1 /\ Returns("add", 0, y, [x EXCEPT !.d = MagSub(x.d, y.d)])
                 \/ /\ comp(y) = -1
                    /\ Reserving("add", 0, y, Len(y.d), [EnsCap(x, Len(y.d))
                                   EXCEPT !.d = MagSub(y.d, x.d), !.sign = y.sign])
  BY DEF MutAdd
<1>2. CoreValid(x)
  BY <1>1 DEF Reserving, Returns, Hands, Fails, Usable
<1> DEFINE s == y.sign
           add == MagAdd(x.d, y.d)
           sub == MagSub(x.d, y.d)
           rev == MagSub(y.d, x.d)
           k == n(y) + 1
           l == Len(y.d)
<1>3. /\ x \in Num /\ x.sign \in {1, -1} /\ Len(x.d) \in Nat
      /\ Len(x.d) <= x.cap
      /\ s \in {1, -1} /\ l \in Nat
      /\ Len(add) <= k /\ add \in Seq(Limb) /\ k \in Nat
      /\ sub \in Seq(Limb) /\ Len(sub) = Len(x.d)
      /\ rev \in Seq(Limb) /\ Len(rev) = l /\ Len(rev) <= l
  BY <1>1, <1>2, AcceptedBoth
<1>4. "add" \in {"add", "sub"} /\ s = (IF "add" = "add" THEN y.sign ELSE -y.sign)
  OBVIOUS
<1>s. x.sign # s => x.sign = -s
  BY <1>3
<1> HIDE DEF k, l
<1>5. CASE x.d = <<>> /\ \E o \in CopyFromCases(x, y) : Reserving("add", 0, y, l, o)
  <2>1. PICK o \in CopyFromCases(x, y) : Reserving("add", 0, y, l, o)
    BY <1>5
  <2>2. o \in Num /\ Len(o.d) <= o.cap
    BY <1>3, CopyFromTyped
  <2>3. SumRight(y, s, o)
    BY <1>5 DEF SumRight
  <2> HIDE DEF s
  <2> QED  BY <1>4, <2>1, <2>2, <2>3, SumReserving
<1>6. CASE x.d = <<>> /\ Returns("add", 0, y, x)
  <2>1. SumRight(y, s, x)
    BY <1>6 DEF SumRight
  <2> HIDE DEF s
  <2> QED  BY <1>3, <1>4, <1>6, <2>1, SumStep
<1>7. CASE x.sign = s /\ Reserving("add", 0, y, k, [EnsCap(x, k) EXCEPT !.d = add])
  <2> DEFINE o == [EnsCap(x, k) EXCEPT !.d = add]
  <2>1. o \in Num /\ Len(o.d) <= o.cap /\ o.d = add /\ o.sign = s
    BY <1>3, <1>7, PutInto
  <2>2. Reserving("add", 0, y, k, o)
    BY <1>7
  <2> HIDE DEF o
  <2>3. SumRight(y, s, o)
    BY <1>3, <1>7, <2>1, SumOf
  <2> HIDE DEF s
  <2> QED  BY <1>4, <2>1, <2>2, <2>3, SumReserving
<1>8. CASE y.d = <<>> /\ Returns("add", 0, y, x)
  <2>1. Magnitude(y.d) = 0
    BY <1>8, WordValue
  <2>2. SumRight(y, s, x)
    BY <1>3, <2>1, ValOf DEF SumRight
  <2> HIDE DEF s
  <2> QED  BY <1>3, <1>4, <1>8, <2>2, SumStep
<1>9. CASE x.sign # s /\ comp(y) = 0 /\ Returns("add", 0, y, ResetOf(x))
  <2>1. ResetOf(x) \in Num /\ Len(ResetOf(x).d) <= ResetOf(x).cap /\ Val(ResetOf(x)) = 0
    BY <1>3, ResetTo
  <2>2. SumRight(y, s, ResetOf(x))
    BY <1>3, <1>9, <1>s, <2>1, DifferenceOf
  <2> HIDE DEF s
  <2> QED  BY <1>4, <1>9, <2>1, <2>2, SumStep
<1>10. CASE x.sign # s /\ comp(y) = 1 /\ Returns("add", 0, y, [x EXCEPT !.d = sub])
  <2> DEFINE o == [x EXCEPT !.d = sub]
  <2>1. o \in Num /\ Len(o.d) <= o.cap /\ o.d = sub /\ o.sign = x.sign
    BY <1>3, PutOver
  <2>2. Returns("add", 0, y, o)
    BY <1>10
  <2> HIDE DEF o
  <2>3. SumRight(y, s, o)
    BY <1>3, <1>10, <1>s, <2>1, DifferenceOf
  <2> HIDE DEF s
  <2> QED  BY <1>4, <2>1, <2>2, <2>3, SumStep
<1>11. CASE x.sign # s /\ comp(y) = -1 /\ Reserving("add", 0, y, l, [EnsCap(x, l) EXCEPT !.d = rev, !.sign = s])
  <2> DEFINE o == [d |-> rev, cap |-> EnsCap(x, l).cap, sign |-> s]
  <2>1. o \in Num /\ Len(o.d) <= o.cap
    BY <1>3, PutSigned
  <2>2. o.d = rev /\ o.sign = s
    OBVIOUS
  <2>3. EnsCap(x, l) \in Num
    BY <1>3, Reserved
  <2>4. [EnsCap(x, l) EXCEPT !.d = rev, !.sign = s] = o
    BY <2>3, ExceptSigned
  <2>5. Reserving("add", 0, y, l, o)
    BY <1>11, <2>4
  <2> HIDE DEF o
  <2>6. SumRight(y, s, o)
    BY <1>3, <1>11, <1>s, <2>1, <2>2, DifferenceOf
  <2> HIDE DEF s
  <2> QED  BY <1>4, <2>1, <2>5, <2>6, SumReserving
<1> QED  BY <1>1, <1>5, <1>6, <1>7, <1>8, <1>9, <1>10, <1>11, SMTT(60) DEF k, l

LEMMA SignPut ==
  ASSUME NEW o \in Num, Len(o.d) <= o.cap, NEW s \in {1, -1}
  PROVE  LET e == [o EXCEPT !.sign = s] IN e \in Num /\ Len(e.d) <= e.cap
<1> DEFINE e == [o EXCEPT !.sign = s]
<1>1. o.cap \in Nat \ {0} /\ o.d \in Seq(Limb)
  BY NumParts
<1>2. e = [d |-> o.d, cap |-> o.cap, sign |-> s]
  BY ExceptOne
<1> HIDE DEF e
<1>3. e \in Num
  BY <1>1, <1>2, NumMade
<1>4. e.d = o.d /\ e.cap = o.cap
  BY <1>2
<1> QED  BY <1>3, <1>4 DEF e

LEMMA MutSubStep == IInv /\ MutSub => IInv' /\ Exact
<1> SUFFICES ASSUME IInv, MutSub PROVE IInv' /\ Exact
  OBVIOUS
<1> DEFINE n(y) == Larger(Len(x.d), Len(y.d))
           comp(y) == MagComp(x.d, y.d)
<1>1. PICK y \in Operands :
        /\ MayAccept(x)
        /\ \/ /\ x.d = <<>>
              /\ \/ \E o \in CopyFromCases(x, y) :
                      Reserving("sub", 0, y, Len(y.d), [o EXCEPT !.sign = -y.sign])
                 \/ Returns("sub", 0, y, [x EXCEPT !.sign = -y.sign])
           \/ /\ x.d # <<>> /\ x.sign = y.sign
              /\ \/ comp(y) = 0 /\ Returns("sub", 0, y, ResetOf(x))
                 \/ comp(y) = 1 /\ Returns("sub", 0, y, [x EXCEPT !.d = MagSub(x.d, y.d)])
                 \/ /\ comp(y) = -1
                    /\ Reserving("sub", 0, y, Len(y.d), [EnsCap(x, Len(y.d))
                                   EXCEPT !.d = MagSub(y.d, x.d), !.sign = -@])
           \/ y.d = <<>> /\ Returns("sub", 0, y, x)
           \/ /\ x.sign # y.sign
              /\ Reserving("sub", 0, y, n(y) + 1, [EnsCap(x, n(y) + 1) EXCEPT !.d = MagAdd(x.d, y.d)])
  BY DEF MutSub
<1>2. CoreValid(x)
  BY <1>1 DEF Reserving, Returns, Hands, Fails, Usable
<1> DEFINE s == -y.sign
           add == MagAdd(x.d, y.d)
           sub == MagSub(x.d, y.d)
           rev == MagSub(y.d, x.d)
           k == n(y) + 1
           l == Len(y.d)
<1>3. /\ x \in Num /\ x.sign \in {1, -1} /\ Len(x.d) \in Nat
      /\ Len(x.d) <= x.cap
      /\ s \in {1, -1} /\ l \in Nat
      /\ Len(add) <= k /\ add \in Seq(Limb) /\ k \in Nat
      /\ sub \in Seq(Limb) /\ Len(sub) = Len(x.d)
      /\ rev \in Seq(Limb) /\ Len(rev) = l /\ Len(rev) <= l
  BY <1>1, <1>2, AcceptedBoth
<1>4. "sub" \in {"add", "sub"} /\ s = (IF "sub" = "add" THEN y.sign ELSE -y.sign)
  OBVIOUS
<1>s. (x.sign = y.sign => x.sign = -s) /\ (x.sign # y.sign => x.sign = s)
  BY <1>3, OperandTyped
<1> HIDE DEF k, l
<1>5. CASE x.d = <<>> /\ \E o \in CopyFromCases(x, y) : Reserving("sub", 0, y, l, [o EXCEPT !.sign = s])
  <2>1. PICK b \in CopyFromCases(x, y) : Reserving("sub", 0, y, l, [b EXCEPT !.sign = s])
    BY <1>5
  <2>2. b \in Num /\ Len(b.d) <= b.cap
    BY <1>3, CopyFromTyped
  <2> DEFINE o == [b EXCEPT !.sign = s]
  <2>3. o \in Num /\ Len(o.d) <= o.cap
    BY <1>3, <2>2, SignPut
  <2>4. Reserving("sub", 0, y, l, o)
    BY <2>1
  <2> HIDE DEF o
  <2>5. SumRight(y, s, o)
    BY <1>5 DEF SumRight
  <2> HIDE DEF s
  <2> QED  BY <1>4, <2>3, <2>4, <2>5, SumReserving
<1>6. CASE x.d = <<>> /\ Returns("sub", 0, y, [x EXCEPT !.sign = s])
  <2> DEFINE o == [x EXCEPT !.sign = s]
  <2>1. o \in Num /\ Len(o.d) <= o.cap
    BY <1>3, SignPut
  <2>2. Returns("sub", 0, y, o)
    BY <1>6
  <2> HIDE DEF o
  <2>3. SumRight(y, s, o)
    BY <1>6 DEF SumRight
  <2> HIDE DEF s
  <2> QED  BY <1>4, <2>1, <2>2, <2>3, SumStep
<1>7. CASE x.sign # y.sign /\ Reserving("sub", 0, y, k, [EnsCap(x, k) EXCEPT !.d = add])
  <2> DEFINE o == [EnsCap(x, k) EXCEPT !.d = add]
  <2>1. o \in Num /\ Len(o.d) <= o.cap /\ o.d = add /\ o.sign = x.sign
    BY <1>3, PutInto
  <2>2. Reserving("sub", 0, y, k, o)
    BY <1>7
  <2> HIDE DEF o
  <2>3. SumRight(y, s, o)
    BY <1>3, <1>7, <1>s, <2>1, SumOf
  <2> HIDE DEF s
  <2> QED  BY <1>4, <2>1, <2>2, <2>3, SumReserving
<1>8. CASE y.d = <<>> /\ Returns("sub", 0, y, x)
  <2>1. Magnitude(y.d) = 0
    BY <1>8, WordValue
  <2>2. SumRight(y, s, x)
    BY <1>3, <2>1, ValOf DEF SumRight
  <2> HIDE DEF s
  <2> QED  BY <1>3, <1>4, <1>8, <2>2, SumStep
<1>9. CASE x.sign = y.sign /\ comp(y) = 0 /\ Returns("sub", 0, y, ResetOf(x))
  <2>1. ResetOf(x) \in Num /\ Len(ResetOf(x).d) <= ResetOf(x).cap /\ Val(ResetOf(x)) = 0
    BY <1>3, ResetTo
  <2>2. SumRight(y, s, ResetOf(x))
    BY <1>3, <1>9, <1>s, <2>1, DifferenceOf
  <2> HIDE DEF s
  <2> QED  BY <1>4, <1>9, <2>1, <2>2, SumStep
<1>10. CASE x.sign = y.sign /\ comp(y) = 1 /\ Returns("sub", 0, y, [x EXCEPT !.d = sub])
  <2> DEFINE o == [x EXCEPT !.d = sub]
  <2>1. o \in Num /\ Len(o.d) <= o.cap /\ o.d = sub /\ o.sign = x.sign
    BY <1>3, PutOver
  <2>2. Returns("sub", 0, y, o)
    BY <1>10
  <2> HIDE DEF o
  <2>3. SumRight(y, s, o)
    BY <1>3, <1>10, <1>s, <2>1, DifferenceOf
  <2> HIDE DEF s
  <2> QED  BY <1>4, <2>1, <2>2, <2>3, SumStep
<1>11. CASE x.sign = y.sign /\ comp(y) = -1 /\ Reserving("sub", 0, y, l, [EnsCap(x, l) EXCEPT !.d = rev, !.sign = -@])
  <2> DEFINE o == [d |-> rev, cap |-> EnsCap(x, l).cap, sign |-> s]
  <2>1. o \in Num /\ Len(o.d) <= o.cap
    BY <1>3, PutSigned
  <2>2. o.d = rev /\ o.sign = s
    OBVIOUS
  <2>3. EnsCap(x, l) \in Num /\ EnsCap(x, l).sign = x.sign
    BY <1>3, Reserved
  <2> DEFINE t == -EnsCap(x, l).sign
  <2>4. t = s
    BY <1>11, <2>3
  <2> HIDE DEF t
  <2>5. [EnsCap(x, l) EXCEPT !.d = rev, !.sign = t] = o
    BY <2>3, <2>4, ExceptSigned
  <2>6. Reserving("sub", 0, y, l, [EnsCap(x, l) EXCEPT !.d = rev, !.sign = t])
    BY <1>11 DEF t
  <2>7. Reserving("sub", 0, y, l, o)
    BY <2>5, <2>6
  <2> HIDE DEF o
  <2>8. SumRight(y, s, o)
    BY <1>3, <1>11, <1>s, <2>1, <2>2, DifferenceOf
  <2> HIDE DEF s
  <2> QED  BY <1>4, <2>1, <2>7, <2>8, SumReserving
<1> QED  BY <1>1, <1>5, <1>6, <1>7, <1>8, <1>9, <1>10, <1>11, SMTT(60) DEF k, l

\* What a product owes of the number o it returns.
ProductRight(y, o) == (IsOne(x) => IsOne(y)) => Mag(Val(o)) = Mag(Val(x)) * Magnitude(y.d)

LEMMA ProductStep ==
  ASSUME NEW y \in Operands, NEW o \in Num, Returns("mul", 0, y, o), Len(o.d) <= o.cap, ProductRight(y, o)
  PROVE  IInv' /\ Exact
<1>1. IInv' /\ x' = o /\ call'.op = "mul" /\ call'.y = y /\ call'.status = "SUCCESS"
  BY CallWordsTyped, Returned
<1>2. Val(x') = Val(o)
  BY <1>1 DEF Val
<1>3. ProductMagnitude
  BY <1>1, <1>2 DEF ProductMagnitude, ProductRight, Succeeds
<1> QED  BY <1>1, <1>3 DEF Exact, WordOpExact, AddSubExact, KeepsContract, Succeeds

LEMMA MutMulStep == IInv /\ MutMul => IInv' /\ Exact
<1> SUFFICES ASSUME IInv, MutMul PROVE IInv' /\ Exact
  OBVIOUS
<1>1. PICK y \in Operands :
        /\ MayAccept(x)
        /\ \/ (x.d = <<>> \/ IsOne(y)) /\ Returns("mul", 0, y, x)
           \/ y.d = <<>> /\ Returns("mul", 0, y, ResetOf(x))
           \/ /\ IsOne(x) /\ ~IsOne(y)
              /\ \E o \in CopyFromCases(x, y) :
                   Reserving("mul", 0, y, Len(y.d), [o EXCEPT !.sign = @ * y.sign])
           \/ /\ x.d # <<>>
              /\ Returns("mul", 0, y, [d |-> Schoolbook(x.d, y.d), cap |-> Len(x.d) + Len(y.d), sign |-> y.sign])
           \/ \E how \in {"DNML_ALLOC_OOM", "CRASH"} : Fails("mul", 0, y, how)
  BY DEF MutMul
<1>2. CASE \E how \in {"DNML_ALLOC_OOM", "CRASH"} : Fails("mul", 0, y, how)
  BY <1>2, FailsStep, CallWordsTyped
<1>3. ASSUME CoreValid(x)
      PROVE  /\ x \in Num /\ x.d \in Seq(Limb) /\ Len(x.d) \in Nat /\ Len(x.d) <= x.cap
             /\ Magnitude(x.d) \in Nat /\ Mag(Val(x)) = Magnitude(x.d)
             /\ x.d = <<>> => Magnitude(x.d) = 0
  BY <1>1, <1>3, Accepted
<1>4. /\ y.d \in Seq(Limb) /\ Len(y.d) \in Nat /\ y.sign \in {1, -1} /\ Magnitude(y.d) \in Nat
      /\ y.d = <<>> => Magnitude(y.d) = 0
      /\ IsOne(y) => Magnitude(y.d) = 1
  BY OperandTyped, WordValue, LimbsTyped DEF IsOne
<1>5. CASE (x.d = <<>> \/ IsOne(y)) /\ Returns("mul", 0, y, x)
  <2>1. CoreValid(x)
    BY <1>5 DEF Returns, Hands, Usable
  <2>2. Mag(Val(x)) = Mag(Val(x)) * Magnitude(y.d)
    BY <1>3, <1>4, <1>5, <2>1
  <2>3. ProductRight(y, x)
    BY <2>2 DEF ProductRight
  <2> QED  BY <1>3, <1>5, <2>1, <2>3, ProductStep
<1>6. CASE y.d = <<>> /\ Returns("mul", 0, y, ResetOf(x))
  <2>1. CoreValid(x)
    BY <1>6 DEF Returns, Hands, Usable
  <2>2. ResetOf(x) \in Num /\ Len(ResetOf(x).d) <= ResetOf(x).cap /\ Val(ResetOf(x)) = 0
    BY <1>3, <2>1, ResetTo
  <2>3. Mag(Val(ResetOf(x))) = Mag(Val(x)) * Magnitude(y.d)
    <3>1. Mag(0) = 0
      BY DEF Mag
    <3> QED  BY <1>3, <1>4, <1>6, <2>1, <2>2, <3>1
  <2>4. ProductRight(y, ResetOf(x))
    BY <2>3 DEF ProductRight
  <2> QED  BY <1>6, <2>2, <2>4, ProductStep
<1>7. CASE /\ IsOne(x) /\ ~IsOne(y)
           /\ \E o \in CopyFromCases(x, y) : Reserving("mul", 0, y, Len(y.d), [o EXCEPT !.sign = @ * y.sign])
  <2>1. PICK b \in CopyFromCases(x, y) : Reserving("mul", 0, y, Len(y.d), [b EXCEPT !.sign = @ * y.sign])
    BY <1>7
  <2>2. CoreValid(x)
    BY <2>1 DEF Reserving, Returns, Hands, Fails, Usable
  <2>3. b \in Num /\ Len(b.d) <= b.cap
    BY <1>3, <2>2, CopyFromTyped
  <2> DEFINE o == [b EXCEPT !.sign = @ * y.sign]
  <2>4. o \in Num /\ o.d = b.d /\ o.cap = b.cap
    BY <1>4, <2>3, SignedOf
  <2>5. Reserving("mul", 0, y, Len(y.d), o)
    BY <2>1
  <2> HIDE DEF o
  <2>6. ProductRight(y, o)
    BY <1>7 DEF ProductRight
  <2>7. Len(o.d) <= o.cap
    BY <2>3, <2>4
  <2>8. IInv' /\ (Exact \/ Returns("mul", 0, y, o))
    BY <2>4, <2>5, <2>7, CallWordsTyped, ReservingStep
  <2> QED  BY <2>4, <2>6, <2>7, <2>8, ProductStep
<1>8. CASE /\ x.d # <<>>
           /\ Returns("mul", 0, y, [d |-> Schoolbook(x.d, y.d), cap |-> Len(x.d) + Len(y.d), sign |-> y.sign])
  <2> DEFINE p == Schoolbook(x.d, y.d)
             c == Len(x.d) + Len(y.d)
             o == [d |-> p, cap |-> c, sign |-> y.sign]
  <2>1. CoreValid(x)
    BY <1>8 DEF Returns, Hands, Usable
  <2>2. p \in Seq(Limb) /\ Len(p) <= c /\ Magnitude(p) = Magnitude(x.d) * Magnitude(y.d)
    BY <1>3, <1>4, <2>1, SchoolbookOf
  <2>3. c \in Nat \ {0}
    <3>1. Len(x.d) \in Nat \ {0}
      BY <1>3, <1>8, <2>1
    <3>2. \A i \in Nat \ {0}, j \in Nat : i + j \in Nat \ {0}
      OBVIOUS
    <3> QED  BY <1>4, <3>1, <3>2
  <2> HIDE DEF p, c
  <2>4. o \in Num
    BY <1>4, <2>2, <2>3, NumMade
  <2>5. o.d = p /\ o.cap = c
    OBVIOUS
  <2>6. Returns("mul", 0, y, o)
    BY <1>8 DEF p, c
  <2> HIDE DEF o
  <2>7. Mag(Val(o)) = Magnitude(p)
    BY <2>4, <2>5, ValOf
  <2>8. ProductRight(y, o)
    BY <1>3, <2>1, <2>2, <2>7 DEF ProductRight
  <2>9. Len(o.d) <= o.cap
    BY <2>2, <2>5
  <2> QED  BY <2>4, <2>6, <2>8, <2>9, ProductStep
<1> QED  BY <1>1, <1>2, <1>5, <1>6, <1>7, <1>8

-----------------------------------------------------------------------------
(* The steps of the calls in place *)

LEMMA NextStep == IInv /\ Next => IInv' /\ Exact
BY RenewStep, RefusedStep, DivisionByZeroStep, GetWordStep, CopyWordStep, DCopyWordStep, MutCopyStep,
   MutDCopyStep, CopyIfFitsStep, CopyTruncatedStep, MutResetStep, MutNormalizeStep, ReserveStep,
   ResizeStep, ShrinkStep, MutMulU64Step, MutMulI64Step, MutDivU64Step, MutDivI64Step, MutModU64Step,
   MutModI64Step, MutAddStep, MutSubStep, MutMulStep DEF Next

-----------------------------------------------------------------------------
(* The calls that read a number *)

\* A number that is greater from some limb on is greater.
LEMMA Dominates ==
  ASSUME NEW a \in Seq(Limb), NEW b \in Seq(Limb), NEW k \in Nat \ {0}, From(a, k) > From(b, k)
  PROVE  Magnitude(a) > Magnitude(b)
<1> DEFINE Q == {i \in Nat \ {0} : From(a, i) > From(b, i)}
<1>1. k - 1 \in Nat /\ (k - 1) + 1 = k /\ k \in Q
  OBVIOUS
<1>2. ASSUME NEW i \in 1 .. k - 1, i + 1 \in Q PROVE i \in Q
  <2>1. i \in Nat \ {0} /\ i + 1 \in Nat \ {0} /\ From(a, i + 1) > From(b, i + 1)
    BY <1>2
  <2>2. /\ From(a, i) \in Nat /\ From(a, i + 1) \in Nat
        /\ From(a, i) = LimbAt(a, i) + Radix * From(a, i + 1)
    BY <2>1, FromOf
  <2>3. /\ From(b, i) \in Nat /\ From(b, i + 1) \in Nat
        /\ From(b, i) = LimbAt(b, i) + Radix * From(b, i + 1)
    BY <2>1, FromOf
  <2>4. LimbAt(a, i) \in Nat /\ LimbAt(b, i) \in Nat /\ LimbAt(b, i) < Radix /\ Radix \in Nat
    BY <2>1, LimbAtOf
  <2> DEFINE A == From(a, i + 1)
             B == From(b, i + 1)
  <2>5. A \in Nat /\ B \in Nat /\ A >= B + 1
    BY <2>1, <2>2, <2>3
  <2> HIDE DEF A, B
  <2>6. Radix * A >= Radix * (B + 1) /\ Radix * (B + 1) = Radix * B + Radix /\ Radix * A \in Nat /\ Radix * B \in Nat
    BY <2>4, <2>5
  <2>7. LimbAt(a, i) + Radix * A > LimbAt(b, i) + Radix * B
    BY <2>4, <2>6
  <2>8. From(a, i) > From(b, i)
    BY <2>2, <2>3, <2>7 DEF A, B
  <2> QED  BY <2>1, <2>8
<1>3. \A i \in 1 .. (k - 1) + 1 : i \in Q
  <2> HIDE DEF Q
  <2> QED  BY <1>1, <1>2, DownInduction
<1>4. From(a, 1) > From(b, 1)
  BY <1>3
<1> QED  BY <1>4, FromOf

\* A longer number whose top limb is not zero is greater.
LEMMA LongerIsGreater ==
  ASSUME NEW a \in Seq(Limb), NEW b \in Seq(Limb), Len(a) > Len(b), a[Len(a)] # 0
  PROVE  Magnitude(a) > Magnitude(b)
<1>0. Len(a) \in Nat /\ Len(b) \in Nat /\ DOMAIN a = 1 .. Len(a) /\ \A i \in 1 .. Len(a) : a[i] \in Nat
  BY DigitTyped
<1>1. Len(a) \in Nat \ {0} /\ Len(a) + 1 \in Nat \ {0} /\ Len(a) \in DOMAIN a /\ Len(a) \in 1 .. Len(a)
      /\ Len(a) + 1 > Len(a)
  BY <1>0
<1>2. From(b, Len(a)) = 0
  BY <1>1, FromOf
<1>3. From(a, Len(a) + 1) = 0
  BY <1>1, FromOf
<1>4. From(a, Len(a)) = LimbAt(a, Len(a)) + Radix * From(a, Len(a) + 1)
  BY <1>1, FromOf
<1>5. LimbAt(a, Len(a)) = a[Len(a)] /\ a[Len(a)] \in Nat /\ Radix \in Nat
  BY <1>0, <1>1, LimbAtOf
<1>6. From(a, Len(a)) > From(b, Len(a))
  BY <1>2, <1>3, <1>4, <1>5
<1> QED  BY <1>1, <1>6, Dominates

\* Of two numbers of one length that is greater whose highest different limb is.
LEMMA DecidedAt ==
  ASSUME NEW a \in Seq(Limb), NEW b \in Seq(Limb), Len(a) = Len(b), NEW t \in 1 .. Len(a),
         \A j \in 1 .. Len(a) : j > t => a[j] = b[j], a[t] > b[t]
  PROVE  Magnitude(a) > Magnitude(b)
<1> DEFINE Q == {i \in Nat \ {0} : i > t => From(a, i) = From(b, i)}
           n == Len(a)
<1>0. /\ n \in Nat /\ DOMAIN a = 1 .. n /\ DOMAIN b = 1 .. n
      /\ \A i \in 1 .. n : a[i] \in Nat /\ b[i] \in Nat
  BY DigitTyped
<1>1. t \in Nat \ {0} /\ t + 1 \in 1 .. n + 1 /\ t + 1 > t /\ t \in 1 .. n
  BY <1>0
<1>2. n + 1 \in Nat \ {0} /\ n + 1 > n
  BY <1>0
<1>3. From(a, n + 1) = 0
  BY <1>2, FromOf
<1>4. From(b, n + 1) = 0
  BY <1>2, FromOf
<1>5. n + 1 \in Q
  BY <1>2, <1>3, <1>4
<1> HIDE DEF n
<1>6. ASSUME NEW i \in 1 .. n, i + 1 \in Q PROVE i \in Q
  <2>1. i \in Nat \ {0} /\ i + 1 \in Nat \ {0} /\ (i > t => i + 1 > t)
    BY <1>0, <1>1
  <2>2. From(a, i) = LimbAt(a, i) + Radix * From(a, i + 1)
    BY <2>1, FromOf
  <2>3. From(b, i) = LimbAt(b, i) + Radix * From(b, i + 1)
    BY <2>1, FromOf
  <2>4. i > t => LimbAt(a, i) = LimbAt(b, i)
    BY <1>0 DEF LimbAt, n
  <2>5. i > t => From(a, i + 1) = From(b, i + 1)
    BY <1>6, <2>1
  <2>6. i > t => From(a, i) = From(b, i)
    BY <2>2, <2>3, <2>4, <2>5
  <2> QED  BY <2>1, <2>6
<1>7. \A i \in 1 .. n + 1 : i \in Q
  <2> HIDE DEF Q
  <2> QED  BY <1>0, <1>5, <1>6, DownInduction
<1>8. From(a, t + 1) = From(b, t + 1)
  BY <1>1, <1>7
<1>9. /\ From(a, t) = LimbAt(a, t) + Radix * From(a, t + 1) /\ From(a, t + 1) \in Nat
  BY <1>1, FromOf
<1>10. From(b, t) = LimbAt(b, t) + Radix * From(b, t + 1)
  BY <1>1, FromOf
<1>11. LimbAt(a, t) = a[t] /\ LimbAt(b, t) = b[t] /\ a[t] \in Nat /\ b[t] \in Nat /\ Radix \in Nat
  BY <1>0, <1>1, LimbAtOf
<1>12. From(a, t) > From(b, t)
  BY <1>8, <1>9, <1>10, <1>11
<1> QED  BY <1>1, <1>12, Dominates

\* The comparison of two numbers of one length looks at that limb.
LEMMA MagCompTop ==
  ASSUME NEW a \in Seq(Limb), NEW b \in Seq(Limb), Len(a) = Len(b), MagComp(a, b) # 0
  PROVE  \E t \in 1 .. Len(a) : /\ \A j \in 1 .. Len(a) : j > t => a[j] = b[j]
                                /\ MagComp(a, b) = 1 => a[t] > b[t]
                                /\ MagComp(a, b) = -1 => b[t] > a[t]
<1> DEFINE differ == {i \in 1 .. Len(a) : a[i] # b[i]}
           top    == CHOOSE i \in differ : \A j \in differ : j <= i
<1>0. Len(a) \in Nat /\ \A i \in 1 .. Len(a) : a[i] \in Nat /\ b[i] \in Nat
  BY DigitTyped
<1>1. differ # {} /\ MagComp(a, b) = IF a[top] > b[top] THEN 1 ELSE -1
  BY <1>0 DEF MagComp
<1>2. \E i \in differ : \A j \in differ : j <= i
  <2> DEFINE S == {n \in Nat : \A j \in differ : j <= n}
  <2>1. differ \subseteq 1 .. Len(a) /\ differ \subseteq Nat
    BY <1>0
  <2> HIDE DEF differ
  <2>2. Len(a) \in S /\ S \subseteq Nat
    BY <1>0, <2>1
  <2>3. PICK m \in S : \A n \in S : m <= n
    <3> HIDE DEF S
    <3> QED  BY <2>2, LeastNumber
  <2>4. m \in Nat /\ \A j \in differ : j <= m
    BY <2>3
  <2>5. CASE m \notin differ
    <3>1. PICK j \in differ : TRUE
      BY <1>1
    <3>2. m >= 1
      BY <2>1, <2>4, <3>1
    <3>3. \A i \in differ : i <= m - 1
      BY <2>1, <2>4, <2>5
    <3>4. m - 1 \in S
      BY <2>4, <3>2, <3>3
    <3> QED  BY <2>3, <2>4, <3>4
  <2> QED  BY <2>4, <2>5
<1>3. top \in differ /\ \A j \in differ : j <= top
  BY <1>2
<1> HIDE DEF top
<1>4. top \in 1 .. Len(a) /\ a[top] # b[top] /\ \A j \in 1 .. Len(a) : j > top => a[j] = b[j]
  BY <1>0, <1>3
<1>5. a[top] \in Nat /\ b[top] \in Nat
  BY <1>0, <1>4
<1>6. (MagComp(a, b) = 1 => a[top] > b[top]) /\ (MagComp(a, b) = -1 => b[top] > a[top])
  BY <1>1, <1>4, <1>5
<1> QED  BY <1>4, <1>6

\* The comparison of two normalised numbers is that of the integers.
LEMMA MagCompOrders ==
  ASSUME NEW a \in Seq(Limb), NEW b \in Seq(Limb),
         a # <<>> => a[Len(a)] # 0, b # <<>> => b[Len(b)] # 0
  PROVE  /\ MagComp(a, b) = 1 => Magnitude(a) > Magnitude(b)
         /\ MagComp(a, b) = -1 => Magnitude(b) > Magnitude(a)
         /\ MagComp(a, b) = 0 => Magnitude(a) = Magnitude(b)
<1>0. Len(a) \in Nat /\ Len(b) \in Nat
  BY DigitTyped
<1>1. MagComp(a, b) \in {-1, 0, 1} /\ (MagComp(a, b) = 0 => a = b)
  BY MagCompOf
<1>2. CASE Len(a) > Len(b)
  <2>1. MagComp(a, b) = 1
    BY <1>0, <1>2 DEF MagComp
  <2>2. a # <<>>
    BY <1>0, <1>2
  <2>3. Magnitude(a) > Magnitude(b)
    BY <1>2, <2>2, LongerIsGreater
  <2> QED  BY <2>1, <2>3
<1>3. CASE Len(b) > Len(a)
  <2>1. MagComp(a, b) = -1
    BY <1>0, <1>3 DEF MagComp
  <2>2. b # <<>>
    BY <1>0, <1>3
  <2>3. Magnitude(b) > Magnitude(a)
    BY <1>3, <2>2, LongerIsGreater
  <2> QED  BY <2>1, <2>3
<1>4. CASE Len(a) = Len(b) /\ MagComp(a, b) # 0
  <2>1. PICK t \in 1 .. Len(a) : /\ \A j \in 1 .. Len(a) : j > t => a[j] = b[j]
                                 /\ MagComp(a, b) = 1 => a[t] > b[t]
                                 /\ MagComp(a, b) = -1 => b[t] > a[t]
    BY <1>4, MagCompTop
  <2>2. MagComp(a, b) = 1 => Magnitude(a) > Magnitude(b)
    BY <1>4, <2>1, DecidedAt
  <2>3. t \in 1 .. Len(b) /\ \A j \in 1 .. Len(b) : j > t => b[j] = a[j]
    BY <1>4, <2>1
  <2>4. MagComp(a, b) = -1 => Magnitude(b) > Magnitude(a)
    BY <1>4, <2>1, <2>3, DecidedAt
  <2> QED  BY <1>1, <1>4, <2>2, <2>4
<1> QED  BY <1>0, <1>1, <1>2, <1>3, <1>4

\* The values of a word: those of an int64_t are a half above and a half below.
LEMMA HalfRangeOf ==
  /\ HalfRange \in Nat \ {0} /\ Radix = 2 * HalfRange
  /\ IntWords = - HalfRange .. HalfRange - 1 /\ Words = 0 .. Radix - 1
<1>1. ByteBase \in Nat /\ LimbBytes \in Nat \ {0} /\ ByteBase % 2 = 0
  BY LimbAssumption, CompareAssumption
<1>2. ByteBase = 2 * (ByteBase \div 2) /\ ByteBase \div 2 \in Nat
  BY <1>1
<1>3. LimbBytes - 1 \in Nat /\ (LimbBytes - 1) + 1 = LimbBytes
  BY <1>1
<1>4. ByteRange(LimbBytes - 1) \in Nat /\ ByteRange(LimbBytes) = ByteBase * ByteRange(LimbBytes - 1)
  BY <1>3, ByteRangeStep
<1> DEFINE h == (ByteBase \div 2) * ByteRange(LimbBytes - 1)
<1>5. h \in Nat /\ Radix = 2 * h
  BY <1>2, <1>4 DEF Radix
<1> HIDE DEF h
<1>6. Radix \div 2 = h /\ (Radix + 1) \div 2 = h
  BY <1>5
<1>7. Radix \in Nat /\ Radix >= 2
  BY ByteRangeDivides
<1> QED  BY <1>5, <1>6, <1>7 DEF HalfRange, IntWords, Words, Limb

LEMMA LengthOf ==
  ASSUME NEW d \in Seq(Limb)
  PROVE  /\ d = <<>> <=> Len(d) = 0
         /\ Len(d) > 1 => \A w \in Limb : d # <<w>>
         /\ d # <<>> /\ ~(Len(d) > 1) => Len(d) = 1
<1>1. Len(<<>>) = 0 /\ (Len(d) = 0 => d = <<>>) /\ Len(d) \in Nat
  OBVIOUS
<1>2. ASSUME NEW w \in Limb PROVE Len(<<w>>) = 1
  OBVIOUS
<1>3. ASSUME NEW w \in Limb, d = <<w>> PROVE Len(d) = 1
  BY <1>2, <1>3
<1>4. ASSUME Len(d) > 1, NEW w \in Limb PROVE d # <<w>>
  <2> DEFINE n == Len(d)
  <2>0. n > 1 /\ n \in Nat
    BY <1>1, <1>4
  <2> HIDE DEF n
  <2>2. ~ (n = 1)
    BY <2>0
  <2>1. ~ (Len(d) = 1)
    BY <2>2 DEF n
  <2> QED  BY <1>3, <2>1
<1>5. d # <<>> /\ ~(Len(d) > 1) => Len(d) = 1
  <2> DEFINE n == Len(d)
  <2>1. n \in Nat /\ (n = 0 => d = <<>>)
    BY <1>1
  <2> HIDE DEF n
  <2>2. d # <<>> /\ ~(n > 1) => n = 1
    BY <2>1
  <2> QED  BY <2>2 DEF n
<1>6. Len(d) > 1 => \A w \in Limb : d # <<w>>
  BY <1>4
<1>7. d = <<>> <=> Len(d) = 0
  BY <1>1
<1> QED  BY <1>5, <1>6, <1>7

\* What the readers see of an acceptable number: nothing, one limb, or more than
\* a limb holds.
LEMMA Seen ==
  ASSUME NEW o \in Num, ArithValid(o)
  PROVE  LET M == Magnitude(o.d)
         IN  /\ o.sign \in {1, -1} /\ M \in Nat /\ Val(o) = o.sign * M /\ Radix \in Nat /\ Len(o.d) \in Nat
             /\ o.d = <<>> => M = 0 /\ o.sign = 1 /\ ~ Long(o) /\ RawLimb(o) = 0
             /\ o.d # <<>> => M > 0
             /\ o.d # <<>> /\ ~ Long(o) => /\ o.d[1] = M /\ M < Radix /\ RawLimb(o) = M
                                           /\ \A w \in Limb : o.d = <<w>> <=> M = w
             /\ Long(o) => M >= Radix /\ o.d # <<>> /\ \A w \in Limb : o.d # <<w>>
<1> DEFINE M == Magnitude(o.d)
<1>1. /\ o.d \in Seq(Limb) /\ o.sign \in {1, -1} /\ Len(o.d) \in Nat /\ M \in Nat
      /\ Radix \in Nat /\ Radix >= 2
  BY NumParts, ByteRangeDivides
<1>2. Val(o) = o.sign * M /\ (o.d = <<>> => M = 0)
  BY ValOf
<1>3. ASSUME o.d = <<>> PROVE o.sign = 1 /\ ~ Long(o) /\ RawLimb(o) = 0
  BY <1>3 DEF ArithValid, Long, RawLimb
<1>4. ASSUME o.d # <<>>, ~ Long(o)
      PROVE  o.d[1] = M /\ M < Radix /\ RawLimb(o) = M /\ M > 0 /\ \A w \in Limb : o.d = <<w>> <=> M = w
  <2>1. Len(o.d) = 1
    BY <1>1, <1>4, LengthOf DEF Long
  <2>2. o.d = <<o.d[1]>> /\ o.d[1] \in Limb /\ o.d[1] # 0
    BY <1>1, <1>4, <2>1 DEF ArithValid
  <2>3. Magnitude(<<o.d[1]>>) = o.d[1]
    BY <2>2, WordValue
  <2>4. M = o.d[1]
    BY <2>2, <2>3
  <2>5. M \in Limb /\ M # 0
    BY <2>2, <2>4
  <2>6. M < Radix /\ M > 0
    BY <1>1, <2>5 DEF Limb
  <2>7. \A w \in Limb : o.d = <<w>> <=> o.d[1] = w
    BY <2>2
  <2> QED  BY <1>4, <2>4, <2>6, <2>7 DEF RawLimb
<1>5. ASSUME Long(o) PROVE M >= Radix /\ o.d # <<>> /\ \A w \in Limb : o.d # <<w>>
  <2>1. Len(o.d) > 1
    BY <1>5 DEF Long
  <2>2. o.d # <<>> /\ \A w \in Limb : o.d # <<w>>
    <3>1. o.d \in Seq(Limb) /\ Len(o.d) # 0
      BY <1>1, <2>1
    <3>2. o.d # <<>>
      BY <3>1, LengthOf
    <3>3. \A w \in Limb : o.d # <<w>>
      BY <2>1, <3>1, LengthOf
    <3> QED  BY <3>2, <3>3
  <2>3. o.d[Len(o.d)] # 0
    BY <2>2 DEF ArithValid
  <2>4. Radix - 1 \in Limb
    BY <1>1 DEF Limb
  <2> DEFINE b == <<Radix - 1>>
  <2>5. b \in Seq(Limb) /\ Len(b) = 1 /\ Magnitude(b) = Radix - 1
    BY <2>4, WordValue
  <2> HIDE DEF b
  <2>6. M > Magnitude(b)
    BY <1>1, <2>1, <2>3, <2>5, LongerIsGreater
  <2> QED  BY <1>1, <2>2, <2>5, <2>6
<1>6. o.d # <<>> => M > 0
  BY <1>1, <1>4, <1>5
<1> QED  BY <1>1, <1>2, <1>3, <1>4, <1>5, <1>6

LEMMA ComparesI64 ==
  ASSUME NEW o \in Num, ArithValid(o), NEW v \in IntWords
  PROVE  /\ EqualI64(o, v) <=> Val(o) = v
         /\ LessI64(o, v) <=> Val(o) < v
         /\ ~(Long(o) /\ o.sign = -1 /\ v < 0) => (MoreI64(o, v) <=> Val(o) > v)
         /\ ~(Val(o) = v /\ v < 0) => (LEqualI64(o, v) <=> Val(o) <= v)
         /\ ~(Val(o) = v /\ v > 0) => (MEqualI64(o, v) <=> Val(o) >= v)
<1> DEFINE M == Magnitude(o.d)
<1>1. /\ o.sign \in {1, -1} /\ M \in Nat /\ Val(o) = o.sign * M /\ Radix \in Nat
      /\ o.d = <<>> => M = 0 /\ o.sign = 1 /\ ~ Long(o)
      /\ o.d # <<>> => M > 0
      /\ o.d # <<>> /\ ~ Long(o) => o.d[1] = M
      /\ o.d # <<>> /\ ~ Long(o) => M < Radix
      /\ o.d # <<>> /\ ~ Long(o) => \A w \in Limb : o.d = <<w>> <=> M = w
      /\ Long(o) => M >= Radix /\ o.d # <<>> /\ \A w \in Limb : o.d # <<w>>
  BY Seen
<1>2. /\ v \in Int /\ Mag(v) < Radix /\ Mag(v) \in Nat /\ Mag(v) \in Limb /\ (v < 0 => SignOf(v) = -1 /\ Mag(v) = -v)
      /\ (v >= 0 => SignOf(v) = 1 /\ Mag(v) = v)
  BY HalfRangeOf DEF Mag, SignOf, Words
<1> HIDE DEF M
<1>3. (o.sign = 1 => Val(o) = M) /\ (o.sign = -1 => Val(o) = -M)
  BY <1>1
<1>4. CASE o.d = <<>>
  <2>1. Val(o) = 0
    BY <1>1, <1>3, <1>4
  <2> QED  BY <1>2, <1>4, <2>1 DEF EqualI64, LessI64, MoreI64, LEqualI64, MEqualI64, Long
<1>5. CASE o.d # <<>> /\ SignOf(v) # o.sign
  <2>1. CASE v < 0
    <3>1. o.sign = 1 /\ SignOf(v) = -1 /\ Val(o) > 0
      BY <1>1, <1>2, <1>3, <1>5, <2>1
    <3>2. ~ EqualI64(o, v) /\ ~ LessI64(o, v) /\ MoreI64(o, v) /\ ~ LEqualI64(o, v) /\ MEqualI64(o, v)
      BY <1>5, <3>1 DEF EqualI64, LessI64, MoreI64, LEqualI64, MEqualI64
    <3>3. Val(o) \in Int /\ Val(o) > v
      BY <1>1, <1>2, <1>3, <2>1, <3>1
    <3> QED  BY <1>2, <3>2, <3>3
  <2>2. CASE v >= 0
    <3>1. o.sign = -1 /\ SignOf(v) = 1 /\ Val(o) < 0
      BY <1>1, <1>2, <1>3, <1>5, <2>2
    <3>2. ~ EqualI64(o, v) /\ LessI64(o, v) /\ ~ MoreI64(o, v) /\ LEqualI64(o, v) /\ ~ MEqualI64(o, v)
      BY <1>5, <3>1 DEF EqualI64, LessI64, MoreI64, LEqualI64, MEqualI64
    <3>3. Val(o) \in Int /\ Val(o) < v
      BY <1>1, <1>2, <1>3, <2>2, <3>1
    <3> QED  BY <1>2, <3>2, <3>3
  <2> QED  BY <1>2, <2>1, <2>2
<1>6. CASE o.d # <<>> /\ SignOf(v) = o.sign /\ Long(o)
  <2>1. M > Mag(v) /\ o.d # <<Mag(v)>>
    BY <1>1, <1>2, <1>6
  <2>2. /\ ~ EqualI64(o, v) /\ MoreI64(o, v) /\ (LessI64(o, v) <=> o.sign = -1)
        /\ (LEqualI64(o, v) <=> o.sign = -1) /\ (MEqualI64(o, v) <=> o.sign = 1)
    BY <1>6, <2>1 DEF EqualI64, LessI64, MoreI64, LEqualI64, MEqualI64
  <2>3. CASE v < 0
    <3>1. o.sign = -1 /\ Val(o) = -M /\ Val(o) < v /\ M \in Nat
      BY <1>1, <1>2, <1>3, <1>6, <2>1, <2>3
    <3> QED  BY <1>2, <1>6, <2>2, <2>3, <3>1
  <2>4. CASE v >= 0
    <3>1. o.sign = 1 /\ Val(o) = M /\ Val(o) > v /\ M \in Nat
      BY <1>1, <1>2, <1>3, <1>6, <2>1, <2>4
    <3> QED  BY <1>2, <1>6, <2>2, <2>4, <3>1
  <2> QED  BY <1>2, <2>3, <2>4
<1>7. CASE o.d # <<>> /\ SignOf(v) = o.sign /\ ~ Long(o)
  <2> DEFINE a == o.d[1]
             w == Mag(v)
  <2>1. a = M /\ (o.d = <<w>> <=> M = w) /\ M \in Nat /\ w \in Nat
    BY <1>1, <1>2, <1>7
  <2> HIDE DEF a, w
  <2>2. EqualI64(o, v) <=> M = w
    BY <1>7, <2>1 DEF EqualI64, w
  <2>3. LessI64(o, v) <=> IF a > w THEN o.sign = -1 ELSE a < w /\ o.sign = 1
    BY <1>7 DEF LessI64, w, a
  <2>4. MoreI64(o, v) <=> IF a < w THEN o.sign = -1 ELSE a > w /\ o.sign = 1
    BY <1>7 DEF MoreI64, w, a
  <2>5. LEqualI64(o, v) <=> IF a > w THEN o.sign = -1 ELSE o.sign = 1
    BY <1>7 DEF LEqualI64, w, a
  <2>6. MEqualI64(o, v) <=> IF a > w THEN o.sign = 1 ELSE o.sign = -1
    BY <1>7 DEF MEqualI64, w, a
  <2>7. (o.sign = 1 => v = w) /\ (o.sign = -1 => v = -w /\ v < 0)
    BY <1>2, <1>7 DEF w
  <2>8. M > 0
    BY <1>1, <1>7
  <2>9. CASE o.sign = 1
    <3>1. Val(o) = M /\ v = w
      BY <1>3, <2>7, <2>9
    <3> QED  BY <1>7, <2>1, <2>2, <2>3, <2>4, <2>5, <2>6, <2>8, <2>9, <3>1
  <2>10. CASE o.sign = -1
    <3>1. Val(o) = -M /\ v = -w /\ v < 0
      BY <1>3, <2>7, <2>10
    <3> QED  BY <1>7, <2>1, <2>2, <2>3, <2>4, <2>5, <2>6, <2>8, <2>10, <3>1
  <2> QED  BY <1>1, <2>9, <2>10
<1> QED  BY <1>4, <1>5, <1>6, <1>7

LEMMA ComparesU64 ==
  ASSUME NEW o \in Num, ArithValid(o), NEW v \in Words
  PROVE  /\ EqualU64(o, v) <=> Val(o) = v
         /\ LessU64(o, v) <=> Val(o) < v
         /\ MoreU64(o, v) <=> Val(o) > v
         /\ LEqualU64(o, v) <=> Val(o) <= v
         /\ MEqualU64(o, v) <=> Val(o) >= v
<1> DEFINE M == Magnitude(o.d)
<1>1. /\ o.sign \in {1, -1} /\ M \in Nat /\ Val(o) = o.sign * M /\ Radix \in Nat
      /\ o.d = <<>> => M = 0 /\ o.sign = 1 /\ ~ Long(o)
      /\ o.d # <<>> => M > 0
      /\ o.d # <<>> /\ ~ Long(o) => o.d[1] = M
      /\ o.d # <<>> /\ ~ Long(o) => (o.d = <<v>> <=> M = v)
      /\ Long(o) => M >= Radix /\ o.d # <<>> /\ o.d # <<v>>
  BY Seen DEF Words
<1>2. v \in Nat /\ v < Radix
  BY HalfRangeOf, <1>1
<1> HIDE DEF M
<1>3. (o.sign = 1 => Val(o) = M) /\ (o.sign = -1 => Val(o) = -M)
  BY <1>1
<1>4. CASE o.d = <<>>
  BY <1>1, <1>2, <1>3, <1>4 DEF EqualU64, LessU64, MoreU64, LEqualU64, MEqualU64
<1>5. CASE o.d # <<>> /\ o.sign = -1
  BY <1>1, <1>2, <1>3, <1>5 DEF EqualU64, LessU64, MoreU64, LEqualU64, MEqualU64
<1>6. CASE o.d # <<>> /\ o.sign = 1 /\ Long(o)
  BY <1>1, <1>2, <1>3, <1>6 DEF EqualU64, LessU64, MoreU64, LEqualU64, MEqualU64
<1>7. CASE o.d # <<>> /\ o.sign = 1 /\ ~ Long(o)
  <2>1. o.d[1] = M /\ (o.d = <<v>> <=> M = v) /\ Val(o) = M /\ M \in Nat
    BY <1>1, <1>3, <1>7
  <2> QED  BY <1>2, <1>7, <2>1 DEF EqualU64, LessU64, MoreU64, LEqualU64, MEqualU64
<1> QED  BY <1>1, <1>4, <1>5, <1>6, <1>7

\* The remainder of an integer, that is of a number of either sign, is what is
\* above a multiple.
LEMMA RemainderOfInteger ==
  ASSUME NEW a \in Int, NEW m \in Nat \ {0}, NEW q \in Int, NEW r \in 0 .. m - 1, a = m * q + r
  PROVE  a % m = r
<1> DEFINE p == a \div m
           t == a % m
<1>1. p \in Int /\ t \in 0 .. m - 1 /\ a = m * p + t
  OBVIOUS
<1> HIDE DEF p, t
<1>2. m * p \in Int /\ m * q \in Int /\ r \in Int /\ t \in Int /\ m \in Int
  BY <1>1
<1>3. m * p + t = m * q + r
  BY <1>1
<1>4. m * (p - q) = m * p - m * q /\ p - q \in Int /\ m * (p - q) \in Int
  BY <1>1
<1>5. m * (p - q) = r - t /\ r - t < m /\ r - t > -m
  BY <1>1, <1>2, <1>3, <1>4
<1>6. CASE p - q >= 1
  <2>1. m * (p - q) >= m
    BY <1>1, <1>6
  <2> QED  BY <1>2, <1>4, <1>5, <2>1
<1>7. CASE p - q <= -1
  <2>1. m * (p - q) <= -m
    BY <1>1, <1>7
  <2> QED  BY <1>2, <1>4, <1>5, <2>1
<1>8. CASE p - q = 0
  <2>1. m * (p - q) = 0
    BY <1>8
  <2>2. r = t
    BY <1>2, <1>5, <2>1
  <2> QED  BY <2>2 DEF t
<1> QED  BY <1>1, <1>6, <1>7, <1>8

\* A number with a top limb that is not zero is not zero.
LEMMA NotNothing ==
  ASSUME NEW d \in Seq(Limb), d # <<>>, d[Len(d)] # 0
  PROVE  Magnitude(d) > 0
<1>1. Len(d) > 0
  BY DigitTyped
<1>2. <<>> \in Seq(Limb) /\ Len(<<>>) = 0 /\ Magnitude(<<>>) = 0
  BY WordValue
<1> QED  BY <1>1, <1>2, LongerIsGreater

LEMMA ComparesObjects ==
  ASSUME NEW o \in Num, ArithValid(o), NEW y \in Operands, ArithValid(y)
  PROVE  /\ Equal(o, y) <=> Val(o) = Val(y)
         /\ Less(o, y) <=> Val(o) < Val(y)
         /\ More(o, y) <=> Val(o) > Val(y)
         /\ LEqual(o, y) <=> Val(o) <= Val(y)
         /\ MEqual(o, y) <=> Val(o) >= Val(y)
<1> DEFINE A == Magnitude(o.d)
           B == Magnitude(y.d)
           comp == MagComp(o.d, y.d)
           s == o.sign
           t == y.sign
<1>1. /\ o.d \in Seq(Limb) /\ s \in {1, -1} /\ A \in Nat
      /\ y.d \in Seq(Limb) /\ t \in {1, -1} /\ B \in Nat
  BY NumParts, OperandTyped
<1>2. Magnitude(<<>>) = 0
  BY WordValue
<1>3. (o.d = <<>> => A = 0 /\ s = 1) /\ (y.d = <<>> => B = 0 /\ t = 1)
  BY <1>2 DEF ArithValid
<1>4. (o.d # <<>> => o.d[Len(o.d)] # 0) /\ (y.d # <<>> => y.d[Len(y.d)] # 0)
  BY DEF ArithValid
<1>5. (o.d # <<>> => A > 0) /\ (y.d # <<>> => B > 0)
  BY <1>1, <1>4, NotNothing
<1>6. (comp = 1 => A > B) /\ (comp = -1 => B > A) /\ (comp = 0 => A = B)
  BY <1>1, <1>4, MagCompOrders
<1>7. comp \in {1, -1, 0}
  BY DEF MagComp
<1>8. Val(o) = s * A /\ Val(y) = t * B
  BY DEF Val
<1>9. /\ Equal(o, y) <=> IF o.d = <<>> THEN y.d = <<>> ELSE s = t /\ comp = 0
      /\ Less(o, y) <=> IF s # t THEN s < t ELSE s * comp < 0
      /\ More(o, y) <=> IF s # t THEN s > t ELSE s * comp > 0
      /\ LEqual(o, y) <=> IF s # t THEN s < t ELSE s * comp <= 0
      /\ MEqual(o, y) <=> IF s # t THEN s > t ELSE s * comp >= 0
  BY DEF Equal, Less, More, LEqual, MEqual, Order
<1> DEFINE VO == Val(o)
           VY == Val(y)
           ea == o.d = <<>>
           eb == y.d = <<>>
<1>10. (s = 1 => VO = A) /\ (s = -1 => VO = -A) /\ (t = 1 => VY = B) /\ (t = -1 => VY = -B)
  BY <1>1, <1>8
<1>11. (s = 1 => s * comp = comp) /\ (s = -1 => s * comp = -comp)
  BY <1>7
<1> HIDE DEF A, B, comp, s, t, VO, VY
<1>12. CASE s = 1 /\ t = 1
  <2>1. VO = A /\ VY = B /\ s * comp = comp
    BY <1>10, <1>11, <1>12
  <2>2. (VO = VY <=> comp = 0) /\ (VO < VY <=> comp = -1) /\ (VO > VY <=> comp = 1)
    BY <1>1, <1>6, <1>7, <2>1
  <2>3. (VO <= VY <=> comp # 1) /\ (VO >= VY <=> comp # -1)
    BY <1>1, <1>6, <1>7, <2>1
  <2>4. (Less(o, y) <=> comp = -1) /\ (More(o, y) <=> comp = 1)
        /\ (LEqual(o, y) <=> comp # 1) /\ (MEqual(o, y) <=> comp # -1)
    BY <1>7, <1>9, <1>12, <2>1
  <2>5. o.d = <<>> => (y.d = <<>> <=> VO = VY)
    BY <1>1, <1>3, <1>5, <2>1
  <2>6. Equal(o, y) <=> VO = VY
    BY <1>9, <1>12, <2>2, <2>5
  <2> QED  BY <2>2, <2>3, <2>4, <2>6 DEF VO, VY
<1>13. CASE s = -1 /\ t = -1
  <2>1. VO = -A /\ VY = -B /\ s * comp = -comp
    BY <1>10, <1>11, <1>13
  <2>2. (VO = VY <=> comp = 0) /\ (VO < VY <=> comp = 1) /\ (VO > VY <=> comp = -1)
    BY <1>1, <1>6, <1>7, <2>1
  <2>3. (VO <= VY <=> comp # -1) /\ (VO >= VY <=> comp # 1)
    BY <1>1, <1>6, <1>7, <2>1
  <2>4. (Less(o, y) <=> comp = 1) /\ (More(o, y) <=> comp = -1)
        /\ (LEqual(o, y) <=> comp # -1) /\ (MEqual(o, y) <=> comp # 1)
    BY <1>7, <1>9, <1>13, <2>1
  <2>5. o.d # <<>>
    BY <1>3, <1>13
  <2>6. Equal(o, y) <=> VO = VY
    BY <1>9, <1>13, <2>2, <2>5
  <2> QED  BY <2>2, <2>3, <2>4, <2>6 DEF VO, VY
<1>14. CASE s = 1 /\ t = -1
  <2>1. VO = A /\ VY = -B /\ y.d # <<>>
    BY <1>3, <1>10, <1>14
  <2>2. VO > VY /\ VO # VY /\ ~ (VO < VY) /\ ~ (VO <= VY) /\ VO >= VY
    BY <1>1, <1>5, <2>1
  <2>3. ~ Equal(o, y) /\ ~ Less(o, y) /\ More(o, y) /\ ~ LEqual(o, y) /\ MEqual(o, y)
    BY <1>9, <1>14, <2>1
  <2> QED  BY <2>2, <2>3 DEF VO, VY
<1>15. CASE s = -1 /\ t = 1
  <2>1. VO = -A /\ VY = B /\ o.d # <<>>
    BY <1>3, <1>10, <1>15
  <2>2. VO < VY /\ VO # VY /\ ~ (VO > VY) /\ VO <= VY /\ ~ (VO >= VY)
    BY <1>1, <1>5, <2>1
  <2>3. ~ Equal(o, y) /\ Less(o, y) /\ ~ More(o, y) /\ LEqual(o, y) /\ ~ MEqual(o, y)
    BY <1>9, <1>15, <2>1
  <2> QED  BY <2>2, <2>3 DEF VO, VY
<1> QED  BY <1>1, <1>12, <1>13, <1>14, <1>15

\* What the wrap of a product leaves of an int64_t, and of the word above them.
LEMMA WrappedOf ==
  /\ \A v \in IntWords : Wrapped(v) = v
  /\ Wrapped(HalfRange) = -HalfRange
<1> DEFINE H == HalfRange
<1>1. H \in Nat \ {0} /\ Radix = 2 * H /\ IntWords = -H .. H - 1
  BY HalfRangeOf
<1> HIDE DEF H
<1>2. ASSUME NEW v \in IntWords PROVE ((v + H) % Radix) - H = v
  <2>1. v + H \in 0 .. Radix - 1 /\ v + H \in Int /\ v + H = Radix * 0 + (v + H)
    BY <1>1
  <2>2. (v + H) % Radix = v + H
    BY <1>1, <2>1, RemainderOfInteger
  <2> QED  BY <1>1, <2>2
<1>3. ((H + H) % Radix) - H = -H
  <2>1. H + H = Radix * 1 + 0 /\ 0 \in 0 .. Radix - 1 /\ H + H \in Int
    BY <1>1
  <2>2. (H + H) % Radix = 0
    BY <1>1, <2>1, RemainderOfInteger
  <2> QED  BY <1>1, <2>2
<1> QED  BY <1>2, <1>3 DEF Wrapped, H

\* A limb with its sign, if it is an int64_t, is what the conversion gives.
LEMMA ToI64Of ==
  ASSUME NEW o, o.sign \in {1, -1}, RawLimb(o) \in Limb, o.sign * RawLimb(o) \in IntWords
  PROVE  ToI64(o) = o.sign * RawLimb(o)
<1> DEFINE H == HalfRange
           raw == RawLimb(o)
           s == o.sign
<1>1. H \in Nat \ {0} /\ Radix = 2 * H /\ IntWords = -H .. H - 1
  BY HalfRangeOf
<1>2. raw \in Nat /\ s \in {1, -1} /\ s * raw \in -H .. H - 1
  BY <1>1, LimbsTyped
<1>3. ToI64(o) = CASE raw > H /\ s = -1 -> -H
                   [] raw >= H /\ s = 1 -> raw % H
                   [] OTHER -> Wrapped(Wrapped(raw) * s)
  BY DEF ToI64
<1>4. (\A v \in IntWords : Wrapped(v) = v) /\ Wrapped(H) = -H
  BY WrappedOf
<1> HIDE DEF H, raw, s
<1>5. ~ (raw > H /\ s = -1) /\ ~ (raw >= H /\ s = 1)
  BY <1>1, <1>2
<1>6. ToI64(o) = Wrapped(Wrapped(raw) * s)
  BY <1>3, <1>5
<1>7. CASE raw < H
  <2>1. raw \in IntWords /\ s * raw \in IntWords /\ raw * s = s * raw
    BY <1>1, <1>2, <1>7
  <2>2. Wrapped(raw) = raw /\ Wrapped(s * raw) = s * raw
    BY <1>4, <2>1
  <2> QED  BY <1>6, <2>1, <2>2 DEF raw, s
<1>8. CASE raw >= H
  <2>1. raw = H /\ s = -1
    BY <1>1, <1>2, <1>8
  <2>2. (-H) * s = H /\ s * raw = -H
    BY <1>1, <2>1
  <2>4. Wrapped(raw) = -H
    BY <1>4, <2>1
  <2>5. Wrapped(raw) * s = H
    BY <2>2, <2>4
  <2>3. Wrapped(Wrapped(raw) * s) = -H
    BY <1>4, <2>5
  <2> QED  BY <1>6, <2>2, <2>3 DEF raw, s
<1> QED  BY <1>1, <1>2, <1>7, <1>8

LEMMA ConvertsNumber ==
  ASSUME NEW o \in Num, ArithValid(o)
  PROVE  /\ ToI64Safe(o) = IF Val(o) \in IntWords THEN Got(Val(o)) ELSE Range64(-HalfRange)
         /\ ToU64Safe(o) = IF Val(o) \in Words THEN Got(Val(o)) ELSE Range64(0)
         /\ ~Long(o) => SetI64Safe(o) = IF Val(o) \in IntWords THEN Got(Val(o)) ELSE Range64(0)
         /\ Val(o) \in IntWords => ToI64(o) = Val(o)
         /\ Val(o) \in Words => ToU64(o) = Val(o)
<1> DEFINE H == HalfRange
           M == Magnitude(o.d)
           raw == RawLimb(o)
           s == o.sign
           V == Val(o)
<1>1. H \in Nat \ {0} /\ Radix = 2 * H /\ IntWords = -H .. H - 1 /\ Words = 0 .. Radix - 1
  BY HalfRangeOf
<1>2. /\ s \in {1, -1} /\ M \in Nat /\ V = s * M
      /\ o.d = <<>> => M = 0 /\ s = 1 /\ ~ Long(o) /\ raw = 0
      /\ o.d # <<>> => M > 0
      /\ o.d # <<>> /\ ~ Long(o) => M < Radix /\ raw = M
      /\ Long(o) => M >= Radix
  BY Seen
<1>3. raw \in Limb
  BY NumParts, DigitTyped, LimbsTyped DEF RawLimb
<1>4. (s = 1 => V = M) /\ (s = -1 => V = -M)
  BY <1>2
<1>5. LimbOutOfRange(o) <=> IF s = -1 THEN raw > H ELSE raw >= H
  BY DEF LimbOutOfRange
<1>6. s = -1 => M > 0
  BY <1>2
<1> HIDE DEF H, M, raw, s, V
<1>7. V \in Int
  BY <1>2, <1>4
<1>8. CASE Long(o)
  <2>2. V \notin IntWords /\ V \notin Words
    BY <1>1, <1>2, <1>4, <1>8
  <2> QED  BY <1>8, <2>2 DEF ToI64Safe, ToU64Safe, V, H
<1>9. CASE ~ Long(o)
  <2>1. raw = M
    BY <1>2, <1>9
  <2>2. LimbOutOfRange(o) <=> V \notin IntWords
    BY <1>1, <1>2, <1>4, <1>5, <2>1
  <2>3. s = -1 <=> V \notin Words
    BY <1>1, <1>2, <1>4, <1>6, <1>9
  <2>4. V \in IntWords => ToI64(o) = V
    BY <1>2, <1>3, <2>1, ToI64Of DEF raw, s
  <2>5. V \in Words => raw = V
    BY <1>2, <1>4, <2>1, <2>3
  <2>6. ToI64Safe(o) = IF V \in IntWords THEN Got(V) ELSE Range64(-H)
    BY <1>9, <2>2, <2>4 DEF ToI64Safe, H
  <2>7. SetI64Safe(o) = IF V \in IntWords THEN Got(V) ELSE Range64(0)
    BY <2>2, <2>4 DEF SetI64Safe
  <2>8. ToU64Safe(o) = IF V \in Words THEN Got(V) ELSE Range64(0)
    BY <1>9, <2>3, <2>5 DEF ToU64Safe, raw, s
  <2>9. ToU64(o) = raw
    BY DEF ToU64, raw
  <2> QED  BY <2>4, <2>5, <2>6, <2>7, <2>8, <2>9 DEF V, H
<1> QED  BY <1>8, <1>9

\* A word made into a number and read back.
LEMMA WordsReadBack ==
  /\ \A v \in IntWords : ToI64(FromI64(v)) = v
  /\ \A v \in Words : ToU64(FromU64(v)) = v
<1>1. ASSUME NEW v \in IntWords PROVE ToI64(FromI64(v)) = v
  <2> DEFINE o == FromI64(v)
  <2>1. o.sign = SignOf(v) /\ o.d = IF v = 0 THEN <<>> ELSE <<Mag(v)>>
    BY DEF FromI64
  <2>2. v \in Int /\ Mag(v) \in Limb /\ SignOf(v) \in {1, -1} /\ v = SignOf(v) * Mag(v)
    BY WordTyped
  <2>3. RawLimb(o) = Mag(v)
    <3>1. CASE v = 0
      BY <2>1, <3>1 DEF RawLimb, Mag
    <3>2. CASE v # 0
      <4>1. o.d = <<Mag(v)>> /\ o.d # <<>> /\ o.d[1] = Mag(v)
        BY <2>1, <3>2
      <4> QED  BY <4>1 DEF RawLimb
    <3> QED  BY <3>1, <3>2
  <2>4. o.sign * RawLimb(o) = v /\ o.sign \in {1, -1} /\ RawLimb(o) \in Limb
    BY <2>1, <2>2, <2>3
  <2> HIDE DEF o
  <2>5. ToI64(o) = o.sign * RawLimb(o)
    BY <2>4, ToI64Of
  <2> QED  BY <2>4, <2>5 DEF o
<1>2. ASSUME NEW v \in Words PROVE ToU64(FromU64(v)) = v
  <2> DEFINE o == FromU64(v)
  <2>1. o.d = IF v = 0 THEN <<>> ELSE <<v>>
    BY DEF FromU64
  <2>2. v # 0 => o.d # <<>> /\ o.d[1] = v
    BY <2>1
  <2> HIDE DEF o
  <2> QED  BY <2>1, <2>2 DEF ToU64, RawLimb, o
<1> QED  BY <1>1, <1>2

\* The Euclidean remainder by a word is that of the signed number.
LEMMA EmodWordOf ==
  ASSUME NEW o \in Num, ArithValid(o), NEW v \in (Words \cup IntWords) \ {0}
  PROVE  EmodWord(o, v) = Val(o) % Mag(v)
<1> DEFINE M == Magnitude(o.d)
           m == Mag(v)
           s == o.sign
           V == Val(o)
           q == Magnitude(DivModWord(o.d, m).quot)
           r == DivModWord(o.d, m).rem
<1>1. m \in Limb \ {0} /\ m \in Nat \ {0}
  <2>1. CASE v \in Words
    BY <2>1, WordTyped DEF Mag
  <2>2. CASE v \in IntWords
    BY <2>2, WordTyped
  <2> QED  BY <2>1, <2>2
<1>2. /\ s \in {1, -1} /\ M \in Nat /\ V = s * M /\ V \in Int
      /\ o.d = <<>> => M = 0 /\ s = 1 /\ ~ Long(o)
      /\ o.d # <<>> => M > 0
      /\ o.d # <<>> /\ ~ Long(o) => o.d[1] = M
  BY Seen, ValOf
<1>3. /\ DivModWord(o.d, m).quot \in Seq(Limb) /\ r \in 0 .. m - 1 /\ M = m * q + r
  BY <1>1, NumParts, DivModWordOf
<1>4. q \in Nat
  BY <1>3, FromOf
<1>5. EmodWord(o, v) = CASE m = 1 \/ o.d = <<>> -> 0
                         [] Len(o.d) = 1 /\ s = 1 /\ o.d[1] < m -> o.d[1]
                         [] OTHER -> Emod(o, m)
  BY DEF EmodWord
<1>6. Emod(o, m) = IF s = -1 /\ r # 0 THEN (m - r) % m ELSE r
  BY DEF Emod
<1>7. Len(o.d) = 1 => o.d # <<>> /\ ~ Long(o)
  BY DEF Long
<1> HIDE DEF M, m, s, V, q, r
<1>8. (s = 1 => V = M) /\ (s = -1 => V = -M)
  BY <1>2
<1>9. ASSUME s = 1 PROVE V % m = r
  <2>1. V = m * q + r
    BY <1>3, <1>8, <1>9
  <2>2. V \in Int /\ m \in Nat \ {0} /\ q \in Int /\ r \in 0 .. m - 1
    BY <1>1, <1>2, <1>3, <1>4
  <2> QED  BY <2>1, <2>2, RemainderOfInteger
<1>10. ASSUME s = -1, r = 0 PROVE V % m = 0
  <2> DEFINE p == -q
  <2>1. p \in Int /\ m * p = -(m * q) /\ m * q \in Nat
    BY <1>1, <1>4
  <2> HIDE DEF p
  <2>2. V = m * p + 0 /\ 0 \in 0 .. m - 1
    BY <1>1, <1>2, <1>3, <1>8, <1>10, <2>1
  <2>3. V \in Int /\ m \in Nat \ {0} /\ p \in Int /\ 0 \in 0 .. m - 1 /\ V = m * p + 0
    BY <1>1, <1>2, <2>1, <2>2
  <2> QED  BY <2>3, RemainderOfInteger
<1>11. ASSUME s = -1, r # 0 PROVE V % m = m - r /\ (m - r) % m = m - r
  <2> DEFINE p == -q - 1
  <2>1. p \in Int /\ m * p = -(m * q) - m /\ m * q \in Nat
    BY <1>1, <1>4
  <2> HIDE DEF p
  <2>2. V = m * p + (m - r) /\ m - r \in 0 .. m - 1
    BY <1>1, <1>2, <1>3, <1>8, <1>11, <2>1, SMTT(60)
  <2>3. m - r = m * 0 + (m - r) /\ m - r \in Int
    BY <1>1, <2>2
  <2> DEFINE t == m - r
  <2>6. V \in Int /\ m \in Nat \ {0} /\ p \in Int /\ t \in 0 .. m - 1 /\ V = m * p + t
    BY <1>1, <1>2, <2>1, <2>2
  <2> HIDE DEF t
  <2>7. V % m = t
    BY <2>6, RemainderOfInteger
  <2>4. V % m = m - r
    BY <2>7 DEF t
  <2>5. (m - r) % m = m - r
    BY <1>1, <2>2, <2>3, RemainderOfInteger
  <2> QED  BY <2>4, <2>5
<1>12. Emod(o, m) = V % m
  <2>1. CASE s = 1
    BY <1>6, <1>9, <2>1
  <2>2. CASE s = -1 /\ r = 0
    BY <1>6, <1>10, <2>2
  <2>3. CASE s = -1 /\ r # 0
    BY <1>6, <1>11, <2>3
  <2> QED  BY <1>2, <2>1, <2>2, <2>3
<1>13. CASE m = 1 \/ o.d = <<>>
  <2>1. V % m = 0
    <3>1. CASE m = 1
      <4>1. r = 0
        BY <1>3, <3>1
      <4> QED  BY <1>2, <1>9, <1>10, <4>1
    <3>2. CASE o.d = <<>>
      <4>1. V = 0 /\ 0 = m * 0 + 0 /\ 0 \in 0 .. m - 1
        BY <1>1, <1>2, <1>8, <3>2
      <4> QED  BY <1>1, <4>1, RemainderOfInteger
    <3> QED  BY <1>13, <3>1, <3>2
  <2>2. ~ (Len(o.d) = 1 /\ s = 1 /\ o.d[1] < m)
    BY <1>1, <1>2, <1>7, <1>13
  <2>3. EmodWord(o, v) = 0
    BY <1>5, <1>13, <2>2
  <2> QED  BY <2>1, <2>3 DEF V, m
<1>14. CASE ~ (m = 1 \/ o.d = <<>>) /\ Len(o.d) = 1 /\ s = 1 /\ o.d[1] < m
  <2>1. V = M /\ o.d[1] = M /\ M = m * 0 + M /\ M \in 0 .. m - 1
    BY <1>1, <1>2, <1>7, <1>8, <1>14
  <2>2. V % m = M
    BY <1>1, <1>2, <2>1, RemainderOfInteger
  <2>3. EmodWord(o, v) = o.d[1]
    BY <1>5, <1>14
  <2> QED  BY <2>1, <2>2, <2>3 DEF V, m
<1>15. CASE ~ (m = 1 \/ o.d = <<>>) /\ ~ (Len(o.d) = 1 /\ s = 1 /\ o.d[1] < m)
  <2>1. EmodWord(o, v) = Emod(o, m)
    BY <1>5, <1>15
  <2> QED  BY <1>12, <2>1 DEF V, m
<1> QED  BY <1>13, <1>14, <1>15

\* The reading calls are true of every number that is acceptable.
LEMMA ReadersOfNumber == OperandsValid /\ IInv => ReadersExact
<1> SUFFICES ASSUME OperandsValid, IInv PROVE ReadersExact
  OBVIOUS
<1>1. x \in Num /\ \A y \in Operands : ArithValid(y)
  BY DEF IInv, OperandsValid
<1>2. ComparesExact
  BY <1>1, ComparesI64, ComparesU64, ComparesObjects DEF ComparesExact
<1>3. ConvertsExact
  BY <1>1, ConvertsNumber, WordsReadBack DEF ConvertsExact
<1>4. EuclideanExact
  BY <1>1, EmodWordOf DEF EuclideanExact
<1> QED  BY <1>2, <1>3, <1>4 DEF ReadersExact

-----------------------------------------------------------------------------
(* The calls that make a new number, and those left out of the mutative part *)

\* What a step keeps: the invariant, and what the calls are bound to.
Kept == IInv' /\ Exact /\ ResultsAcceptable /\ WithinBlock

\* Limbs and a sign that the next call accepts.
Proper(d, s) == IF d = <<>> THEN s = 1 ELSE d[Len(d)] # 0

\* The calls whose limbs may outgrow the array made for them.
Outgrows(op, y) ==
  \/ op \in {"fdivu64", "fdivi64"} /\ Long(x)
  \/ op \in {"fadd", "fsub"} /\ (Long(x) \/ Long(y))

LEMMA ExpWord == \A e \in 0 .. MaxExp : e \in CallWords /\ e \in Nat
<1>1. MaxExp \in Nat /\ MaxExp < Radix /\ Radix \in Nat
  BY FuncAssumption, LimbsTyped, ByteRangeDivides DEF Words
<1>2. \A e \in 0 .. MaxExp : e \in Limb /\ e \in Nat
  BY <1>1 DEF Limb
<1> QED  BY <1>2 DEF CallWords, Words

LEMMA HandsKept ==
  ASSUME NEW op, op \notin Computing, op # "canonicalize", op # "shrink", NEW w \in CallWords, NEW y,
         NEW o \in Num, NEW status, status # "OVERRUN", Hands(op, w, y, o, status), Len(o.d) <= o.cap,
         op \notin Making \/ ArithValid(o)
  PROVE  Kept
<1>1. IInv'
  BY HandsStep
<1>2. x' = o /\ call' = [op |-> op, word |-> w, y |-> y, status |-> status]
  BY DEF Hands
<1>3. call'.op = op /\ call'.status = status
  BY <1>2
<1>4. Exact
  BY <1>3, NotComputing
<1>5. ArithValid(x)' = ArithValid(o)
  BY <1>2 DEF ArithValid
<1>6. ResultsAcceptable
  BY <1>3, <1>5 DEF ResultsAcceptable, Succeeds, Making
<1>7. WithinBlock
  BY <1>3 DEF WithinBlock
<1> QED  BY <1>1, <1>4, <1>6, <1>7 DEF Kept

LEMMA ReturnsKept ==
  ASSUME NEW op, op \notin Computing, op # "canonicalize", op # "shrink", NEW w \in CallWords, NEW y,
         NEW o \in Num, Returns(op, w, y, o), Len(o.d) <= o.cap,
         op \notin Making \/ ArithValid(o)
  PROVE  Kept
<1>1. Hands(op, w, y, o, "SUCCESS") /\ "SUCCESS" # "OVERRUN"
  BY DEF Returns
<1> QED  BY <1>1, HandsKept

LEMMA FailsKept ==
  ASSUME IInv, NEW op, NEW w \in CallWords, NEW y, NEW status, status # "SUCCESS",
         status = "OVERRUN" => Outgrows(op, y), Fails(op, w, y, status)
  PROVE  Kept
<1>1. IInv' /\ Exact
  BY FailsStep
<1>2. call' = [op |-> op, word |-> w, y |-> y, status |-> status]
  BY DEF Fails
<1>3. call'.op = op /\ call'.status = status /\ call'.y = y
  BY <1>2
<1>4. ResultsAcceptable
  BY <1>3 DEF ResultsAcceptable, Succeeds
<1>5. WithinBlock
  BY <1>3 DEF WithinBlock, Outgrows
<1> QED  BY <1>1, <1>4, <1>5 DEF Kept

LEMMA BlockKept ==
  ASSUME IInv, NEW op, op \notin Computing, op # "canonicalize", op # "shrink", NEW w \in CallWords, NEW y,
         NEW k \in Nat, NEW d \in Seq(Limb), NEW s \in {1, -1}, Block(op, w, y, k, d, s),
         Len(d) <= Larger(1, k) \/ Outgrows(op, y),
         op \notin Making \/ Proper(d, s)
  PROVE  Kept
<1> DEFINE c == Larger(1, k)
           o == [d |-> d, cap |-> c, sign |-> s]
<1>1. c \in Nat \ {0}
  BY DEF Larger
<1>2. o \in Num /\ o.d = d /\ o.cap = c /\ o.sign = s
  BY <1>1, NumMade
<1>3. ArithValid(o) = Proper(d, s)
  BY <1>2 DEF ArithValid, Proper
<1>4. CASE Fails(op, w, y, "DNML_ALLOC_OOM")
  BY <1>4, FailsKept
<1>5. CASE Len(d) <= c /\ Returns(op, w, y, o)
  <2> HIDE DEF o
  <2> QED  BY <1>2, <1>3, <1>5, ReturnsKept
<1>6. CASE ~ (Len(d) <= c) /\ Fails(op, w, y, "OVERRUN")
  BY <1>6, FailsKept
<1> QED  BY <1>4, <1>5, <1>6 DEF Block

\* One word, and nothing.
LEMMA WordOf ==
  ASSUME NEW v \in Limb
  PROVE  /\ Word(v) \in Seq(Limb) /\ Len(Word(v)) \in {0, 1} /\ Magnitude(Word(v)) = v
         /\ (Word(v) = <<>> <=> v = 0) /\ (v # 0 => Word(v)[Len(Word(v))] # 0)
<1>1. CASE v = 0
  BY <1>1, WordValue DEF Word
<1>2. CASE v # 0
  <2>1. Word(v) = <<v>> /\ <<v>> # <<>> /\ <<v>>[1] = v
    BY <1>2 DEF Word
  <2> QED  BY <1>2, <2>1, WordValue
<1> QED  BY <1>1, <1>2

LEMMA OneWordKept ==
  ASSUME IInv, NEW op, op \notin Computing, op # "canonicalize", op # "shrink", NEW w \in CallWords, NEW y,
         NEW v \in Limb, NEW s \in {1, -1}, v = 0 => s = 1, OneWord(op, w, y, v, s)
  PROVE  Kept
<1>1. Word(v) \in Seq(Limb) /\ Len(Word(v)) <= Larger(1, 1) /\ 1 \in Nat
  BY WordOf DEF Larger
<1>2. Proper(Word(v), s)
  BY WordOf DEF Proper
<1>3. Block(op, w, y, 1, Word(v), s)
  BY DEF OneWord
<1> QED  BY <1>1, <1>2, <1>3, BlockKept

LEMMA OneWordUncheckedKept ==
  ASSUME IInv, NEW op, op \notin Computing, op # "canonicalize", op # "shrink", op \notin Making,
         NEW w \in CallWords, NEW y, NEW v \in Limb, NEW s \in {1, -1}, OneWordUnchecked(op, w, y, v, s)
  PROVE  Kept
<1> DEFINE o == [d |-> Word(v), cap |-> 1, sign |-> s]
<1>1. Word(v) \in Seq(Limb) /\ Len(Word(v)) <= 1 /\ 1 \in Nat \ {0}
  BY WordOf
<1>2. o \in Num /\ Len(o.d) <= o.cap
  BY <1>1, NumMade
<1> HIDE DEF o
<1>3. CASE Returns(op, w, y, o)
  BY <1>2, <1>3, ReturnsKept
<1>4. CASE Fails(op, w, y, "NO_LIMBS")
  BY <1>4, FailsKept
<1> QED  BY <1>3, <1>4 DEF OneWordUnchecked, o

\* No limbs: of the making calls, with a positive sign.
LEMMA NothingKept ==
  ASSUME IInv, NEW op, op \notin Computing, op # "canonicalize", op # "shrink", NEW w \in CallWords, NEW y,
         NEW s \in {1, -1}, s = 1 \/ op \notin Making, Block(op, w, y, 0, <<>>, s)
  PROVE  Kept
<1>1. <<>> \in Seq(Limb) /\ Len(<<>>) <= Larger(1, 0) /\ 0 \in Nat
  BY DEF Larger
<1>2. op \notin Making \/ Proper(<<>>, s)
  BY DEF Proper
<1> QED  BY <1>1, <1>2, BlockKept

LEMMA ZeroKept ==
  ASSUME IInv, NEW op, op \notin Computing, op # "canonicalize", op # "shrink", NEW w \in CallWords, NEW y,
         ZeroResult(op, w, y)
  PROVE  Kept
BY NothingKept DEF ZeroResult

\* A copy of acceptable limbs.
LEMMA DuplicateKept ==
  ASSUME IInv, NEW op, op \notin Computing, op # "canonicalize", op # "shrink", NEW w \in CallWords, NEW y,
         NEW o, o.d \in Seq(Limb), NEW s \in {1, -1}, Duplicate(op, w, y, o, s),
         op \notin Making \/ Proper(o.d, s)
  PROVE  Kept
<1> DEFINE d == o.d
<1>1. d \in Seq(Limb) /\ Len(d) \in Nat /\ Len(d) <= Larger(1, Len(d))
  BY DigitTyped DEF Larger
<1>2. Block(op, w, y, Len(d), d, s) /\ (op \notin Making \/ Proper(d, s))
  BY DEF Duplicate
<1> HIDE DEF d
<1> QED  BY <1>1, <1>2, BlockKept

LEMMA HeapDivisionKept ==
  ASSUME IInv, NEW op, NEW y, HeapDivision(op, y)
  PROVE  Kept
<1>1. PICK how \in {"DNML_ALLOC_OOM", "CRASH"} : Fails(op, 0, y, how)
  BY DEF HeapDivision
<1>2. how # "SUCCESS" /\ how # "OVERRUN" /\ 0 \in CallWords
  BY CallWordsTyped
<1> QED  BY <1>1, <1>2, FailsKept

\* The calls of the mutative part make no number, and outgrow no array.
Plain == call'.op \notin Making \cup {"canonicalize"} /\ call'.status # "OVERRUN"

LEMMA PlainKept == Plain => ResultsAcceptable /\ WithinBlock
BY DEF Plain, ResultsAcceptable, WithinBlock, Succeeds, Making

LEMMA PlainReturns ==
  ASSUME NEW op, NEW w, NEW y, NEW o, op \notin Making \cup {"canonicalize"}, Returns(op, w, y, o)
  PROVE  Plain
<1>1. call' = [op |-> op, word |-> w, y |-> y, status |-> "SUCCESS"]
  BY DEF Returns, Hands
<1> QED  BY <1>1 DEF Plain

LEMMA PlainFails ==
  ASSUME NEW op, NEW w, NEW y, NEW status, op \notin Making \cup {"canonicalize"}, status # "OVERRUN",
         Fails(op, w, y, status)
  PROVE  Plain
<1>1. call' = [op |-> op, word |-> w, y |-> y, status |-> status]
  BY DEF Fails
<1> QED  BY <1>1 DEF Plain

LEMMA PlainReserving ==
  ASSUME NEW op, NEW w, NEW y, NEW k, NEW o, op \notin Making \cup {"canonicalize"}, Reserving(op, w, y, k, o)
  PROVE  Plain
BY PlainReturns, PlainFails DEF Reserving

LEMMA PlainNext == Next => Plain
<1> USE DEF Making
<1>1. Renew => Plain
  BY DEF Renew, New, Plain
<1>2. Refused => Plain
  BY PlainFails DEF Refused, WordOps, IntOps, ObjectOps
<1>3. DivisionByZero => Plain
  BY PlainFails DEF DivisionByZero, WordOps, IntOps
<1>4. GetWord => Plain
  BY PlainReturns DEF GetWord
<1>5. CopyWord => Plain
  BY PlainReturns DEF CopyWord
<1>6. DCopyWord => Plain
  BY PlainReturns, PlainFails DEF DCopyWord
<1>7. MutCopy => Plain
  BY PlainReserving, PlainFails DEF MutCopy
<1>8. MutDCopy => Plain
  BY PlainReturns, PlainFails DEF MutDCopy
<1>9. CopyIfFits => Plain
  BY PlainReturns, PlainFails DEF CopyIfFits
<1>10. CopyTruncated => Plain
  BY PlainReturns, PlainFails DEF CopyTruncated
<1>11. MutReset => Plain
  BY PlainReturns DEF MutReset
<1>12. MutNormalize => Plain
  BY PlainReturns DEF MutNormalize
<1>13. Reserve => Plain
  BY PlainReserving DEF Reserve
<1>14. Resize => Plain
  BY PlainReturns, PlainFails DEF Resize
<1>15. Shrink => Plain
  BY PlainReturns, PlainFails DEF Shrink
<1>16. MutMulU64 => Plain
  BY PlainReturns, PlainReserving DEF MutMulU64
<1>17. MutMulI64 => Plain
  BY PlainReturns, PlainReserving DEF MutMulI64
<1>18. MutDivU64 => Plain
  BY PlainReturns DEF MutDivU64
<1>19. MutDivI64 => Plain
  BY PlainReturns DEF MutDivI64
<1>20. MutModU64 => Plain
  BY PlainReturns DEF MutModU64
<1>21. MutModI64 => Plain
  BY PlainReturns DEF MutModI64
<1>22. MutAdd => Plain
  BY PlainReturns, PlainReserving DEF MutAdd
<1>23. MutSub => Plain
  BY PlainReturns, PlainReserving DEF MutSub
<1>24. MutMul => Plain
  BY PlainReturns, PlainReserving, PlainFails DEF MutMul
<1> QED  BY <1>1, <1>2, <1>3, <1>4, <1>5, <1>6, <1>7, <1>8, <1>9, <1>10, <1>11, <1>12, <1>13, <1>14,
            <1>15, <1>16, <1>17, <1>18, <1>19, <1>20, <1>21, <1>22, <1>23, <1>24 DEF Next

LEMMA NextKept == IInv /\ Next => Kept
BY NextStep, PlainNext, PlainKept DEF Kept

-----------------------------------------------------------------------------
(* Refusals, copies, utilities *)

\* A word that is passed by value: the magnitude is a limb.
LEMMA WordPassed ==
  /\ \A v \in Words : v \in CallWords /\ v \in Limb /\ Mag(v) = v /\ Mag(v) \in Limb /\ v \in Nat
  /\ \A v \in IntWords : v \in CallWords /\ Mag(v) \in Limb /\ SignOf(v) \in {1, -1} /\ (v # 0 <=> Mag(v) # 0)
  /\ 0 \in CallWords /\ 0 \in Limb /\ 1 \in Limb
  /\ \A v \in Limb : v \in Nat
<1>1. ASSUME NEW v \in Words
      PROVE  v \in CallWords /\ v \in Limb /\ Mag(v) = v /\ Mag(v) \in Limb /\ v \in Nat
  BY WordTyped, CallWordsTyped DEF Mag
<1>2. ASSUME NEW v \in IntWords
      PROVE  v \in CallWords /\ Mag(v) \in Limb /\ SignOf(v) \in {1, -1} /\ (v # 0 <=> Mag(v) # 0)
  <2>1. v \in Int /\ Mag(v) \in Limb /\ SignOf(v) \in {1, -1} /\ (v # 0 => Mag(v) # 0) /\ v \in CallWords
    BY WordTyped, CallWordsTyped
  <2>2. v = 0 => Mag(v) = 0
    BY DEF Mag
  <2> QED  BY <2>1, <2>2
<1> QED  BY <1>1, <1>2, CallWordsTyped, LimbsTyped

LEMMA FuncRefusedKept == IInv /\ FuncRefused => Kept
<1> SUFFICES ASSUME IInv, FuncRefused PROVE Kept
  OBVIOUS
<1>1. PICK op, y : Fails(op, 0, y, "BIGINT_ERR_INVAL")
  BY DEF FuncRefused
<1> QED  BY <1>1, FailsKept, WordPassed

LEMMA FuncDivisionByZeroKept == IInv /\ FuncDivisionByZero => Kept
<1> SUFFICES ASSUME IInv, FuncDivisionByZero PROVE Kept
  OBVIOUS
<1>1. ASSUME NEW op, Fails(op, 0, Zero, "BIGINT_ERR_DOMAIN") PROVE Kept
  BY <1>1, FailsKept, WordPassed
<1>2. ASSUME NEW op, Fails(op, 0, Zero, "BIGINT_ERR_INVAL") PROVE Kept
  BY <1>2, FailsKept, WordPassed
<1> QED  BY <1>1, <1>2 DEF FuncDivisionByZero

LEMMA FCopyWordKept == IInv /\ FCopyWord => Kept
<1> SUFFICES ASSUME IInv, FCopyWord PROVE Kept
  OBVIOUS
<1>0. "fcopyu64" \notin Computing /\ "fcopyi64" \notin Computing
  BY DEF Computing
<1>1. ASSUME NEW v \in Words, OneWord("fcopyu64", v, Zero, v, 1) PROVE Kept
  BY <1>0, <1>1, WordPassed, OneWordKept
<1>2. ASSUME NEW v \in IntWords, OneWord("fcopyi64", v, Zero, Mag(v), SignOf(v)) PROVE Kept
  <2>1. v \in CallWords /\ Mag(v) \in Limb /\ SignOf(v) \in {1, -1} /\ (v # 0 <=> Mag(v) # 0)
    BY WordPassed
  <2>2. Mag(v) = 0 => SignOf(v) = 1
    BY <2>1 DEF SignOf
  <2> QED  BY <1>0, <1>2, <2>1, <2>2, OneWordKept
<1> QED  BY <1>1, <1>2 DEF FCopyWord

\* An operand the call accepts.
LEMMA AcceptedNumber ==
  ASSUME IInv, MayAccept(x)
  PROVE  x \in Num /\ x.d \in Seq(Limb) /\ x.sign \in {1, -1} /\ Len(x.d) \in Nat /\ ArithValid(x)
         /\ Proper(x.d, x.sign) /\ x.cap \in Nat \ {0} /\ Magnitude(x.d) \in Nat
BY NumParts DEF IInv, MayAccept, ArithValid, Proper

LEMMA AcceptedOperand ==
  ASSUME NEW y \in Operands, MayAccept(y)
  PROVE  y.d \in Seq(Limb) /\ y.sign \in {1, -1} /\ Len(y.d) \in Nat /\ ArithValid(y) /\ Proper(y.d, y.sign)
         /\ Magnitude(y.d) \in Nat
BY OperandTyped DEF MayAccept, ArithValid, Proper

LEMMA FCopyKept == IInv /\ FCopy => Kept
<1> SUFFICES ASSUME IInv, FCopy PROVE Kept
  OBVIOUS
<1>0. "fcopy" \notin Computing /\ "fcopy" # "canonicalize" /\ "fcopy" # "shrink"
  BY DEF Computing
<1>1. MayAccept(x) /\ Duplicate("fcopy", 0, Zero, x, x.sign)
  BY DEF FCopy
<1>2. x.d \in Seq(Limb) /\ x.sign \in {1, -1} /\ Proper(x.d, x.sign)
  BY <1>1, AcceptedNumber
<1> QED  BY <1>0, <1>1, <1>2, WordPassed, DuplicateKept

LEMMA FCopySizedKept == IInv /\ FCopySized => Kept
<1> SUFFICES ASSUME IInv, FCopySized PROVE Kept
  OBVIOUS
<1>0. /\ "focopy" \notin Computing /\ "focopy" # "canonicalize" /\ "focopy" # "shrink"
      /\ "ftover" \notin Computing /\ "ftover" # "canonicalize" /\ "ftover" # "shrink" /\ "ftover" \notin Making
  BY DEF Computing, Making
<1>1. PICK k \in 0 .. MaxCap :
        /\ MayAccept(x)
        /\ \/ k < Len(x.d) /\ Fails("focopy", k, Zero, "BIGINT_ERR_RANGE")
           \/ k >= Len(x.d) /\ Block("focopy", k, Zero, k, x.d, x.sign)
           \/ k = 0 /\ ZeroResult("ftover", k, Zero)
           \/ k > 0 /\ Block("ftover", k, Zero, k, Cut(x.d, k), x.sign)
  BY DEF FCopySized
<1>2. x.d \in Seq(Limb) /\ x.sign \in {1, -1} /\ Proper(x.d, x.sign) /\ Len(x.d) \in Nat
  BY <1>1, AcceptedNumber
<1>3. k \in Nat /\ k \in CallWords
  BY MutAssumption, CallWordsTyped
<1>4. CASE Fails("focopy", k, Zero, "BIGINT_ERR_RANGE")
  BY <1>3, <1>4, FailsKept
<1>5. CASE k >= Len(x.d) /\ Block("focopy", k, Zero, k, x.d, x.sign)
  <2>1. Len(x.d) <= Larger(1, k)
    BY <1>2, <1>3, <1>5 DEF Larger
  <2> QED  BY <1>0, <1>2, <1>3, <1>5, <2>1, BlockKept
<1>6. CASE ZeroResult("ftover", k, Zero)
  BY <1>0, <1>3, <1>6, ZeroKept
<1>7. CASE Block("ftover", k, Zero, k, Cut(x.d, k), x.sign)
  <2> DEFINE c == Cut(x.d, k)
  <2>1. c \in Seq(Limb) /\ Len(c) \in Nat /\ Len(c) <= k
    BY <1>2, <1>3, CutOf
  <2>2. Len(c) <= Larger(1, k)
    BY <1>3, <2>1 DEF Larger
  <2>3. Block("ftover", k, Zero, k, c, x.sign)
    BY <1>7
  <2> HIDE DEF c
  <2> QED  BY <1>0, <1>2, <1>3, <2>1, <2>2, <2>3, BlockKept
<1> QED  BY <1>1, <1>4, <1>5, <1>6, <1>7

LEMMA TransferKept == IInv /\ Transfer => Kept
<1> SUFFICES ASSUME IInv, Transfer PROVE Kept
  OBVIOUS
<1>0. "transfer" \notin Computing /\ "transfer" # "canonicalize" /\ "transfer" # "shrink" /\ "transfer" \notin Making
  BY DEF Computing, Making
<1>1. PICK y \in Operands : \E c \in Larger(1, Len(y.d)) .. MaxCap :
        Returns("transfer", 0, y, [d |-> y.d, cap |-> c, sign |-> y.sign])
  BY DEF Transfer
<1>2. PICK c \in Larger(1, Len(y.d)) .. MaxCap :
        Returns("transfer", 0, y, [d |-> y.d, cap |-> c, sign |-> y.sign])
  BY <1>1
<1>3. y.d \in Seq(Limb) /\ y.sign \in {1, -1} /\ Len(y.d) \in Nat
  BY OperandTyped
<1>4. c \in Nat \ {0} /\ Len(y.d) <= c
  BY <1>3, MutAssumption DEF Larger
<1> DEFINE o == [d |-> y.d, cap |-> c, sign |-> y.sign]
<1>5. o \in Num /\ Len(o.d) <= o.cap /\ Returns("transfer", 0, y, o)
  BY <1>2, <1>3, <1>4, NumMade
<1> HIDE DEF o
<1> QED  BY <1>0, <1>5, WordPassed, ReturnsKept

LEMMA UnwrittenKept == IInv /\ Unwritten => Kept
<1> SUFFICES ASSUME IInv, Unwritten PROVE Kept
  OBVIOUS
<1>0. "mut_modadd" \notin Computing /\ "mut_modadd" \notin Making
  BY DEF Computing, Making
<1>1. CASE Returns("mut_modadd", 0, Zero, x)
  <2>1. CoreValid(x)
    BY <1>1 DEF Returns, Hands, Usable
  <2>2. x \in Num /\ Len(x.d) <= x.cap
    BY <2>1, UsableTyped
  <2> QED  BY <1>0, <1>1, <2>2, WordPassed, ReturnsKept
<1>2. CASE Fails("modadd", 0, Zero, "NO_LIMBS")
  BY <1>2, FailsKept, WordPassed
<1> QED  BY <1>1, <1>2 DEF Unwritten

LEMMA CanonicalizeKept == IInv /\ Canonicalize => Kept
<1> SUFFICES ASSUME IInv, Canonicalize PROVE Kept
  OBVIOUS
<1>1. x' = Canonical(x) /\ call' = [op |-> "canonicalize", word |-> 0, y |-> Zero, status |-> "SUCCESS"]
  BY DEF Canonicalize
<1>2. x \in Num /\ x.d \in Seq(Limb) /\ x.cap \in Nat \ {0} /\ x.sign \in {1, -1}
  BY NumParts DEF IInv
<1> DEFINE f == Cut(x.d, x.cap)
           o == [d |-> f, cap |-> x.cap, sign |-> x.sign]
<1>3. f \in Seq(Limb) /\ Len(f) <= x.cap
  BY <1>2, CutOf
<1>4. [x EXCEPT !.d = Cut(@, x.cap)] = [x EXCEPT !.d = f]
  BY <1>2
<1> HIDE DEF f
<1>5. [x EXCEPT !.d = f] = o
  BY <1>2, ExceptOne
<1>6. o \in Num /\ Len(o.d) <= o.cap /\ o.sign \in {1, -1} /\ o.cap \in Nat \ {0}
  BY <1>2, <1>3, NumMade
<1>7. ~ (x.cap < 1)
  BY <1>2
<1>8. Canonical(x) = IF o.sign \in {1, -1} THEN o ELSE ResetOf(o)
  BY <1>4, <1>5, <1>7 DEF Canonical
<1>9. Canonical(x) = o
  BY <1>6, <1>8
<1> HIDE DEF o
<1>10. x' = o
  BY <1>1, <1>9
<1>11. CoreValid(x)'
  BY <1>6, <1>10 DEF CoreValid
<1>12. call'.op = "canonicalize" /\ call'.status = "SUCCESS" /\ call'.word = 0 /\ "canonicalize" \in Ops
  BY <1>1 DEF Canonicalize
<1>17. x'.d \in Seq(Limb) /\ x' \in Num
  BY <1>6, <1>10, NumParts
<1>13. IInv'
  BY <1>11, <1>12, <1>17, WordPassed DEF IInv, CoreContract, CallWords
<1>14. Exact
  <2>1. "canonicalize" \notin Computing
    BY DEF Computing
  <2> QED  BY <1>12, <2>1, NotComputing
<1>15. ResultsAcceptable
  <2>1. call'.op \notin Making
    BY <1>12 DEF Making
  <2> QED  BY <1>11, <2>1 DEF ResultsAcceptable, Succeeds
<1>16. WithinBlock
  BY <1>12 DEF WithinBlock
<1> QED  BY <1>13, <1>14, <1>15, <1>16 DEF Kept

-----------------------------------------------------------------------------
(* The kernels of the functional part *)

\* The carry that leaves a limb, of which the one out of the sum counts twice.
TwiceCarry(limb, v, carry) ==
  ((limb * v) \div Radix + (IF ((limb * v) % Radix) + carry >= Radix THEN 2 ELSE 0)) % Radix

LEMMA TwiceCarryTyped ==
  ASSUME NEW limb \in Limb, NEW v \in Limb, NEW carry \in Limb
  PROVE  TwiceCarry(limb, v, carry) \in Limb
<1>1. limb \in Nat /\ v \in Nat /\ carry \in Nat /\ Radix \in Nat \ {0}
  BY LimbsTyped, ByteRangeDivides
<1> DEFINE p == limb * v
<1>2. p \in Nat
  BY <1>1
<1> HIDE DEF p
<1>6. p \div Radix \in Nat /\ p % Radix \in 0 .. Radix - 1
  BY <1>1, <1>2, Division
<1>3. p \div Radix \in Nat /\ p % Radix \in Nat
  BY <1>1, <1>6
<1> DEFINE t == p \div Radix + (IF (p % Radix) + carry >= Radix THEN 2 ELSE 0)
<1>4. t \in Nat
  BY <1>1, <1>3
<1> HIDE DEF t
<1>5. t % Radix \in 0 .. Radix - 1
  BY <1>1, <1>4, Division
<1> QED  BY <1>5 DEF TwiceCarry, Limb, t, p

\* Those carries are limbs.
LEMMA TwiceCarriesOf ==
  ASSUME NEW d \in Seq(Limb), NEW v \in Limb
  PROVE  /\ TwiceCarries(d, v)[0] = 0 /\ \A i \in 0 .. Len(d) : TwiceCarries(d, v)[i] \in Limb
         /\ \A i \in 1 .. Len(d) : TwiceCarries(d, v)[i] = TwiceCarry(d[i], v, TwiceCarries(d, v)[i - 1])
<1> DEFINE Step(r) == [i \in 0 .. Len(d) |-> IF i = 0 THEN 0 ELSE TwiceCarry(d[i], v, r[i - 1])]
           c == CHOOSE r : r = Step(r)
           g == [i \in 1 .. Len(d) |-> [s \in Limb |-> TwiceCarry(d[i], v, s)]]
<1>n. Len(d) \in Nat /\ 0 \in Limb
  BY DigitTyped, LimbsTyped
<1>0. ASSUME NEW i \in 1 .. Len(d), NEW s \in Limb PROVE TwiceCarry(d[i], v, s) \in Limb
  <2>1. d[i] \in Limb
    BY DigitTyped
  <2> QED  BY <2>1, TwiceCarryTyped
<1>1. Fits(Len(d), Limb, g) /\ \A i \in 1 .. Len(d) : \A s \in Limb : g[i][s] = TwiceCarry(d[i], v, s)
  BY <1>0 DEF Fits
<1> HIDE DEF g
<1>2. PICK f \in [0 .. Len(d) -> Limb] : Run(Len(d), 0, g, f)
  BY <1>n, <1>1, Recursion DEF Runs
<1>3. \A i \in 1 .. Len(d) : f[i - 1] \in Limb
  BY <1>n
<1>4. f[0] = 0 /\ \A i \in 1 .. Len(d) : f[i] = TwiceCarry(d[i], v, f[i - 1])
  BY <1>1, <1>2, <1>3 DEF Run
<1>5. f = Step(f)
  BY <1>4
<1>6. c = Step(c)
  BY <1>5
<1>7. TwiceCarries(d, v) = c
  BY DEF TwiceCarries, TwiceCarry
<1> HIDE DEF c
<1> DEFINE e == Step(c)
<1>8. e[0] = 0 /\ \A i \in 1 .. Len(d) : e[i] = TwiceCarry(d[i], v, c[i - 1])
  <2>1. \A i \in 0 .. Len(d) : e[i] = IF i = 0 THEN 0 ELSE TwiceCarry(d[i], v, c[i - 1])
    OBVIOUS
  <2> HIDE DEF e
  <2> QED  BY <1>n, <2>1
<1> HIDE DEF e
<1>9. c[0] = 0 /\ \A i \in 1 .. Len(d) : c[i] = TwiceCarry(d[i], v, c[i - 1])
  BY <1>6, <1>8 DEF e
<1>10. \A i \in 0 .. Len(d) : c[i] \in Limb
  <2>1. c[0] \in Limb /\ Follows(Len(d), Limb, g, c)
    BY <1>n, <1>1, <1>9 DEF Follows
  <2> QED  BY <1>n, <1>1, <2>1, RunTyped
<1> QED  BY <1>7, <1>9, <1>10

\* The remainders under the swapped words are below the divisor.
LEMMA SwappedRemsOf ==
  ASSUME NEW d \in Seq(Limb), NEW v \in Limb \ {0}
  PROVE  /\ SwappedRems(d, v)[0] = 0 /\ \A i \in 0 .. Len(d) : SwappedRems(d, v)[i] \in (0 .. v - 1)
         /\ \A i \in 1 .. Len(d) : SwappedRems(d, v)[i] = SwappedStep(d[Len(d) + 1 - i], SwappedRems(d, v)[i - 1], v)
<1> DEFINE Step(r) == [i \in 0 .. Len(d) |-> IF i = 0 THEN 0 ELSE SwappedStep(d[Len(d) + 1 - i], r[i - 1], v)]
           c == CHOOSE r : r = Step(r)
           g == [i \in 1 .. Len(d) |-> [s \in (0 .. v - 1) |-> SwappedStep(d[Len(d) + 1 - i], s, v)]]
<1>n. Len(d) \in Nat /\ 0 \in (0 .. v - 1)
  BY DigitTyped, LimbsTyped
<1>0. ASSUME NEW i \in 1 .. Len(d), NEW s \in (0 .. v - 1) PROVE SwappedStep(d[Len(d) + 1 - i], s, v) \in (0 .. v - 1)
  <2> DEFINE l == d[Len(d) + 1 - i]
  <2>1. l \in Nat /\ v \in Nat \ {0} /\ s \in Nat /\ Radix \in Nat
    BY DigitTyped, LimbsTyped, ByteRangeDivides
  <2> HIDE DEF l
  <2>2. l * Radix + s \in Nat
    BY <2>1
  <2>3. s % v \in 0 .. v - 1 /\ l % v \in 0 .. v - 1 /\ (l * Radix + s) % v \in 0 .. v - 1
    BY <2>1, <2>2, Division
  <2>4. SwappedStep(l, s, v) \in {s % v, l % v, (l * Radix + s) % v}
    <3>1. CASE l = 0
      BY <2>1, <3>1 DEF SwappedStep
    <3>2. CASE l # 0 /\ l >= v
      BY <2>1, <3>2 DEF SwappedStep
    <3>3. CASE l # 0 /\ ~ (l >= v)
      BY <2>1, <3>3 DEF SwappedStep
    <3> QED  BY <3>1, <3>2, <3>3
  <2> QED  BY <2>3, <2>4 DEF l
<1>1. Fits(Len(d), (0 .. v - 1), g) /\ \A i \in 1 .. Len(d) : \A s \in (0 .. v - 1) : g[i][s] = SwappedStep(d[Len(d) + 1 - i], s, v)
  BY <1>0 DEF Fits
<1> HIDE DEF g
<1>2. PICK f \in [0 .. Len(d) -> (0 .. v - 1)] : Run(Len(d), 0, g, f)
  BY <1>n, <1>1, Recursion DEF Runs
<1>3. \A i \in 1 .. Len(d) : f[i - 1] \in (0 .. v - 1)
  BY <1>n
<1>4. f[0] = 0 /\ \A i \in 1 .. Len(d) : f[i] = SwappedStep(d[Len(d) + 1 - i], f[i - 1], v)
  BY <1>1, <1>2, <1>3 DEF Run
<1>5. f = Step(f)
  BY <1>4
<1>6. c = Step(c)
  BY <1>5
<1>7. SwappedRems(d, v) = c
  BY DEF SwappedRems
<1> HIDE DEF c
<1> DEFINE e == Step(c)
<1>8. e[0] = 0 /\ \A i \in 1 .. Len(d) : e[i] = SwappedStep(d[Len(d) + 1 - i], c[i - 1], v)
  <2>1. \A i \in 0 .. Len(d) : e[i] = IF i = 0 THEN 0 ELSE SwappedStep(d[Len(d) + 1 - i], c[i - 1], v)
    OBVIOUS
  <2> HIDE DEF e
  <2> QED  BY <1>n, <2>1
<1> HIDE DEF e
<1>9. c[0] = 0 /\ \A i \in 1 .. Len(d) : c[i] = SwappedStep(d[Len(d) + 1 - i], c[i - 1], v)
  BY <1>6, <1>8 DEF e
<1>10. \A i \in 0 .. Len(d) : c[i] \in (0 .. v - 1)
  <2>1. c[0] \in (0 .. v - 1) /\ Follows(Len(d), (0 .. v - 1), g, c)
    BY <1>n, <1>1, <1>9 DEF Follows
  <2> QED  BY <1>n, <1>1, <2>1, RunTyped
<1> QED  BY <1>7, <1>9, <1>10

LEMMA SwappedRemOf ==
  ASSUME NEW d \in Seq(Limb), NEW v \in Limb \ {0}
  PROVE  SwappedRem(d, v) \in 0 .. v - 1 /\ SwappedRem(d, v) \in Limb
<1>1. Len(d) \in Nat /\ v \in Nat /\ v < Radix /\ Radix \in Nat
  BY DigitTyped, LimbsTyped, ByteRangeDivides
<1>2. SwappedRem(d, v) \in 0 .. v - 1
  BY <1>1, SwappedRemsOf DEF SwappedRem
<1> QED  BY <1>1, <1>2 DEF Limb

\* The product by a word has a limb more at most.
LEMMA MagMulWordOf ==
  ASSUME NEW d \in Seq(Limb), NEW v \in Limb
  PROVE  MagMulWord(d, v) \in Seq(Limb) /\ Len(MagMulWord(d, v)) <= Len(d) + 1
<1> DEFINE n == Len(d)
           c == TwiceCarries(d, v)
           u == [i \in 1 .. n |-> (d[i] * v + c[i - 1]) % Radix]
<1>1. n \in Nat
  BY DigitTyped
<1>2. \A i \in 0 .. n : c[i] \in Limb
  BY TwiceCarriesOf
<1>3. MagMulWord(d, v) = IF c[n] = 0 THEN u ELSE Append(u, c[n])
  BY DEF MagMulWord
<1> HIDE DEF c
<1>4. ASSUME NEW i \in 1 .. n PROVE (d[i] * v + c[i - 1]) % Radix \in Limb
  <2>0. i - 1 \in 0 .. n /\ i \in 1 .. Len(d)
    BY <1>1
  <2>4. c[i - 1] \in Limb
    BY <1>2, <2>0
  <2>1. d[i] \in Limb /\ d[i] \in Nat /\ v \in Nat /\ c[i - 1] \in Limb /\ c[i - 1] \in Nat /\ 0 \in Limb
    BY <2>0, <2>4, DigitTyped, LimbsTyped
  <2>2. (0 + d[i] * v + c[i - 1]) % Radix \in Limb
    BY <2>1, DoubleLimb
  <2>3. 0 + d[i] * v + c[i - 1] = d[i] * v + c[i - 1]
    BY <2>1
  <2> QED  BY <2>2, <2>3
<1>5. u \in Seq(Limb) /\ Len(u) = n
  BY <1>1, <1>4
<1> HIDE DEF u
<1>6. c[n] \in Limb
  BY <1>1, <1>2
<1>7. Append(u, c[n]) \in Seq(Limb) /\ Len(Append(u, c[n])) = n + 1
  BY <1>5, <1>6
<1> QED  BY <1>1, <1>3, <1>5, <1>7

LEMMA SignProduct ==
  ASSUME NEW s \in {1, -1}, NEW t \in {1, -1}
  PROVE  s * t \in {1, -1} /\ -t \in {1, -1}
OBVIOUS

\* A product by a word into an array with room for it.
LEMMA ProductKept ==
  ASSUME IInv, MayAccept(x), NEW op \in {"fmulu64", "fmuli64"}, NEW w \in CallWords, NEW v \in Limb,
         NEW s \in {1, -1}, Block(op, w, Zero, ProductRoom(x.d), MagMulWord(x.d, v), s)
  PROVE  Kept
<1> DEFINE p == MagMulWord(x.d, v)
           k == ProductRoom(x.d)
<1>0. op \notin Computing /\ op \notin Making /\ op # "canonicalize" /\ op # "shrink"
  BY DEF Computing, Making
<1>1. x.d \in Seq(Limb) /\ Len(x.d) \in Nat
  BY AcceptedNumber
<1>2. p \in Seq(Limb) /\ Len(p) <= Len(x.d) + 1 /\ Len(p) \in Nat
  BY <1>1, MagMulWordOf, DigitTyped
<1>3. k \in Nat /\ k = Len(x.d) + 1
  BY <1>1 DEF ProductRoom
<1>4. Len(p) <= Larger(1, k)
  BY <1>1, <1>2, <1>3 DEF Larger
<1>5. Block(op, w, Zero, k, p, s)
  OBVIOUS
<1> HIDE DEF p, k
<1> QED  BY <1>0, <1>2, <1>3, <1>4, <1>5, BlockKept, ZenonT(60)

LEMMA FMulU64Kept == IInv /\ FMulU64 => Kept
<1> SUFFICES ASSUME IInv, FMulU64 PROVE Kept
  OBVIOUS
<1>0. "fmulu64" \notin Computing /\ "fmulu64" \notin Making
  BY DEF Computing, Making
<1>1. PICK v \in Words :
        /\ MayAccept(x)
        /\ \/ (x.d = <<>> \/ v = 0) /\ Block("fmulu64", v, Zero, 0, <<>>, x.sign)
           \/ IsOne(x) /\ v > 0 /\ OneWordUnchecked("fmulu64", v, Zero, v, x.sign)
           \/ x.d # <<>> /\ ~IsOne(x) /\ v = 1 /\ Duplicate("fmulu64", v, Zero, x, x.sign)
           \/ /\ x.d # <<>> /\ ~IsOne(x) /\ v > 1
              /\ Block("fmulu64", v, Zero, ProductRoom(x.d), MagMulWord(x.d, v), x.sign)
  BY DEF FMulU64
<1>2. x.d \in Seq(Limb) /\ x.sign \in {1, -1} /\ v \in CallWords /\ v \in Limb
  BY <1>1, AcceptedNumber, WordPassed
<1>3. CASE Block("fmulu64", v, Zero, 0, <<>>, x.sign)
  BY <1>0, <1>2, <1>3, NothingKept
<1>4. CASE OneWordUnchecked("fmulu64", v, Zero, v, x.sign)
  BY <1>0, <1>2, <1>4, OneWordUncheckedKept
<1>5. CASE Duplicate("fmulu64", v, Zero, x, x.sign)
  BY <1>0, <1>2, <1>5, DuplicateKept
<1>6. CASE Block("fmulu64", v, Zero, ProductRoom(x.d), MagMulWord(x.d, v), x.sign)
  BY <1>1, <1>2, <1>6, ProductKept
<1> QED  BY <1>1, <1>3, <1>4, <1>5, <1>6

LEMMA FMulI64Kept == IInv /\ FMulI64 => Kept
<1> SUFFICES ASSUME IInv, FMulI64 PROVE Kept
  OBVIOUS
<1>0. "fmuli64" \notin Computing /\ "fmuli64" \notin Making
  BY DEF Computing, Making
<1>1. PICK v \in IntWords :
        /\ MayAccept(x)
        /\ \/ Block("fmuli64", v, Zero, 0, <<>>, x.sign * SignOf(v))
           \/ OneWordUnchecked("fmuli64", v, Zero, Mag(v), x.sign * SignOf(v))
           \/ Duplicate("fmuli64", v, Zero, x, x.sign * SignOf(v))
           \/ Block("fmuli64", v, Zero, ProductRoom(x.d), MagMulWord(x.d, Mag(v)), x.sign * SignOf(v))
  BY DEF FMulI64
<1> DEFINE s == x.sign * SignOf(v)
           m == Mag(v)
<1>2. x.d \in Seq(Limb) /\ v \in CallWords /\ m \in Limb /\ x.sign \in {1, -1} /\ SignOf(v) \in {1, -1}
  BY <1>1, AcceptedNumber, WordPassed
<1>3. s \in {1, -1}
  BY <1>2, SignProduct
<1>4. \/ Block("fmuli64", v, Zero, 0, <<>>, s)
      \/ OneWordUnchecked("fmuli64", v, Zero, m, s)
      \/ Duplicate("fmuli64", v, Zero, x, s)
      \/ Block("fmuli64", v, Zero, ProductRoom(x.d), MagMulWord(x.d, m), s)
  BY <1>1
<1> HIDE DEF s, m
<1>5. CASE Block("fmuli64", v, Zero, 0, <<>>, s)
  BY <1>0, <1>2, <1>3, <1>5, NothingKept
<1>6. CASE OneWordUnchecked("fmuli64", v, Zero, m, s)
  BY <1>0, <1>2, <1>3, <1>6, OneWordUncheckedKept
<1>7. CASE Duplicate("fmuli64", v, Zero, x, s)
  BY <1>0, <1>2, <1>3, <1>7, DuplicateKept
<1>8. CASE Block("fmuli64", v, Zero, ProductRoom(x.d), MagMulWord(x.d, m), s)
  BY <1>1, <1>2, <1>3, <1>8, ProductKept
<1> QED  BY <1>4, <1>5, <1>6, <1>7, <1>8

LEMMA QuotientByWordKept ==
  ASSUME IInv, MayAccept(x), NEW op \in {"fdivu64", "fdivi64"}, NEW v \in CallWords, NEW s \in {1, -1},
         QuotientByWord(op, v, s)
  PROVE  Kept
<1>0. op \notin Computing /\ op # "canonicalize" /\ op # "shrink"
  BY DEF Computing
<1>1. x.d \in Seq(Limb) /\ Len(x.d) \in Nat /\ Proper(x.d, x.sign)
  BY AcceptedNumber
<1>2. x.d # <<>> => Proper(x.d, s)
  BY <1>1 DEF Proper
<1>3. CASE ZeroResult(op, v, Zero)
  BY <1>0, <1>3, ZeroKept
<1>4. CASE x.d # <<>> /\ Duplicate(op, v, Zero, x, s)
  BY <1>0, <1>1, <1>2, <1>4, DuplicateKept
<1>5. CASE Len(x.d) > 1 /\ Block(op, v, Zero, 0, x.d, s)
  <2>1. Outgrows(op, Zero)
    BY <1>5 DEF Outgrows, Long
  <2>2. x.d # <<>>
    BY <1>1, <1>5, LengthOf
  <2> QED  BY <1>0, <1>1, <1>2, <1>5, <2>1, <2>2, BlockKept
<1> QED  BY <1>3, <1>4, <1>5 DEF QuotientByWord

LEMMA FDivWordKept == IInv /\ FDivWord => Kept
<1> SUFFICES ASSUME IInv, FDivWord PROVE Kept
  OBVIOUS
<1>1. MayAccept(x) /\ x.sign \in {1, -1}
  BY AcceptedNumber DEF FDivWord
<1>2. ASSUME NEW v \in Words \ {0}, QuotientByWord("fdivu64", v, x.sign) PROVE Kept
  BY <1>1, <1>2, WordPassed, QuotientByWordKept
<1>3. ASSUME NEW v \in IntWords \ {0}, QuotientByWord("fdivi64", v, x.sign * SignOf(v)) PROVE Kept
  <2> DEFINE s == x.sign * SignOf(v)
  <2>1. s \in {1, -1} /\ v \in CallWords
    BY <1>1, WordPassed, SignProduct
  <2>2. QuotientByWord("fdivi64", v, s)
    BY <1>3
  <2> HIDE DEF s
  <2> QED  BY <1>1, <2>1, <2>2, QuotientByWordKept
<1> QED  BY <1>2, <1>3 DEF FDivWord

LEMMA RemainderByWordKept ==
  ASSUME IInv, MayAccept(x), NEW op \in {"fmodu64", "fmodi64"}, NEW v \in CallWords, Mag(v) \in Limb \ {0},
         RemainderByWord(op, v)
  PROVE  Kept
<1> DEFINE m == Mag(v)
           rem == SwappedRem(x.d, m)
<1>0. op \notin Computing /\ op # "canonicalize" /\ op # "shrink"
  BY DEF Computing
<1>1. x.d \in Seq(Limb) /\ x.sign \in {1, -1} /\ Proper(x.d, x.sign)
  BY AcceptedNumber
<1>2. rem \in Limb /\ RemSign(rem) \in {1, -1} /\ (rem = 0 => RemSign(rem) = 1)
  BY <1>1, SwappedRemOf DEF RemSign
<1>3. \/ ZeroResult(op, v, Zero)
      \/ Duplicate(op, v, Zero, x, x.sign)
      \/ OneWord(op, v, Zero, rem, RemSign(rem))
      \/ Fails(op, v, Zero, "DARENA_OVERFLOW")
  BY DEF RemainderByWord
<1> HIDE DEF rem, m
<1>4. CASE ZeroResult(op, v, Zero)
  BY <1>0, <1>4, ZeroKept
<1>5. CASE Duplicate(op, v, Zero, x, x.sign)
  BY <1>0, <1>1, <1>5, DuplicateKept
<1>6. CASE OneWord(op, v, Zero, rem, RemSign(rem))
  BY <1>0, <1>2, <1>6, OneWordKept
<1>7. CASE Fails(op, v, Zero, "DARENA_OVERFLOW")
  BY <1>7, FailsKept
<1> QED  BY <1>3, <1>4, <1>5, <1>6, <1>7

LEMMA FModWordKept == IInv /\ FModWord => Kept
<1> SUFFICES ASSUME IInv, FModWord PROVE Kept
  OBVIOUS
<1>1. MayAccept(x)
  BY DEF FModWord
<1>2. ASSUME NEW v \in Words \ {0}, RemainderByWord("fmodu64", v) PROVE Kept
  <2>1. v \in CallWords /\ Mag(v) \in Limb \ {0}
    BY WordPassed
  <2> QED  BY <1>1, <1>2, <2>1, RemainderByWordKept
<1>3. ASSUME NEW v \in IntWords \ {0}, RemainderByWord("fmodi64", v) PROVE Kept
  <2>1. v \in CallWords /\ Mag(v) \in Limb \ {0}
    BY WordPassed
  <2> QED  BY <1>1, <1>3, <2>1, RemainderByWordKept
<1> QED  BY <1>2, <1>3 DEF FModWord

-----------------------------------------------------------------------------
(* Arithmetic with another number *)

LEMMA LargerOf ==
  ASSUME NEW m \in Nat, NEW n \in Nat
  PROVE  Larger(m, n) \in Nat /\ Larger(m, n) >= m /\ Larger(m, n) >= n /\ Larger(m, n) \in {m, n}
BY DEF Larger

\* Limbs into an array of one: a sum or a difference fits if the operands are words.
LEMMA TightKept ==
  ASSUME IInv, NEW op \in {"fadd", "fsub"}, NEW y \in Operands, x.d \in Seq(Limb), x.d # <<>>, y.d # <<>>,
         NEW d \in Seq(Limb), Len(d) <= Larger(Len(x.d), Len(y.d)), NEW s \in {1, -1}, Block(op, 0, y, 0, d, s)
  PROVE  Kept
<1>0. op \notin Computing /\ op # "canonicalize" /\ op # "shrink" /\ op \notin Making
  BY DEF Computing, Making
<1>1. Len(x.d) \in Nat /\ Len(y.d) \in Nat /\ Len(d) \in Nat
  BY OperandTyped, DigitTyped
<1>2. Len(d) <= Larger(1, 0) \/ Outgrows(op, y)
  BY <1>1 DEF Larger, Outgrows, Long
<1>3. 0 \in Nat /\ 0 \in CallWords
  BY WordPassed
<1> QED  BY <1>0, <1>2, <1>3, BlockKept

LEMMA SumKept ==
  ASSUME IInv, MayAccept(x), NEW op \in {"fadd", "fsub"}, NEW y \in Operands, NEW s \in {1, -1}, Sum(op, y, s)
  PROVE  Kept
<1>0. op \notin Computing /\ op # "canonicalize" /\ op # "shrink" /\ op \notin Making /\ 0 \in CallWords
  BY WordPassed DEF Computing, Making
<1>1. x.d \in Seq(Limb) /\ x.sign \in {1, -1} /\ Len(x.d) \in Nat /\ y.d \in Seq(Limb) /\ Len(y.d) \in Nat
  BY AcceptedNumber, OperandTyped
<1> DEFINE t == IF x.d = <<>> THEN 1 ELSE x.sign
           A == MagAdd(x.d, y.d)
           S == MagSub(x.d, y.d)
           R == MagSub(y.d, x.d)
           n == Larger(Len(x.d), Len(y.d))
<1>2. t \in {1, -1}
  BY <1>1
<1>3. A \in Seq(Limb) /\ Len(A) <= n
  BY <1>1, MagAddOf, LargerOf, ZenonT(60)
<1>4. S \in Seq(Limb) /\ Len(S) <= n
  BY <1>1, MagSubOf, LargerOf
<1>5. R \in Seq(Limb) /\ Len(R) <= n
  BY <1>1, MagSubOf, LargerOf
<1>6. \/ Duplicate(op, 0, y, x, t)
      \/ Duplicate(op, 0, y, y, s)
      \/ ZeroResult(op, 0, y)
      \/ /\ x.d # <<>> /\ y.d # <<>>
         /\ Block(op, 0, y, 0, A, x.sign) \/ Block(op, 0, y, 0, S, x.sign) \/ Block(op, 0, y, 0, R, s)
  BY DEF Sum
<1> HIDE DEF t, A, S, R
<1>7. CASE Duplicate(op, 0, y, x, t)
  BY <1>0, <1>1, <1>2, <1>7, DuplicateKept
<1>8. CASE Duplicate(op, 0, y, y, s)
  BY <1>0, <1>1, <1>8, DuplicateKept
<1>9. CASE ZeroResult(op, 0, y)
  BY <1>0, <1>9, ZeroKept
<1>10. CASE x.d # <<>> /\ y.d # <<>> /\ Block(op, 0, y, 0, A, x.sign)
  BY <1>1, <1>3, <1>10, TightKept
<1>11. CASE x.d # <<>> /\ y.d # <<>> /\ Block(op, 0, y, 0, S, x.sign)
  BY <1>1, <1>4, <1>11, TightKept
<1>12. CASE x.d # <<>> /\ y.d # <<>> /\ Block(op, 0, y, 0, R, s)
  BY <1>1, <1>5, <1>12, TightKept
<1> QED  BY <1>6, <1>7, <1>8, <1>9, <1>10, <1>11, <1>12

LEMMA FAddKept == IInv /\ (FAdd \/ FSub) => Kept
<1> SUFFICES ASSUME IInv, FAdd \/ FSub PROVE Kept
  OBVIOUS
<1>1. ASSUME NEW y \in Operands, MayAccept(x), Sum("fadd", y, y.sign) PROVE Kept
  <2>1. y.sign \in {1, -1}
    BY OperandTyped
  <2> QED  BY <1>1, <2>1, SumKept
<1>2. ASSUME NEW y \in Operands, MayAccept(x), Sum("fsub", y, -y.sign) PROVE Kept
  <2>1. -y.sign \in {1, -1}
    BY OperandTyped, SignProduct
  <2> QED  BY <1>2, <2>1, SumKept
<1> QED  BY <1>1, <1>2 DEF FAdd, FSub

\* The product of the arena: limbs for the array, or none.
LEMMA ArenaProductOf ==
  ASSUME NEW a \in Seq(Limb), NEW b \in Seq(Limb), NEW done, NEW p \in ArenaProducts(a, b, done)
  PROVE  /\ p.d \in Seq(Limb) /\ Len(p.d) <= Len(a) + Len(b) /\ Len(p.d) \in Nat
         /\ p.status \in {done, "POISONED"}
<1>1. Len(a) \in Nat /\ Len(b) \in Nat /\ <<>> \in Seq(Limb) /\ Len(<<>>) = 0
  BY DigitTyped
<1>2. Schoolbook(a, b) \in Seq(Limb) /\ Len(Schoolbook(a, b)) <= Len(a) + Len(b) /\ Len(Schoolbook(a, b)) \in Nat
  BY SchoolbookOf, DigitTyped
<1>3. CASE p.d = Schoolbook(a, b) /\ p.status = done
  BY <1>2, <1>3
<1>4. CASE p.d = <<>> /\ p.status = "POISONED"
  BY <1>1, <1>4
<1>5. \/ p = [d |-> Schoolbook(a, b), status |-> done]
      \/ p = [d |-> <<>>, status |-> "POISONED"]
  BY DEF ArenaProducts
<1>6. (p.d = Schoolbook(a, b) /\ p.status = done) \/ (p.d = <<>> /\ p.status = "POISONED")
  BY <1>5
<1> QED  BY <1>3, <1>4, <1>6

LEMMA FMulKept == IInv /\ FMul => Kept
<1> SUFFICES ASSUME IInv, FMul PROVE Kept
  OBVIOUS
<1>0. /\ "fmul" \notin Computing /\ "fmul" \notin Making /\ 0 \in CallWords
      /\ "fmul" # "canonicalize" /\ "fmul" # "shrink"
  BY WordPassed DEF Computing, Making
<1>1. PICK y \in Operands :
        /\ MayAccept(x) /\ MayAccept(y)
        /\ \/ Block("fmul", 0, y, 0, <<>>, x.sign * y.sign)
           \/ Duplicate("fmul", 0, y, y, x.sign * y.sign)
           \/ Duplicate("fmul", 0, y, x, x.sign * y.sign)
           \/ /\ x.d # <<>> /\ y.d # <<>>
              /\ \/ \E p \in ArenaProducts(x.d, y.d, "OPERAND_FREED") :
                      Hands("fmul", 0, y, [d |-> p.d, cap |-> Len(x.d) + Len(y.d), sign |-> x.sign * y.sign], p.status)
                 \/ \E how \in {"DNML_ALLOC_OOM", "CRASH"} : Fails("fmul", 0, y, how)
  BY DEF FMul
<1> DEFINE s == x.sign * y.sign
           n == Len(x.d) + Len(y.d)
<1>2. x.d \in Seq(Limb) /\ x.sign \in {1, -1} /\ Len(x.d) \in Nat /\ y.d \in Seq(Limb) /\ Len(y.d) \in Nat
      /\ y.sign \in {1, -1}
  BY <1>1, AcceptedNumber, OperandTyped
<1>3. s \in {1, -1}
  BY <1>2, SignProduct
<1>4. CASE Block("fmul", 0, y, 0, <<>>, s)
  <2> HIDE DEF s
  <2> QED  BY <1>0, <1>3, <1>4, NothingKept
<1>5. CASE Duplicate("fmul", 0, y, y, s)
  <2> HIDE DEF s
  <2> QED  BY <1>0, <1>2, <1>3, <1>5, DuplicateKept
<1>6. CASE Duplicate("fmul", 0, y, x, s)
  <2> HIDE DEF s
  <2> QED  BY <1>0, <1>2, <1>3, <1>6, DuplicateKept
<1>7. ASSUME x.d # <<>>, NEW p \in ArenaProducts(x.d, y.d, "OPERAND_FREED"),
             Hands("fmul", 0, y, [d |-> p.d, cap |-> n, sign |-> s], p.status)
      PROVE  Kept
  <2> DEFINE o == [d |-> p.d, cap |-> n, sign |-> s]
  <2>1. p.d \in Seq(Limb) /\ Len(p.d) <= n /\ p.status \in {"OPERAND_FREED", "POISONED"}
    BY <1>2, ArenaProductOf
  <2>5. Len(x.d) # 0
    BY <1>2, <1>7, LengthOf
  <2>6. \A a, b \in Nat : a # 0 => a + b \in Nat \ {0}
    OBVIOUS
  <2>2. n \in Nat \ {0}
    BY <1>2, <2>5, <2>6, Zenon
  <2>3. Hands("fmul", 0, y, o, p.status) /\ p.status # "OVERRUN"
    BY <1>7, <2>1
  <2> HIDE DEF n, s
  <2>4. o \in Num /\ Len(o.d) <= o.cap
    BY <1>3, <2>1, <2>2, NumMade
  <2> HIDE DEF o
  <2> QED  BY <1>0, <2>3, <2>4, HandsKept
<1>8. ASSUME NEW how \in {"DNML_ALLOC_OOM", "CRASH"}, Fails("fmul", 0, y, how) PROVE Kept
  <2>1. how # "SUCCESS" /\ how # "OVERRUN"
    BY <1>8
  <2> QED  BY <1>0, <1>8, <2>1, FailsKept
<1> QED  BY <1>1, <1>4, <1>5, <1>6, <1>7, <1>8

LEMMA ResetKept ==
  ASSUME IInv, NEW op, op \notin Computing, op # "canonicalize", op # "shrink", NEW w \in CallWords, NEW y,
         Returns(op, w, y, ResetOf(x))
  PROVE  Kept
<1> DEFINE o == ResetOf(x)
<1>1. o \in Num /\ Len(o.d) <= o.cap /\ ArithValid(o)
  BY ResetTo DEF IInv
<1>2. Returns(op, w, y, o)
  OBVIOUS
<1> HIDE DEF o
<1> QED  BY <1>1, <1>2, ReturnsKept

\* The number as it was.
LEMMA SameKept ==
  ASSUME IInv, MayAccept(x), NEW op, op \notin Computing, op # "canonicalize", op # "shrink", NEW w \in CallWords,
         NEW y, Returns(op, w, y, x)
  PROVE  Kept
<1>1. CoreValid(x)
  BY DEF Returns, Hands, Usable
<1>2. x \in Num /\ Len(x.d) <= x.cap /\ ArithValid(x)
  BY <1>1, UsableTyped, AcceptedNumber
<1> QED  BY <1>2, ReturnsKept

LEMMA FDivKept == IInv /\ FDiv => Kept
<1> SUFFICES ASSUME IInv, FDiv PROVE Kept
  OBVIOUS
<1>0. "fdiv" \notin Computing /\ "fdiv" # "canonicalize" /\ "fdiv" # "shrink" /\ 0 \in CallWords
  BY WordPassed DEF Computing
<1>1. PICK y \in Operands :
        /\ MayAccept(x) /\ MayAccept(y)
        /\ \/ ZeroResult("fdiv", 0, y)
           \/ x.d # <<>> /\ Duplicate("fdiv", 0, y, x, x.sign * y.sign)
           \/ HeapDivision("fdiv", y)
  BY DEF FDiv
<1>2. CASE ZeroResult("fdiv", 0, y)
  BY <1>0, <1>2, ZeroKept
<1>3. CASE x.d # <<>> /\ Duplicate("fdiv", 0, y, x, x.sign * y.sign)
  <2> DEFINE s == x.sign * y.sign
  <2>1. x.d \in Seq(Limb) /\ x.sign \in {1, -1} /\ y.sign \in {1, -1} /\ Proper(x.d, x.sign)
    BY <1>1, AcceptedNumber, OperandTyped
  <2>2. s \in {1, -1} /\ Duplicate("fdiv", 0, y, x, s)
    BY <1>3, <2>1, SignProduct
  <2>3. Proper(x.d, s)
    BY <1>3, <2>1 DEF Proper
  <2> HIDE DEF s
  <2> QED  BY <1>0, <2>1, <2>2, <2>3, DuplicateKept
<1>4. CASE HeapDivision("fdiv", y)
  BY <1>4, HeapDivisionKept
<1> QED  BY <1>1, <1>2, <1>3, <1>4

LEMMA FModKept == IInv /\ FMod => Kept
<1> SUFFICES ASSUME IInv, FMod PROVE Kept
  OBVIOUS
<1>0. "fmod" \notin Computing /\ "fmod" # "canonicalize" /\ "fmod" # "shrink" /\ 0 \in CallWords
  BY WordPassed DEF Computing
<1>1. PICK y \in Operands :
        /\ MayAccept(x)
        /\ \/ ZeroResult("fmod", 0, y)
           \/ Duplicate("fmod", 0, y, x, x.sign)
           \/ HeapDivision("fmod", y)
  BY DEF FMod
<1>2. x.d \in Seq(Limb) /\ x.sign \in {1, -1} /\ Proper(x.d, x.sign)
  BY <1>1, AcceptedNumber
<1>3. CASE ZeroResult("fmod", 0, y)
  BY <1>0, <1>3, ZeroKept
<1>4. CASE Duplicate("fmod", 0, y, x, x.sign)
  BY <1>0, <1>2, <1>4, DuplicateKept
<1>5. CASE HeapDivision("fmod", y)
  BY <1>5, HeapDivisionKept
<1> QED  BY <1>1, <1>3, <1>4, <1>5

LEMMA MutDivKept == IInv /\ MutDiv => Kept
<1> SUFFICES ASSUME IInv, MutDiv PROVE Kept
  OBVIOUS
<1>0. /\ "mut_div" \notin Computing /\ "mut_div" # "canonicalize" /\ "mut_div" # "shrink" /\ 0 \in CallWords
      /\ "mut_div" \notin Making
  BY WordPassed DEF Computing, Making
<1>1. PICK y \in Operands :
        /\ MayAccept(x)
        /\ \/ Returns("mut_div", 0, y, [x EXCEPT !.sign = @ * y.sign])
           \/ Returns("mut_div", 0, y, ResetOf(x))
           \/ Returns("mut_div", 0, y, x)
           \/ HeapDivision("mut_div", y)
  BY DEF MutDiv
<1>2. CASE Returns("mut_div", 0, y, [x EXCEPT !.sign = @ * y.sign])
  <2> DEFINE s == y.sign
             o == [x EXCEPT !.sign = @ * s]
  <2>1. s \in {1, -1} /\ x \in Num /\ CoreValid(x)
    BY <1>1, <1>2, OperandTyped, AcceptedNumber DEF Returns, Hands, Usable
  <2>2. o \in Num /\ o.d = x.d /\ o.cap = x.cap
    BY <2>1, SignedOf
  <2>3. Len(o.d) <= o.cap /\ Returns("mut_div", 0, y, o)
    BY <1>2, <2>1, <2>2, UsableTyped
  <2> HIDE DEF o
  <2> QED  BY <1>0, <2>2, <2>3, ReturnsKept
<1>3. CASE Returns("mut_div", 0, y, ResetOf(x))
  BY <1>0, <1>3, ResetKept
<1>4. CASE Returns("mut_div", 0, y, x)
  BY <1>0, <1>1, <1>4, SameKept
<1>5. CASE HeapDivision("mut_div", y)
  BY <1>5, HeapDivisionKept
<1> QED  BY <1>1, <1>2, <1>3, <1>4, <1>5

LEMMA MutModKept == IInv /\ MutMod => Kept
<1> SUFFICES ASSUME IInv, MutMod PROVE Kept
  OBVIOUS
<1>0. "mut_mod" \notin Computing /\ "mut_mod" # "canonicalize" /\ "mut_mod" # "shrink" /\ 0 \in CallWords
  BY WordPassed DEF Computing
<1>1. PICK y \in Operands :
        /\ MayAccept(x)
        /\ \/ Returns("mut_mod", 0, y, ResetOf(x))
           \/ Returns("mut_mod", 0, y, x)
           \/ HeapDivision("mut_mod", y)
  BY DEF MutMod
<1> QED  BY <1>0, <1>1, ResetKept, SameKept, HeapDivisionKept

LEMMA MutEmodKept == IInv /\ MutEmod => Kept
<1> SUFFICES ASSUME IInv, MutEmod PROVE Kept
  OBVIOUS
<1>0. "mut_emod" \notin Computing /\ "mut_emod" # "canonicalize" /\ "mut_emod" # "shrink" /\ 0 \in CallWords
  BY WordPassed DEF Computing
<1>1. PICK y \in Operands :
        /\ MayAccept(x)
        /\ \/ Returns("mut_emod", 0, y, ResetOf(x))
           \/ Returns("mut_emod", 0, y, x)
           \/ HeapDivision("mut_emod", y)
  BY DEF MutEmod, EuclidDivision
<1> QED  BY <1>0, <1>1, ResetKept, SameKept, HeapDivisionKept

LEMMA FEmodKept == IInv /\ FEmod => Kept
<1> SUFFICES ASSUME IInv, FEmod PROVE Kept
  OBVIOUS
<1>0. "emod" \notin Computing /\ "emod" # "canonicalize" /\ "emod" # "shrink" /\ 0 \in CallWords
  BY WordPassed DEF Computing
<1>1. PICK y \in Operands :
        /\ MayAccept(x)
        /\ \/ ZeroResult("emod", 0, y)
           \/ Duplicate("emod", 0, y, x, x.sign)
           \/ HeapDivision("emod", y)
  BY DEF FEmod, EuclidDivision
<1>2. x.d \in Seq(Limb) /\ x.sign \in {1, -1} /\ Proper(x.d, x.sign)
  BY <1>1, AcceptedNumber
<1>3. CASE ZeroResult("emod", 0, y)
  BY <1>0, <1>3, ZeroKept
<1>4. CASE Duplicate("emod", 0, y, x, x.sign)
  BY <1>0, <1>2, <1>4, DuplicateKept
<1>5. CASE HeapDivision("emod", y)
  BY <1>5, HeapDivisionKept
<1> QED  BY <1>1, <1>3, <1>4, <1>5

\* The Euclidean remainder is a limb below the modulus.
LEMMA EmodTyped ==
  ASSUME NEW o \in Num, NEW m \in Limb \ {0}
  PROVE  Emod(o, m) \in 0 .. m - 1 /\ Emod(o, m) \in Limb
<1> DEFINE r == DivModWord(o.d, m).rem
<1>1. r \in 0 .. m - 1 /\ m \in Nat \ {0} /\ m < Radix /\ Radix \in Nat
  BY NumParts, DivModWordOf, LimbsTyped, ByteRangeDivides
<1>2. Emod(o, m) = IF o.sign = -1 /\ r # 0 THEN (m - r) % m ELSE r
  BY DEF Emod
<1> HIDE DEF r
<1>3. m - r \in Nat
  BY <1>1
<1>4. (m - r) % m \in 0 .. m - 1
  BY <1>1, <1>3, Division
<1>5. Emod(o, m) \in 0 .. m - 1
  BY <1>1, <1>2, <1>4
<1> QED  BY <1>1, <1>5 DEF Limb

\* A number with its lowest limb replaced.
LEMMA LowestOf ==
  ASSUME NEW o \in Num, o.d # <<>>, NEW l \in Limb
  PROVE  LET e == [o EXCEPT !.d[1] = l, !.sign = 1]
         IN  e \in Num /\ e.d = [o.d EXCEPT ![1] = l] /\ e.cap = o.cap /\ Len(e.d) = Len(o.d) /\ e.sign = 1
<1>1. PICK a, b, c : o = [d |-> a, cap |-> b, sign |-> c]
  BY NumParts
<1>2. o.d = a /\ o.cap = b /\ a \in Seq(Limb) /\ b \in Nat \ {0} /\ a # <<>>
  BY <1>1, NumParts
<1> DEFINE f == [a EXCEPT ![1] = l]
<1>3. Len(a) \in Nat \ {0} /\ DOMAIN a = 1 .. Len(a)
  BY <1>2, DigitTyped, LengthOf
<1>4. f \in Seq(Limb) /\ Len(f) = Len(a)
  BY <1>2, <1>3
<1> HIDE DEF f
<1>5. [o EXCEPT !.d[1] = l] = [o EXCEPT !.d = f]
  BY <1>2 DEF f
<1>6. [o EXCEPT !.d = f] = [d |-> f, cap |-> b, sign |-> c]
  BY <1>1
<1> DEFINE g == [o EXCEPT !.d[1] = l]
<1>7. g = [d |-> f, cap |-> b, sign |-> c]
  BY <1>5, <1>6
<1>8. [o EXCEPT !.d[1] = l, !.sign = 1] = [g EXCEPT !.sign = 1]
  OBVIOUS
<1> HIDE DEF g
<1>9. [g EXCEPT !.sign = 1] = [d |-> f, cap |-> b, sign |-> 1]
  BY <1>7
<1>10. [o EXCEPT !.d[1] = l, !.sign = 1] = [d |-> f, cap |-> b, sign |-> 1]
  BY <1>8, <1>9, Zenon
<1>11. [d |-> f, cap |-> b, sign |-> 1] \in Num
  BY <1>2, <1>4, NumMade
<1> QED  BY <1>2, <1>4, <1>10, <1>11 DEF f

LEMMA MutEmodByWordKept ==
  ASSUME IInv, MayAccept(x), NEW op \in {"mut_emodu64", "mut_emodi64"}, NEW v \in CallWords, Mag(v) \in Limb \ {0},
         MutEmodByWord(op, v)
  PROVE  Kept
<1>0. op \notin Computing /\ op # "canonicalize" /\ op # "shrink" /\ op \notin Making
  BY DEF Computing, Making
<1> DEFINE m == Mag(v)
           e == Emod(x, m)
           o == [x EXCEPT !.d[1] = e, !.sign = 1]
<1>1. \/ Returns(op, v, Zero, x)
      \/ Returns(op, v, Zero, ResetOf(x))
      \/ x.d # <<>> /\ Returns(op, v, Zero, o)
  BY DEF MutEmodByWord
<1>2. x \in Num /\ e \in Limb
  BY AcceptedNumber, EmodTyped
<1>3. CASE x.d # <<>> /\ Returns(op, v, Zero, o)
  <2> HIDE DEF e
  <2>1. o \in Num /\ o.cap = x.cap /\ Len(o.d) = Len(x.d) /\ CoreValid(x)
    BY <1>2, <1>3, LowestOf DEF Returns, Hands, Usable
  <2>2. Len(o.d) <= o.cap
    BY <2>1, UsableTyped
  <2> HIDE DEF o
  <2> QED  BY <1>0, <1>3, <2>1, <2>2, ReturnsKept
<1> HIDE DEF o
<1> QED  BY <1>0, <1>1, <1>3, SameKept, ResetKept

LEMMA MutEmodWordKept == IInv /\ MutEmodWord => Kept
<1> SUFFICES ASSUME IInv, MutEmodWord PROVE Kept
  OBVIOUS
<1>1. MayAccept(x)
  BY DEF MutEmodWord
<1>2. ASSUME NEW v \in (Words \cup IntWords) \ {0}, NEW op \in {"mut_emodu64", "mut_emodi64"}, MutEmodByWord(op, v)
      PROVE  Kept
  <2>1. v \in CallWords /\ Mag(v) \in Limb \ {0}
    BY WordPassed
  <2> QED  BY <1>1, <1>2, <2>1, MutEmodByWordKept
<1> QED  BY <1>2 DEF MutEmodWord

-----------------------------------------------------------------------------
(* Powers of two, ranges of bytes *)

\* A product grows with its factors.
LEMMA Products ==
  ASSUME NEW a \in Nat, NEW b \in Nat, NEW c \in Nat, a <= b
  PROVE  c * a <= c * b /\ c * a \in Nat /\ c * b \in Nat
<1>1. PICK j \in Nat : b = a + j
  <2>1. b - a \in Nat /\ b = a + (b - a)
    OBVIOUS
  <2> QED  BY <2>1
<1>2. c * b = c * a + c * j /\ c * j \in Nat /\ c * a \in Nat
  BY <1>1
<1> QED  BY <1>2

LEMMA TwoToOf ==
  /\ TwoTo(0) = 1
  /\ \A k \in Nat : TwoTo(k) \in Nat /\ TwoTo(k + 1) = 2 * TwoTo(k)
<1>1. TwoTo(0) = 1
  BY DoublingsOf DEF TwoTo
<1>2. ASSUME NEW k \in Nat PROVE TwoTo(k) \in Nat /\ TwoTo(k + 1) = 2 * TwoTo(k)
  <2> DEFINE r == Doublings(1, k)
             s == Doublings(1, k + 1)
             Q == {i \in 0 .. k : r[i] = s[i]}
  <2>1. r[0] = 1 /\ (\A i \in 0 .. k : r[i] \in Nat) /\ \A i \in 1 .. k : r[i] = 2 * r[i - 1]
    BY DoublingsOf
  <2>2. s[0] = 1 /\ \A i \in 1 .. k + 1 : s[i] = 2 * s[i - 1]
    <3>1. k + 1 \in Nat
      OBVIOUS
    <3> QED  BY <3>1, DoublingsOf
  <2>7. TwoTo(k) = r[k] /\ TwoTo(k + 1) = s[k + 1]
    BY DEF TwoTo
  <2> HIDE DEF r, s
  <2>3. 0 \in Q
    BY <2>1, <2>2
  <2>4. \A i \in 1 .. k : i - 1 \in Q => i \in Q
    BY <2>1, <2>2
  <2> HIDE DEF Q
  <2>5. k \in Q
    <3>1. \A i \in 0 .. k : i \in Q
      BY <2>3, <2>4, SetInduction
    <3> QED  BY <3>1
  <2>6. s[k + 1] = 2 * s[k]
    <3>1. k + 1 \in 1 .. k + 1 /\ (k + 1) - 1 = k
      OBVIOUS
    <3> QED  BY <2>2, <3>1
  <2>8. k \in 0 .. k
    OBVIOUS
  <2>9. r[k] = s[k] /\ r[k] \in Nat
    BY <2>1, <2>5, <2>8 DEF Q
  <2> QED  BY <2>6, <2>7, <2>9
<1> QED  BY <1>1, <1>2

\* They exceed their exponents, and grow with them.
LEMMA TwoToGrows ==
  ASSUME NEW k \in Nat
  PROVE  TwoTo(k) \in Nat \ {0} /\ TwoTo(k) > k /\ \A i \in 0 .. k : TwoTo(i) <= TwoTo(k)
<1> DEFINE Q == {i \in 0 .. k : TwoTo(i) >= i + 1}
           G == {i \in 0 .. k : \A j \in 0 .. i : TwoTo(j) <= TwoTo(i)}
<1>1. \A i \in 1 .. k : TwoTo(i - 1) \in Nat /\ TwoTo(i) = 2 * TwoTo(i - 1) /\ TwoTo(i) \in Nat
  <2>1. ASSUME NEW i \in 1 .. k PROVE TwoTo(i - 1) \in Nat /\ TwoTo(i) = 2 * TwoTo(i - 1)
    <3>1. i - 1 \in Nat /\ (i - 1) + 1 = i
      OBVIOUS
    <3> QED  BY <3>1, TwoToOf
  <2> QED  BY <2>1
<1>2. 0 \in Q
  BY TwoToOf
<1>3. \A i \in 1 .. k : i - 1 \in Q => i \in Q
  BY <1>1
<1> HIDE DEF Q
<1>4. \A i \in 0 .. k : i \in Q
  BY <1>2, <1>3, SetInduction
<1>5. 0 \in G
  BY TwoToOf
<1>6. ASSUME NEW i \in 1 .. k, i - 1 \in G PROVE i \in G
  <2>1. \A j \in 0 .. i - 1 : TwoTo(j) <= TwoTo(i - 1)
    BY <1>6
  <2>2. \A j \in 0 .. i : j \in 0 .. i - 1 \/ j = i
    OBVIOUS
  <2>3. TwoTo(i - 1) \in Nat /\ TwoTo(i) = 2 * TwoTo(i - 1)
    BY <1>1
  <2>4. ASSUME NEW j \in 0 .. i PROVE TwoTo(j) <= TwoTo(i)
    <3>1. j \in Nat
      OBVIOUS
    <3>2. TwoTo(j) \in Nat
      BY <3>1, TwoToOf
    <3>3. CASE j \in 0 .. i - 1
      BY <2>1, <2>3, <3>2, <3>3
    <3>4. CASE j = i
      BY <3>2, <3>4
    <3> QED  BY <2>2, <3>3, <3>4
  <2> QED  BY <2>4
<1> HIDE DEF G
<1>7. \A i \in 0 .. k : i \in G
  BY <1>5, <1>6, SetInduction
<1>8. k \in 0 .. k
  OBVIOUS
<1>9. k \in Q /\ k \in G
  BY <1>4, <1>7, <1>8
<1>10. TwoTo(k) \in Nat
  BY TwoToOf
<1>11. TwoTo(k) >= k + 1
  BY <1>9 DEF Q
<1>12. \A i \in 0 .. k : TwoTo(i) <= TwoTo(k)
  BY <1>9 DEF G
<1> QED  BY <1>10, <1>11, <1>12

\* A number is its odd part times a power of two.
LEMMA OddPartOf ==
  ASSUME NEW u \in Nat \ {0}
  PROVE  /\ Twos(u) \in Nat /\ OddPart(u) \in 1 .. u /\ OddPart(u) % 2 = 1
         /\ OddPart(u) * TwoTo(Twos(u)) = u
<1> DEFINE S == {k \in Nat : u % TwoTo(k + 1) # 0}
<1>1. u \in S
  <2>1. TwoTo(u + 1) \in Nat \ {0} /\ TwoTo(u + 1) > u + 1
    <3>1. u + 1 \in Nat
      OBVIOUS
    <3> QED  BY <3>1, TwoToGrows
  <2>2. u % TwoTo(u + 1) = u
    BY <2>1
  <2> QED  BY <2>2
<1>2. PICK m \in S : \A k \in S : m <= k
  <2>1. S \subseteq Nat /\ S # {}
    BY <1>1
  <2> HIDE DEF S
  <2> QED  BY <2>1, LeastNumber
<1>3. m \in Nat /\ m <= u /\ u % TwoTo(m + 1) # 0
  BY <1>1, <1>2
<1>4. u % TwoTo(m) = 0
  <2>1. CASE m = 0
    BY <2>1, TwoToOf
  <2>2. CASE m # 0
    <3>1. m - 1 \in Nat /\ (m - 1) + 1 = m /\ ~ (m <= m - 1)
      BY <1>3, <2>2
    <3>2. m - 1 \notin S
      BY <1>2, <3>1
    <3> QED  BY <3>1, <3>2
  <2> QED  BY <2>1, <2>2
<1>5. m \in 0 .. u
  BY <1>3
<1> DEFINE t == Twos(u)
<1>6. t \in 0 .. u /\ u % TwoTo(t) = 0 /\ u % TwoTo(t + 1) # 0
  <2>1. \E k \in 0 .. u : u % TwoTo(k) = 0 /\ u % TwoTo(k + 1) # 0
    BY <1>3, <1>4, <1>5
  <2> QED  BY <2>1 DEF Twos
<1> HIDE DEF t
<1> DEFINE p == TwoTo(t)
           q == u \div p
<1>7. p \in Nat \ {0} /\ t \in Nat
  BY <1>6, TwoToGrows
<1>8. u % p = 0
  BY <1>6
<1> HIDE DEF p
<1>9. q \in Nat /\ u = p * q + (u % p)
  BY <1>7, Division
<1> HIDE DEF q
<1>10. u = p * q
  BY <1>7, <1>8, <1>9
<1>11. q # 0
  BY <1>7, <1>10
<1>12. q * 1 <= q * p
  BY <1>7, <1>9, Products
<1>13. q * p = u /\ q <= u
  BY <1>7, <1>9, <1>10, <1>12
<1>14. OddPart(u) = q
  BY DEF OddPart, q, p, t
<1>15. q % 2 = 1
  <2>1. SUFFICES ASSUME q % 2 # 1 PROVE FALSE
    OBVIOUS
  <2>2. PICK r \in Nat : q = 2 * r
    <3>1. q = 2 * (q \div 2) /\ q \div 2 \in Nat
      BY <1>9, <2>1
    <3> QED  BY <3>1
  <2>3. TwoTo(t + 1) = 2 * p
    BY <1>7, TwoToOf DEF p
  <2>4. u = (2 * p) * r + 0
    BY <1>7, <1>10, <2>2
  <2>5. 2 * p \in Nat \ {0} /\ 0 \in 0 .. (2 * p) - 1
    BY <1>7
  <2>6. u % (2 * p) = 0
    BY <2>4, <2>5, QuotientOf
  <2> QED  BY <1>6, <2>3, <2>6
<1> QED  BY <1>7, <1>9, <1>11, <1>13, <1>14, <1>15 DEF p, t

\* The ranges of bytes: a sum of widths is a product of ranges.
LEMMA ByteRangeSum ==
  ASSUME NEW a \in Nat, NEW b \in Nat
  PROVE  ByteRange(a + b) = ByteRange(a) * ByteRange(b)
<1> DEFINE Q == {i \in 0 .. b : ByteRange(a + i) = ByteRange(a) * ByteRange(i)}
<1>0. ByteBase \in Nat /\ ByteRange(a) \in Nat
  BY LimbAssumption, ByteRangeStep
<1>1. 0 \in Q
  <2>1. a + 0 = a
    OBVIOUS
  <2>2. ByteRange(a + 0) = ByteRange(a) * ByteRange(0)
    BY <1>0, <2>1, ByteRangeStep
  <2> QED  BY <2>2
<1>2. ASSUME NEW i \in 1 .. b, i - 1 \in Q PROVE i \in Q
  <2>1. i - 1 \in Nat /\ (i - 1) + 1 = i /\ a + (i - 1) \in Nat /\ (a + (i - 1)) + 1 = a + i
    OBVIOUS
  <2>2. ByteRange(i - 1) \in Nat /\ ByteRange(i) = ByteBase * ByteRange(i - 1)
        /\ ByteRange(a + i) = ByteBase * ByteRange(a + (i - 1))
    BY <2>1, ByteRangeStep
  <2>3. ByteRange(a + (i - 1)) = ByteRange(a) * ByteRange(i - 1)
    BY <1>2
  <2>4. ByteRange(a + i) = ByteRange(a) * ByteRange(i)
    BY <1>0, <2>2, <2>3
  <2> QED  BY <2>4
<1> HIDE DEF Q
<1>3. \A i \in 0 .. b : i \in Q
  BY <1>1, <1>2, SetInduction
<1>4. b \in Q
  BY <1>3
<1> QED  BY <1>4 DEF Q

LEMMA ByteRangeGrows ==
  ASSUME NEW a \in Nat, NEW b \in Nat, a <= b
  PROVE  ByteRange(a) \in Nat \ {0} /\ ByteRange(a) <= ByteRange(b) /\ ByteRange(b) \in Nat \ {0}
<1>1. ASSUME NEW k \in Nat PROVE ByteRange(k) \in Nat \ {0}
  <2> DEFINE P == {i \in 0 .. k : ByteRange(i) >= 1}
  <2>1. 0 \in P
    BY ByteRangeStep
  <2>2. ASSUME NEW i \in 1 .. k, i - 1 \in P PROVE i \in P
    <3>1. i - 1 \in Nat /\ (i - 1) + 1 = i
      OBVIOUS
    <3>2. ByteRange(i - 1) \in Nat /\ ByteRange(i) = ByteBase * ByteRange(i - 1) /\ ByteBase \in Nat /\ ByteBase >= 2
      BY <3>1, ByteRangeStep, LimbAssumption
    <3>3. ByteBase * ByteRange(i - 1) >= ByteBase
      BY <2>2, <3>2
    <3> QED  BY <3>2, <3>3
  <2> HIDE DEF P
  <2>3. \A i \in 0 .. k : i \in P
    BY <2>1, <2>2, SetInduction
  <2>4. k \in P
    BY <2>3
  <2> QED  BY <2>4, ByteRangeStep DEF P
<1>2. b - a \in Nat /\ a + (b - a) = b
  OBVIOUS
<1>3. ByteRange(b) = ByteRange(a) * ByteRange(b - a)
  BY <1>2, ByteRangeSum
<1>4. ByteRange(a) \in Nat \ {0} /\ ByteRange(b - a) \in Nat \ {0} /\ ByteRange(b) \in Nat \ {0}
  BY <1>1, <1>2
<1>5. ByteRange(a) * 1 <= ByteRange(a) * ByteRange(b - a)
  BY <1>4, Products
<1> QED  BY <1>3, <1>4, <1>5

\* A magnitude of n limbs is within the range of their bytes.
LEMMA MagnitudeBelow ==
  ASSUME NEW d \in Seq(Limb)
  PROVE  Magnitude(d) \in Nat /\ Magnitude(d) < ByteRange(Len(d) * LimbBytes)
<1> DEFINE n == Len(d)
           U == Upper(d)
           B(i) == ByteRange(i * LimbBytes)
           Q == {i \in 0 .. n : U[i] < B(i)}
<1>0. n \in Nat /\ LimbBytes \in Nat /\ Radix \in Nat /\ \A i \in 1 .. n : d[n + 1 - i] \in Nat /\ d[n + 1 - i] < Radix
  BY DigitTyped, LimbAssumption, ByteRangeDivides
<1>1. U[0] = 0 /\ (\A i \in 0 .. n : U[i] \in Nat) /\ \A i \in 1 .. n : U[i] = d[n + 1 - i] + Radix * U[i - 1]
  BY UpperOf
<1>2. Magnitude(d) = U[n]
  BY DEF Magnitude
<1> HIDE DEF n, U
<1>3. 0 \in Q
  <2>1. 0 * LimbBytes = 0
    BY <1>0
  <2>2. B(0) = 1
    BY <2>1, ByteRangeStep
  <2> HIDE DEF B
  <2> QED  BY <1>0, <1>1, <2>2
<1>4. ASSUME NEW i \in 1 .. n, i - 1 \in Q PROVE i \in Q
  <2>1. (i - 1) * LimbBytes \in Nat /\ i * LimbBytes = LimbBytes + (i - 1) * LimbBytes
    BY <1>0
  <2>2. B(i) = Radix * B(i - 1) /\ B(i - 1) \in Nat
    <3>1. ByteRange(LimbBytes + (i - 1) * LimbBytes) = ByteRange(LimbBytes) * ByteRange((i - 1) * LimbBytes)
      BY <1>0, <2>1, ByteRangeSum
    <3>2. ByteRange((i - 1) * LimbBytes) \in Nat
      BY <2>1, ByteRangeStep
    <3> QED  BY <2>1, <3>1, <3>2 DEF Radix
  <2>3. U[i - 1] < B(i - 1) /\ i - 1 \in 0 .. n
    BY <1>4
  <2>4. U[i] = d[n + 1 - i] + Radix * U[i - 1] /\ U[i - 1] \in Nat /\ d[n + 1 - i] \in Nat /\ d[n + 1 - i] < Radix
        /\ U[i] \in Nat /\ i \in 0 .. n
    BY <1>0, <1>1, <2>3
  <2> HIDE DEF B
  <2>5. U[i - 1] + 1 <= B(i - 1) /\ U[i - 1] + 1 \in Nat
    BY <2>2, <2>3, <2>4
  <2>6. Radix * (U[i - 1] + 1) <= Radix * B(i - 1)
    BY <1>0, <2>2, <2>5, Products
  <2>7. Radix * (U[i - 1] + 1) = Radix * U[i - 1] + Radix /\ Radix * U[i - 1] \in Nat
    BY <1>0, <2>4, SMTT(60)
  <2> DEFINE p == Radix * U[i - 1]
             q == Radix * B(i - 1)
  <2>9. p + Radix <= q
    BY <2>6, <2>7
  <2>10. B(i) = q
    BY <2>2
  <2>11. U[i] = d[n + 1 - i] + p /\ p \in Nat
    BY <2>4, <2>7
  <2>12. q \in Nat
    <3> DEFINE k == B(i - 1)
    <3>1. k \in Nat /\ q = Radix * k
      BY <2>2
    <3> HIDE DEF k, q
    <3> QED  BY <1>0, <3>1
  <2> HIDE DEF p, q
  <2>8. U[i] < B(i)
    BY <1>0, <2>4, <2>9, <2>10, <2>11, <2>12
  <2> QED  BY <2>4, <2>8
<1> HIDE DEF Q
<1>5. \A i \in 0 .. n : i \in Q
  BY <1>0, <1>3, <1>4, SetInduction
<1>6. n \in Q
  BY <1>0, <1>5
<1> QED  BY <1>0, <1>1, <1>2, <1>6 DEF Q, n

\* To divide by a product is to divide twice.
LEMMA DivisionTwice ==
  ASSUME NEW v \in Nat, NEW b \in Nat \ {0}, NEW c \in Nat \ {0}
  PROVE  v \div (b * c) = (v \div b) \div c
<1> DEFINE q == v \div b
           p == q \div c
           r == v % b
           s == q % c
<1>1. q \in Nat /\ r \in 0 .. b - 1 /\ v = b * q + r
  BY Division
<1> HIDE DEF q, r
<1>2. p \in Nat /\ s \in 0 .. c - 1 /\ q = c * p + s
  BY <1>1, Division
<1> HIDE DEF p, s
<1>3. b * q = (b * c) * p + b * s /\ b * s \in Nat /\ (b * c) * p \in Nat
  BY <1>1, <1>2
<1>4. b * s + r \in Nat /\ b * s + r < b * c
  <2>1. b * (s + 1) <= b * c /\ s + 1 \in Nat
    BY <1>2, Products
  <2>2. b * (s + 1) = b * s + b
    BY <1>2
  <2> QED  BY <1>1, <1>2, <1>3, <2>1, <2>2
<1> DEFINE m == b * c
           t == b * s + r
<1>5. m \in Nat \ {0} /\ t \in 0 .. m - 1 /\ v = m * p + t
  BY <1>1, <1>3, <1>4
<1> HIDE DEF m, t
<1>6. v \div m = p
  BY <1>2, <1>5, QuotientOf
<1> QED  BY <1>6 DEF m, p, q

\* The limbs of a number below the range of n limbs are at most n, and stand for it.
LEMMA LimbsOf ==
  ASSUME NEW v \in Nat, NEW n \in Nat, v < ByteRange(n * LimbBytes)
  PROVE  /\ Limbs(v, n) \in Seq(Limb) /\ Len(Limbs(v, n)) <= n /\ Len(Limbs(v, n)) \in Nat
         /\ Proper(Limbs(v, n), 1) /\ Magnitude(Limbs(v, n)) = v
<1> DEFINE B(i) == ByteRange((i - 1) * LimbBytes)
           f == [i \in 1 .. n + 1 |-> (v \div B(i)) % Radix]
           L == Trim(f)
<1>0. LimbBytes \in Nat /\ Radix \in Nat \ {0}
  BY LimbAssumption, ByteRangeDivides
<1>1. ASSUME NEW i \in Nat \ {0}
      PROVE  /\ B(i) \in Nat \ {0} /\ B(i + 1) = B(i) * Radix
             /\ v \div B(i) \in Nat /\ (v \div B(i)) % Radix \in Limb
  <2>1. i - 1 \in Nat /\ (i + 1) - 1 = i
    OBVIOUS
  <2>2. (i - 1) * LimbBytes \in Nat /\ i * LimbBytes = (i - 1) * LimbBytes + LimbBytes
    BY <1>0, <2>1
  <2>3. B(i) \in Nat \ {0}
    BY <2>2, ByteRangeGrows
  <2>4. B(i + 1) = B(i) * Radix
    BY <1>0, <2>1, <2>2, ByteRangeSum DEF Radix
  <2> HIDE DEF B
  <2>5. v \div B(i) \in Nat
    BY <2>3, Division
  <2> QED  BY <1>0, <2>3, <2>4, <2>5, Division DEF Limb
<1>2. B(1) = 1 /\ v < B(n + 1)
  <2>1. (1 - 1) * LimbBytes = 0 /\ (n + 1) - 1 = n
    BY <1>0
  <2> QED  BY <2>1, ByteRangeStep
<1>3. f \in Seq(Limb) /\ Len(f) = n + 1 /\ \A i \in 1 .. n + 1 : f[i] = (v \div B(i)) % Radix
  <2> HIDE DEF B
  <2>1. ASSUME NEW i \in 1 .. n + 1 PROVE (v \div B(i)) % Radix \in Limb
    <3>1. i \in Nat \ {0}
      OBVIOUS
    <3> QED  BY <1>1, <3>1, Zenon
  <2> QED  BY <2>1
<1> HIDE DEF f
<1>4. /\ L \in Seq(Limb) /\ Len(L) \in 0 .. Len(f)
      /\ L # <<>> => L[Len(L)] # 0
      /\ \A i \in 1 .. Len(L) : L[i] = f[i]
  BY <1>3, TrimOf
<1>5. Magnitude(L) = Magnitude(f)
  BY <1>3, TrimKeepsValue
<1>6. Limbs(v, n) = L
  BY DEF Limbs, L, f
<1> HIDE DEF L
<1>7. v \div B(n + 1) = 0 /\ v \div B(1) = v
  <2>1. n + 1 \in Nat \ {0}
    OBVIOUS
  <2>2. B(n + 1) \in Nat \ {0}
    BY <1>1, <2>1
  <2> HIDE DEF B
  <2> QED  BY <1>2, <2>2
<1>8. Len(L) <= n
  <2>1. SUFFICES ASSUME Len(L) > n PROVE FALSE
    BY <1>3, <1>4
  <2>2. Len(L) = n + 1 /\ n + 1 \in 1 .. n + 1 /\ L # <<>>
    BY <1>3, <1>4, <2>1
  <2>3. f[n + 1] # 0
    BY <1>4, <2>2
  <2> HIDE DEF B
  <2>4. f[n + 1] = 0 % Radix
    BY <1>3, <1>7, <2>2
  <2> QED  BY <1>0, <2>3, <2>4
<1> DEFINE Q == {i \in 1 .. n + 2 : From(f, i) = v \div B(i)}
<1>9. n + 2 \in Q
  <2>1. n + 2 \in Nat \ {0} /\ n + 1 \in Nat \ {0} /\ (n + 1) + 1 = n + 2 /\ n + 2 > Len(f)
    BY <1>3
  <2>2. From(f, n + 2) = 0
    BY <1>3, <2>1, FromOf
  <2>3. B(n + 2) = B(n + 1) * Radix /\ B(n + 1) \in Nat \ {0} /\ B(n + 2) \in Nat \ {0}
    <3>1. B((n + 1) + 1) = B(n + 1) * Radix /\ B(n + 1) \in Nat \ {0}
      BY <1>1, <2>1, Zenon
    <3> HIDE DEF B
    <3>2. B(n + 2) \in Nat \ {0}
      BY <1>1, <2>1
    <3> QED  BY <2>1, <3>1, <3>2
  <2> HIDE DEF B
  <2>4. B(n + 1) * 1 <= B(n + 1) * Radix
    BY <1>0, <2>3, Products
  <2>5. v \div B(n + 2) = 0
    BY <1>2, <2>3, <2>4
  <2> QED  BY <2>2, <2>5
<1>10. ASSUME NEW i \in 1 .. n + 1, i + 1 \in Q PROVE i \in Q
  <2> DEFINE b == B(i)
             q == v \div b
  <2>1. i \in Nat \ {0} /\ i + 1 \in Nat \ {0}
    OBVIOUS
  <2>2. b \in Nat \ {0} /\ B(i + 1) = b * Radix /\ q \in Nat
    BY <1>1, <2>1
  <2>3. From(f, i) = LimbAt(f, i) + Radix * From(f, i + 1) /\ From(f, i + 1) = v \div B(i + 1)
    BY <1>3, <1>10, <2>1, FromOf
  <2>4. LimbAt(f, i) = q % Radix
    <3>1. i \in DOMAIN f
      BY <1>3, DigitTyped
    <3> QED  BY <1>3, <3>1 DEF LimbAt
  <2> HIDE DEF b, B
  <2>5. v \div (b * Radix) = q \div Radix
    BY <1>0, <2>2, DivisionTwice
  <2>6. From(f, i) = (q % Radix) + Radix * (q \div Radix)
    BY <2>2, <2>3, <2>4, <2>5
  <2> HIDE DEF q
  <2>7. From(f, i) = q
    <3>0. /\ q = Radix * (q \div Radix) + (q % Radix) /\ q \div Radix \in Nat
          /\ q % Radix \in 0 .. Radix - 1
      BY <1>0, <2>2, Division, Zenon
    <3>1. q = Radix * (q \div Radix) + (q % Radix) /\ q \div Radix \in Nat /\ q % Radix \in Nat
      BY <1>0, <3>0
    <3> DEFINE g == Radix * (q \div Radix)
               h == q % Radix
    <3>2. From(f, i) = h + g /\ q = g + h /\ g \in Nat /\ h \in Nat
      BY <1>0, <2>6, <3>1
    <3> HIDE DEF g, h
    <3> QED  BY <3>2
  <2> QED  BY <2>7 DEF q, b
<1> HIDE DEF Q
<1>11. 1 \in Q
  <2>1. n + 1 \in Nat /\ (n + 1) + 1 = n + 2
    OBVIOUS
  <2>2. \A i \in 1 .. (n + 1) + 1 : i \in Q
    BY <1>9, <1>10, <2>1, DownInduction
  <2> QED  BY <2>2
<1>12. Magnitude(f) = v
  BY <1>3, <1>7, <1>11, FromOf DEF Q
<1>13. Proper(L, 1)
  BY <1>4 DEF Proper
<1>14. Len(L) \in Nat
  BY <1>4, DigitTyped
<1> QED  BY <1>4, <1>5, <1>6, <1>8, <1>12, <1>13, <1>14

-----------------------------------------------------------------------------
(* The binary greatest common divisor *)

\* The pairs Stein's loop runs through.
Pairs(m) == [a : 1 .. m, b : 1 .. m]

\* A pass keeps to them, and makes the two smaller together.
LEMMA SteinPassOf ==
  ASSUME NEW m \in Nat, NEW p \in Pairs(m)
  PROVE  /\ SteinPass(p) \in Pairs(m)
         /\ p.a # p.b => SteinPass(p).a + SteinPass(p).b < p.a + p.b
<1>1. p.a \in 1 .. m /\ p.b \in 1 .. m
  BY DEF Pairs
<1>2. CASE p.a = p.b
  <2>0. ~ (p.a > p.b) /\ ~ (p.a < p.b)
    BY <1>1, <1>2
  <2>1. SteinPass(p) = p
    BY <1>2, <2>0 DEF SteinPass
  <2> QED  BY <1>2, <2>1
<1>3. CASE p.a > p.b
  <2> DEFINE o == OddPart(p.a - p.b)
  <2>0. p.a # p.b /\ ~ (p.a < p.b)
    BY <1>1, <1>3
  <2>1. SteinPass(p) = [a |-> o, b |-> p.b]
    BY <1>3, <2>0 DEF SteinPass
  <2>2. p.a - p.b \in Nat \ {0}
    BY <1>1, <1>3
  <2>3. o \in 1 .. p.a - p.b
    BY <2>2, OddPartOf
  <2> HIDE DEF o
  <2>4. o \in 1 .. m /\ o + p.b < p.a + p.b
    BY <1>1, <2>3
  <2> QED  BY <1>1, <2>1, <2>4 DEF Pairs
<1>4. CASE p.a < p.b
  <2> DEFINE o == OddPart(p.b - p.a)
  <2>0. p.a # p.b /\ ~ (p.a > p.b)
    BY <1>1, <1>4
  <2>1. SteinPass(p) = [a |-> o, b |-> p.a]
    BY <1>4, <2>0 DEF SteinPass
  <2>2. p.b - p.a \in Nat \ {0}
    BY <1>1, <1>4
  <2>3. o \in 1 .. p.b - p.a
    BY <2>2, OddPartOf
  <2> HIDE DEF o
  <2>4. o \in 1 .. m /\ o + p.a < p.a + p.b
    BY <1>1, <2>3
  <2> QED  BY <1>1, <2>1, <2>4 DEF Pairs
<1> QED  BY <1>1, <1>2, <1>3, <1>4

\* The pairs after each pass.
LEMMA SteinPassesOf ==
  ASSUME NEW u \in Nat \ {0}, NEW v \in Nat \ {0}, NEW m \in Nat, OddPart(u) \in 1 .. m, OddPart(v) \in 1 .. m
  PROVE  /\ SteinPasses(u, v)[0] = [a |-> OddPart(u), b |-> OddPart(v)] /\ \A i \in 0 .. (u + v) : SteinPasses(u, v)[i] \in Pairs(m)
         /\ \A i \in 1 .. (u + v) : SteinPasses(u, v)[i] = SteinPass(SteinPasses(u, v)[i - 1])
<1> DEFINE Step(r) == [i \in 0 .. (u + v) |-> IF i = 0 THEN [a |-> OddPart(u), b |-> OddPart(v)] ELSE SteinPass(r[i - 1])]
           c == CHOOSE r : r = Step(r)
           g == [i \in 1 .. (u + v) |-> [s \in Pairs(m) |-> SteinPass(s)]]
<1>n. (u + v) \in Nat /\ [a |-> OddPart(u), b |-> OddPart(v)] \in Pairs(m)
  BY DEF Pairs
<1>0. ASSUME NEW i \in 1 .. (u + v), NEW s \in Pairs(m) PROVE SteinPass(s) \in Pairs(m)
  BY SteinPassOf
<1>1. Fits((u + v), Pairs(m), g) /\ \A i \in 1 .. (u + v) : \A s \in Pairs(m) : g[i][s] = SteinPass(s)
  BY <1>0 DEF Fits
<1> HIDE DEF g
<1>2. PICK f \in [0 .. (u + v) -> Pairs(m)] : Run((u + v), [a |-> OddPart(u), b |-> OddPart(v)], g, f)
  BY <1>n, <1>1, Recursion DEF Runs
<1>3. \A i \in 1 .. (u + v) : f[i - 1] \in Pairs(m)
  BY <1>n
<1>4. f[0] = [a |-> OddPart(u), b |-> OddPart(v)] /\ \A i \in 1 .. (u + v) : f[i] = SteinPass(f[i - 1])
  BY <1>1, <1>2, <1>3 DEF Run
<1>5. f = Step(f)
  BY <1>4
<1>6. c = Step(c)
  BY <1>5
<1>7. SteinPasses(u, v) = c
  BY DEF SteinPasses
<1> HIDE DEF c
<1> DEFINE e == Step(c)
<1>8. e[0] = [a |-> OddPart(u), b |-> OddPart(v)] /\ \A i \in 1 .. (u + v) : e[i] = SteinPass(c[i - 1])
  <2>1. \A i \in 0 .. (u + v) : e[i] = IF i = 0 THEN [a |-> OddPart(u), b |-> OddPart(v)] ELSE SteinPass(c[i - 1])
    OBVIOUS
  <2> HIDE DEF e
  <2> QED  BY <1>n, <2>1
<1> HIDE DEF e
<1>9. c[0] = [a |-> OddPart(u), b |-> OddPart(v)] /\ \A i \in 1 .. (u + v) : c[i] = SteinPass(c[i - 1])
  BY <1>6, <1>8 DEF e
<1>10. \A i \in 0 .. (u + v) : c[i] \in Pairs(m)
  <2>1. c[0] \in Pairs(m) /\ Follows((u + v), Pairs(m), g, c)
    BY <1>n, <1>1, <1>9 DEF Follows
  <2> QED  BY <1>n, <1>1, <2>1, RunTyped
<1> QED  BY <1>7, <1>9, <1>10

\* The loop ends, with the two equal.
LEMMA SteinEnds ==
  ASSUME NEW u \in Nat \ {0}, NEW v \in Nat \ {0}
  PROVE  /\ SteinEnd(u, v) \in 0 .. (u + v)
         /\ SteinPasses(u, v)[SteinEnd(u, v)].a = SteinPasses(u, v)[SteinEnd(u, v)].b
<1> DEFINE n == u + v
           P == SteinPasses(u, v)
           x0 == OddPart(u)
           y0 == OddPart(v)
           m == Larger(x0, y0)
           Q == {k \in 0 .. n : P[k].a + P[k].b + k <= n}
<1>1. x0 \in 1 .. u /\ y0 \in 1 .. v
  BY OddPartOf
<1> HIDE DEF x0, y0
<1>2. m \in Nat /\ x0 \in 1 .. m /\ y0 \in 1 .. m
  BY <1>1, LargerOf
<1>3. /\ P[0] = [a |-> x0, b |-> y0] /\ \A i \in 0 .. n : P[i] \in Pairs(m)
      /\ \A i \in 1 .. n : P[i] = SteinPass(P[i - 1])
  BY <1>2, SteinPassesOf DEF x0, y0
<1> HIDE DEF P, m
<1>4. n \in Nat
  OBVIOUS
<1>5. \E k \in 0 .. n : P[k].a = P[k].b
  <2>1. SUFFICES ASSUME \A k \in 0 .. n : P[k].a # P[k].b PROVE FALSE
    OBVIOUS
  <2>2. 0 \in Q
    BY <1>1, <1>3
  <2>3. ASSUME NEW i \in 1 .. n, i - 1 \in Q PROVE i \in Q
    <3>1. i - 1 \in 0 .. n /\ i \in 0 .. n
      BY <1>4
    <3> DEFINE p == P[i - 1]
    <3>2. p \in Pairs(m) /\ p.a # p.b /\ P[i] = SteinPass(p)
      BY <1>3, <2>1, <3>1
    <3>3. p.a + p.b + (i - 1) <= n
      BY <2>3
    <3>4. P[i] \in Pairs(m) /\ P[i].a + P[i].b < p.a + p.b
      BY <1>2, <3>2, SteinPassOf
    <3>5. p.a \in Nat /\ p.b \in Nat /\ P[i].a \in Nat /\ P[i].b \in Nat
      BY <3>2, <3>4 DEF Pairs
    <3> HIDE DEF p, n
    <3>6. P[i].a + P[i].b + i <= n
      BY <1>4, <3>1, <3>3, <3>4, <3>5
    <3> QED  BY <3>1, <3>6
  <2> HIDE DEF Q, n
  <2>4. \A i \in 0 .. n : i \in Q
    BY <1>4, <2>2, <2>3, SetInduction
  <2>5. n \in Q /\ n \in 0 .. n
    BY <1>4, <2>4
  <2>6. P[n].a + P[n].b + n <= n /\ P[n] \in Pairs(m)
    BY <1>3, <2>5 DEF Q
  <2> QED  BY <1>4, <2>6 DEF Pairs
<1> QED  BY <1>5 DEF SteinEnd, P, n

\* What the loop ends with is not greater than the greater of the two.
LEMMA SteinOf ==
  ASSUME NEW u \in Nat \ {0}, NEW v \in Nat \ {0}
  PROVE  Stein(u, v) \in Nat /\ (Stein(u, v) <= u \/ Stein(u, v) <= v)
<1> DEFINE n == u + v
           P == SteinPasses(u, v)
           x0 == OddPart(u)
           y0 == OddPart(v)
           m == Larger(x0, y0)
           e == SteinEnd(u, v)
<1>1. /\ Twos(u) \in Nat /\ x0 \in 1 .. u /\ x0 * TwoTo(Twos(u)) = u
      /\ Twos(v) \in Nat /\ y0 \in 1 .. v /\ y0 * TwoTo(Twos(v)) = v
  BY OddPartOf
<1> HIDE DEF x0, y0
<1>2. m \in Nat /\ x0 \in 1 .. m /\ y0 \in 1 .. m /\ m \in {x0, y0}
  BY <1>1, LargerOf
<1>3. \A i \in 0 .. n : P[i] \in Pairs(m)
  BY <1>2, SteinPassesOf DEF x0, y0
<1> HIDE DEF P, m
<1>6. e \in 0 .. n
  BY SteinEnds
<1> HIDE DEF e, n
<1> DEFINE w == P[e].a
           i == Twos(u)
           j == Twos(v)
           k == IF i < j THEN i ELSE j
           t == TwoTo(k)
<1>7. w \in 1 .. m
  BY <1>3, <1>6 DEF Pairs
<1>8. k \in 0 .. i /\ k \in 0 .. j /\ k \in Nat
  BY <1>1
<1>9. t \in Nat /\ t <= TwoTo(i) /\ t <= TwoTo(j) /\ TwoTo(i) \in Nat /\ TwoTo(j) \in Nat
  BY <1>1, <1>8, TwoToGrows
<1>10. Stein(u, v) = w * t
  BY DEF Stein, e, P
<1>13. x0 * TwoTo(i) = u /\ y0 * TwoTo(j) = v
  BY <1>1
<1> HIDE DEF w, t, i, j, k
<1>11. w \in Nat /\ m \in Nat /\ w <= m
  BY <1>2, <1>7
<1>12. w * t \in Nat /\ t * w <= t * m /\ t * m \in Nat
  BY <1>9, <1>11, Products
<1>14. CASE m = x0
  <2>1. x0 * t <= x0 * TwoTo(i)
    BY <1>2, <1>9, Products
  <2>2. w * t = t * w /\ t * m = x0 * t
    BY <1>9, <1>11, <1>14
  <2>3. w * t <= u
    BY <1>11, <1>12, <1>13, <1>14, <2>1, <2>2
  <2> QED  BY <1>10, <1>12, <2>3
<1>15. CASE m = y0
  <2>1. y0 * t <= y0 * TwoTo(j)
    BY <1>2, <1>9, Products
  <2>2. w * t = t * w /\ t * m = y0 * t
    BY <1>9, <1>11, <1>15
  <2>3. w * t <= v
    BY <1>11, <1>12, <1>13, <1>15, <2>1, <2>2
  <2> QED  BY <1>10, <1>12, <2>3
<1> QED  BY <1>2, <1>14, <1>15

-----------------------------------------------------------------------------
(* Greatest common divisor, least common multiple *)

LEMMA BinaryGcdOf ==
  ASSUME NEW u \in Nat, NEW v \in Nat
  PROVE  /\ BinaryGcd(u, v) \in Nat /\ (BinaryGcd(u, v) <= u \/ BinaryGcd(u, v) <= v)
         /\ v # 0 => BinaryGcd(u, v) # 0
<1>1. CASE u = 0
  BY <1>1 DEF BinaryGcd
<1>2. CASE u # 0 /\ v = 0
  BY <1>2 DEF BinaryGcd
<1>3. CASE u # 0 /\ v # 0
  <2>1. OddPart(v) \in 1 .. v
    BY <1>3, OddPartOf
  <2>2. BinaryGcd(u, v) = OddPart(v)
    BY <1>3 DEF BinaryGcd
  <2> QED  BY <2>1, <2>2
<1> QED  BY <1>1, <1>2, <1>3

LEMMA GcdWordKept ==
  ASSUME IInv, NEW op, op \notin Computing, op # "canonicalize", op # "shrink", NEW w \in CallWords, NEW y,
         NEW u \in Limb, NEW v \in Limb, GcdWord(op, w, y, u, v)
  PROVE  Kept
<1> DEFINE g == BinaryGcd(u, v)
<1>1. u \in Nat /\ v \in Nat /\ u < Radix /\ v < Radix /\ Radix \in Nat
  BY LimbsTyped, ByteRangeDivides
<1>2. g \in Nat /\ (g <= u \/ g <= v)
  BY <1>1, BinaryGcdOf
<1>3. CASE OneWord(op, w, y, g, 1)
  <2> HIDE DEF g
  <2>1. g \in Limb
    BY <1>1, <1>2 DEF Limb
  <2> QED  BY <1>3, <2>1, OneWordKept
<1>4. CASE Fails(op, w, y, "DIVERGES")
  BY <1>4, FailsKept
<1> QED  BY <1>3, <1>4 DEF GcdWord

\* The number itself, shared with the caller.
LEMMA SharedKept ==
  ASSUME IInv, MayAccept(x), NEW op, op \notin Computing, op # "canonicalize", op # "shrink", NEW w \in CallWords,
         NEW y, Hands(op, w, y, x, "SHARED")
  PROVE  Kept
<1>1. CoreValid(x)
  BY DEF Hands, Usable
<1>2. x \in Num /\ Len(x.d) <= x.cap /\ ArithValid(x)
  BY <1>1, UsableTyped, AcceptedNumber
<1> QED  BY <1>2, HandsKept

\* An operand, shared.
LEMMA SharesKept ==
  ASSUME IInv, NEW op, op \notin Computing, op # "canonicalize", op # "shrink", NEW w \in CallWords,
         NEW y \in Operands, MayAccept(y), Shares(op, w, y, y)
  PROVE  Kept
<1> DEFINE c == Larger(1, Len(y.d))
           o == [d |-> y.d, cap |-> c, sign |-> y.sign]
<1>1. y.d \in Seq(Limb) /\ y.sign \in {1, -1} /\ Len(y.d) \in Nat /\ Proper(y.d, y.sign)
  BY AcceptedOperand
<1>2. c \in Nat \ {0} /\ Len(y.d) <= c
  BY <1>1 DEF Larger
<1>3. Hands(op, w, y, o, "SHARED")
  BY DEF Shares
<1> HIDE DEF c
<1>4. o \in Num /\ Len(o.d) <= o.cap /\ ArithValid(o)
  BY <1>1, <1>2, NumMade DEF ArithValid, Proper
<1> HIDE DEF o
<1> QED  BY <1>3, <1>4, HandsKept

LEMMA GcdByWordKept ==
  ASSUME IInv, MayAccept(x), NEW op \in {"gcdu64", "gcdi64"}, NEW w \in CallWords, Mag(w) \in Limb, GcdByWord(op, w)
  PROVE  Kept
<1>0. op \notin Computing /\ op # "canonicalize" /\ op # "shrink"
  BY DEF Computing
<1> DEFINE v == Mag(w)
<1>1. v \in Limb /\ v \in Nat /\ v < Radix /\ Radix \in Nat
  BY LimbsTyped, ByteRangeDivides
<1>2. \/ Hands(op, w, Zero, x, "SHARED")
      \/ v # 0 /\ OneWord(op, w, Zero, v, 1)
      \/ Len(x.d) = 1 /\ GcdWord(op, w, Zero, x.d[1], v)
      \/ \E rem \in 0 .. v - 1 : GcdWord(op, w, Zero, rem, v)
      \/ Fails(op, w, Zero, "CRASH")
  BY DEF GcdByWord
<1> HIDE DEF v
<1>3. CASE Hands(op, w, Zero, x, "SHARED")
  BY <1>0, <1>3, SharedKept
<1>4. CASE v # 0 /\ OneWord(op, w, Zero, v, 1)
  BY <1>0, <1>1, <1>4, OneWordKept
<1>5. CASE Len(x.d) = 1 /\ GcdWord(op, w, Zero, x.d[1], v)
  <2>1. x.d \in Seq(Limb) /\ 1 \in 1 .. Len(x.d)
    BY <1>5, AcceptedNumber
  <2>2. x.d[1] \in Limb
    BY <2>1, DigitTyped
  <2> QED  BY <1>0, <1>1, <1>5, <2>2, GcdWordKept
<1>6. CASE \E rem \in 0 .. v - 1 : GcdWord(op, w, Zero, rem, v)
  <2>1. PICK rem \in 0 .. v - 1 : GcdWord(op, w, Zero, rem, v)
    BY <1>6
  <2>2. rem \in Limb
    BY <1>1 DEF Limb
  <2> QED  BY <1>0, <1>1, <2>1, <2>2, GcdWordKept
<1>7. CASE Fails(op, w, Zero, "CRASH")
  BY <1>7, FailsKept
<1> QED  BY <1>2, <1>3, <1>4, <1>5, <1>6, <1>7

LEMMA GcdsKept == IInv /\ Gcds => Kept
<1> SUFFICES ASSUME IInv, Gcds PROVE Kept
  OBVIOUS
<1>1. MayAccept(x)
  BY DEF Gcds
<1>2. ASSUME NEW v \in Words \cup IntWords, NEW op \in {"gcdu64", "gcdi64"}, GcdByWord(op, v) PROVE Kept
  <2>1. v \in CallWords /\ Mag(v) \in Limb
    BY WordPassed
  <2> QED  BY <1>1, <1>2, <2>1, GcdByWordKept
<1> QED  BY <1>2 DEF Gcds

\* A number no greater than one of two fits the limbs of the longer.
LEMMA LongestRange ==
  ASSUME NEW k \in Nat, NEW l \in Nat, NEW u \in Nat, NEW v \in Nat, u < ByteRange(k * LimbBytes),
         v < ByteRange(l * LimbBytes), NEW g \in Nat, g <= u \/ g <= v
  PROVE  Larger(k, l) \in Nat /\ g < ByteRange(Larger(k, l) * LimbBytes)
<1> DEFINE n == Larger(k, l)
<1>1. n \in Nat /\ k <= n /\ l <= n
  BY LargerOf
<1> HIDE DEF n
<1>2. ASSUME NEW j \in Nat, j <= n
      PROVE  ByteRange(j * LimbBytes) <= ByteRange(n * LimbBytes)
             /\ ByteRange(j * LimbBytes) \in Nat /\ ByteRange(n * LimbBytes) \in Nat
  <2>1. LimbBytes \in Nat
    BY LimbAssumption
  <2>2. LimbBytes * j <= LimbBytes * n
    BY <1>1, <1>2, <2>1, Products
  <2>3. j * LimbBytes \in Nat /\ n * LimbBytes \in Nat /\ j * LimbBytes <= n * LimbBytes
    BY <1>1, <2>1, <2>2
  <2> QED  BY <2>3, ByteRangeGrows
<1>3. CASE g <= u
  <2>1. ByteRange(k * LimbBytes) <= ByteRange(n * LimbBytes)
        /\ ByteRange(k * LimbBytes) \in Nat /\ ByteRange(n * LimbBytes) \in Nat
    BY <1>1, <1>2
  <2> QED  BY <1>1, <1>3, <2>1 DEF n
<1>4. CASE g <= v
  <2>1. ByteRange(l * LimbBytes) <= ByteRange(n * LimbBytes)
        /\ ByteRange(l * LimbBytes) \in Nat /\ ByteRange(n * LimbBytes) \in Nat
    BY <1>1, <1>2
  <2> QED  BY <1>1, <1>4, <2>1 DEF n
<1> QED  BY <1>3, <1>4

LEMMA GcdKept == IInv /\ Gcd => Kept
<1> SUFFICES ASSUME IInv, Gcd PROVE Kept
  OBVIOUS
<1>0. "gcd" \notin Computing /\ "gcd" # "canonicalize" /\ "gcd" # "shrink" /\ 0 \in CallWords
  BY WordPassed DEF Computing
<1>1. PICK y \in Operands :
        /\ MayAccept(x) /\ MayAccept(y)
        /\ \/ Shares("gcd", 0, y, y)
           \/ Hands("gcd", 0, y, x, "SHARED")
           \/ Len(x.d) = 1 /\ Len(y.d) = 1 /\ GcdWord("gcd", 0, y, x.d[1], y.d[1])
           \/ /\ x.d # <<>> /\ y.d # <<>>
              /\ \/ Block("gcd", 0, y, Larger(Len(x.d), Len(y.d)),
                          Limbs(Stein(Magnitude(x.d), Magnitude(y.d)), Larger(Len(x.d), Len(y.d))), 1)
                 \/ Fails("gcd", 0, y, "UNDEFINED")
  BY DEF Gcd
<1>2. /\ x.d \in Seq(Limb) /\ Len(x.d) \in Nat /\ Proper(x.d, x.sign)
      /\ y.d \in Seq(Limb) /\ Len(y.d) \in Nat /\ Proper(y.d, y.sign)
  BY <1>1, AcceptedNumber, AcceptedOperand
<1>3. CASE Shares("gcd", 0, y, y)
  BY <1>0, <1>1, <1>3, SharesKept
<1>4. CASE Hands("gcd", 0, y, x, "SHARED")
  BY <1>0, <1>1, <1>4, SharedKept
<1>5. CASE Len(x.d) = 1 /\ Len(y.d) = 1 /\ GcdWord("gcd", 0, y, x.d[1], y.d[1])
  <2>1. x.d[1] \in Limb /\ y.d[1] \in Limb
    BY <1>2, <1>5, DigitTyped
  <2> QED  BY <1>0, <1>5, <2>1, GcdWordKept
<1>6. CASE /\ x.d # <<>> /\ y.d # <<>>
           /\ Block("gcd", 0, y, Larger(Len(x.d), Len(y.d)),
                    Limbs(Stein(Magnitude(x.d), Magnitude(y.d)), Larger(Len(x.d), Len(y.d))), 1)
  <2> DEFINE u == Magnitude(x.d)
             v == Magnitude(y.d)
             g == Stein(u, v)
             n == Larger(Len(x.d), Len(y.d))
             d == Limbs(g, n)
  <2>1. /\ u \in Nat /\ u < ByteRange(Len(x.d) * LimbBytes)
        /\ v \in Nat /\ v < ByteRange(Len(y.d) * LimbBytes)
    BY <1>2, MagnitudeBelow
  <2>2. u # 0 /\ v # 0
    BY <1>2, <1>6, NotNothing DEF Proper
  <2> HIDE DEF u, v
  <2>3. g \in Nat /\ (g <= u \/ g <= v)
    BY <2>1, <2>2, SteinOf
  <2> HIDE DEF g
  <2>4. n \in Nat /\ n >= Len(x.d) /\ n >= Len(y.d)
    BY <1>2, LargerOf
  <2> HIDE DEF n
  <2>6. g < ByteRange(n * LimbBytes)
    BY <1>2, <2>1, <2>3, LongestRange DEF n
  <2>7. d \in Seq(Limb) /\ Len(d) <= n /\ Len(d) \in Nat /\ Proper(d, 1)
    BY <2>3, <2>4, <2>6, LimbsOf
  <2>8. Block("gcd", 0, y, n, d, 1)
    BY <1>6 DEF n, g, u, v
  <2> HIDE DEF d
  <2>9. Len(d) <= Larger(1, n)
    BY <2>4, <2>7 DEF Larger
  <2> QED  BY <1>0, <2>4, <2>7, <2>8, <2>9, BlockKept
<1>7. CASE Fails("gcd", 0, y, "UNDEFINED")
  BY <1>0, <1>7, FailsKept
<1> QED  BY <1>1, <1>3, <1>4, <1>5, <1>6, <1>7

LEMMA LcmOfGarbageKept ==
  ASSUME IInv, MayAccept(x), NEW op \in {"lcmu64", "lcmi64"}, NEW w \in CallWords, Mag(w) \in Limb \ {0},
         LcmOfGarbage(op, w)
  PROVE  Kept
<1>0. op \notin Computing /\ op # "canonicalize" /\ op # "shrink" /\ op \notin Making
  BY DEF Computing, Making
<1> DEFINE v == Mag(w)
           n == Len(x.d)
<1>1. v \in Nat \ {0} /\ n \in Nat
  BY AcceptedNumber, LimbsTyped
<1>2. \/ \E how \in {"DNML_ALLOC_OOM", "CRASH"} : Fails(op, w, Zero, how)
      \/ \E g \in 0 .. ByteRange(n * LimbBytes) - 1 :
           \/ Returns(op, w, Zero, [d |-> Limbs((g \div v) * (v \div BinaryGcd(g % v, v)), n), cap |-> n + 1, sign |-> 1])
           \/ Fails(op, w, Zero, "DIVERGES")
  BY DEF LcmOfGarbage
<1> HIDE DEF v, n
<1>3. ASSUME NEW how \in {"DNML_ALLOC_OOM", "CRASH", "DIVERGES"}, Fails(op, w, Zero, how) PROVE Kept
  <2>1. how # "SUCCESS" /\ how # "OVERRUN"
    BY <1>3
  <2> QED  BY <1>0, <1>3, <2>1, FailsKept
<1>4. ASSUME NEW g \in 0 .. ByteRange(n * LimbBytes) - 1,
             Returns(op, w, Zero, [d |-> Limbs((g \div v) * (v \div BinaryGcd(g % v, v)), n), cap |-> n + 1, sign |-> 1])
      PROVE  Kept
  <2> DEFINE q == g \div v
             b == BinaryGcd(g % v, v)
             c == v \div b
             d == Limbs(q * c, n)
             o == [d |-> d, cap |-> n + 1, sign |-> 1]
  <2>1. ByteRange(n * LimbBytes) \in Nat
    <3>1. n * LimbBytes \in Nat
      BY <1>1, LimbAssumption
    <3> QED  BY <3>1, ByteRangeGrows
  <2>2. g \in Nat /\ g < ByteRange(n * LimbBytes)
    BY <1>4, <2>1
  <2>3. q \in Nat /\ g % v \in 0 .. v - 1 /\ g = v * q + (g % v)
    BY <1>1, <2>2, Division
  <2>4. g % v \in Nat
    BY <1>1, <2>3
  <2>5. b \in Nat \ {0}
    BY <1>1, <2>4, BinaryGcdOf
  <2> HIDE DEF b, q
  <2>6. c \in Nat /\ v = b * c + (v % b) /\ v % b \in 0 .. b - 1
    BY <1>1, <2>5, Division
  <2> HIDE DEF c
  <2>7. c * 1 <= c * b
    BY <2>5, <2>6, Products
  <2>8. c <= v
    <3> DEFINE e == c * b
               r == v % b
    <3>1. v = e + r /\ r \in Nat /\ c <= e /\ e \in Nat
      BY <2>5, <2>6, <2>7
    <3> HIDE DEF e, r
    <3> QED  BY <2>6, <3>1
  <2>9. q * c <= q * v /\ q * c \in Nat /\ q * v \in Nat
    BY <1>1, <2>3, <2>6, <2>8, Products
  <2>10. q * v <= g
    <3> DEFINE e == q * v
               r == g % v
    <3>1. g = e + r /\ r \in Nat /\ e \in Nat
      BY <1>1, <2>3, <2>4, <2>9
    <3> HIDE DEF e, r
    <3>2. e <= g
      BY <2>2, <3>1
    <3> QED  BY <3>2 DEF e
  <2>11. q * c \in Nat /\ q * c < ByteRange(n * LimbBytes)
    BY <2>1, <2>2, <2>9, <2>10
  <2>12. d \in Seq(Limb) /\ Len(d) <= n /\ Len(d) \in Nat
    BY <1>1, <2>11, LimbsOf
  <2>13. Returns(op, w, Zero, o)
    BY <1>4 DEF q, b, c
  <2> HIDE DEF d
  <2>14. n + 1 \in Nat \ {0} /\ Len(d) <= n + 1
    BY <1>1, <2>12
  <2>15. o \in Num /\ Len(o.d) <= o.cap
    BY <2>12, <2>14, NumMade
  <2> HIDE DEF o
  <2> QED  BY <1>0, <2>13, <2>15, ReturnsKept
<1> QED  BY <1>2, <1>3, <1>4

LEMMA LcmU64Kept == IInv /\ LcmU64 => Kept
<1> SUFFICES ASSUME IInv, LcmU64 PROVE Kept
  OBVIOUS
<1>0. "lcmu64" \notin Computing /\ "lcmu64" # "canonicalize" /\ "lcmu64" # "shrink" /\ "lcmu64" \notin Making
  BY DEF Computing, Making
<1>1. PICK v \in Words :
        /\ MayAccept(x)
        /\ \/ OneWordUnchecked("lcmu64", v, Zero, 0, 1)
           \/ OneWord("lcmu64", v, Zero, v, 1)
           \/ Duplicate("lcmu64", v, Zero, x, x.sign)
           \/ v > 1 /\ LcmOfGarbage("lcmu64", v)
  BY DEF LcmU64
<1>2. v \in CallWords /\ v \in Limb /\ Mag(v) = v /\ v \in Nat /\ 0 \in Limb
  BY WordPassed
<1>3. x.d \in Seq(Limb) /\ x.sign \in {1, -1}
  BY <1>1, AcceptedNumber
<1>4. CASE OneWordUnchecked("lcmu64", v, Zero, 0, 1)
  BY <1>0, <1>2, <1>4, OneWordUncheckedKept
<1>5. CASE OneWord("lcmu64", v, Zero, v, 1)
  BY <1>0, <1>2, <1>5, OneWordKept
<1>6. CASE Duplicate("lcmu64", v, Zero, x, x.sign)
  BY <1>0, <1>2, <1>3, <1>6, DuplicateKept
<1>7. CASE v > 1 /\ LcmOfGarbage("lcmu64", v)
  <2>1. Mag(v) \in Limb \ {0}
    BY <1>2, <1>7
  <2> QED  BY <1>1, <1>2, <1>7, <2>1, LcmOfGarbageKept
<1> QED  BY <1>1, <1>4, <1>5, <1>6, <1>7

LEMMA LcmI64Kept == IInv /\ LcmI64 => Kept
<1> SUFFICES ASSUME IInv, LcmI64 PROVE Kept
  OBVIOUS
<1>0. "lcmi64" \notin Computing /\ "lcmi64" # "canonicalize" /\ "lcmi64" # "shrink" /\ "lcmi64" \notin Making
  BY DEF Computing, Making
<1>1. PICK v \in IntWords :
        /\ MayAccept(x)
        /\ \/ ZeroResult("lcmi64", v, Zero)
           \/ OneWord("lcmi64", v, Zero, Mag(v), 1)
           \/ Duplicate("lcmi64", v, Zero, x, x.sign)
           \/ Mag(v) > 1 /\ LcmOfGarbage("lcmi64", v)
  BY DEF LcmI64
<1>2. v \in CallWords /\ Mag(v) \in Limb /\ Mag(v) \in Nat
  BY WordPassed
<1>3. x.d \in Seq(Limb) /\ x.sign \in {1, -1}
  BY <1>1, AcceptedNumber
<1>4. CASE ZeroResult("lcmi64", v, Zero)
  BY <1>0, <1>2, <1>4, ZeroKept
<1>5. CASE OneWord("lcmi64", v, Zero, Mag(v), 1)
  BY <1>0, <1>2, <1>5, OneWordKept
<1>6. CASE Duplicate("lcmi64", v, Zero, x, x.sign)
  BY <1>0, <1>2, <1>3, <1>6, DuplicateKept
<1>7. CASE Mag(v) > 1 /\ LcmOfGarbage("lcmi64", v)
  <2>1. Mag(v) \in Limb \ {0}
    BY <1>2, <1>7
  <2> QED  BY <1>1, <1>2, <1>7, <2>1, LcmOfGarbageKept
<1> QED  BY <1>1, <1>4, <1>5, <1>6, <1>7

LEMMA LcmKept == IInv /\ Lcm => Kept
<1> SUFFICES ASSUME IInv, Lcm PROVE Kept
  OBVIOUS
<1>0. "lcm" \notin Computing /\ "lcm" # "canonicalize" /\ "lcm" # "shrink" /\ 0 \in CallWords
  BY WordPassed DEF Computing
<1>1. PICK y \in Operands :
        /\ MayAccept(x) /\ MayAccept(y)
        /\ \/ Shares("lcm", 0, y, y)
           \/ Hands("lcm", 0, y, x, "SHARED")
           \/ ZeroResult("lcm", 0, y)
           \/ HeapDivision("lcm", y)
  BY DEF Lcm, LcmByGcd
<1> QED  BY <1>0, <1>1, SharesKept, SharedKept, ZeroKept, HeapDivisionKept

-----------------------------------------------------------------------------
(* Squares *)

\* UINT32_MAX: a word below it has a square of one word, a word above it has not.
LEMMA HalfOf ==
  /\ HalfMax \in Nat
  /\ \A l \in Limb : (l <= HalfMax \/ l = 1) => l * l \in Limb
  /\ \A l \in Limb : l >= HalfMax /\ l # 1 /\ ~ (l = HalfMax /\ HalfMax > 1) => l * l >= Radix
<1> DEFINE h == LimbBytes \div 2
           H == ByteRange(h)
<1>1. LimbBytes \in Nat \ {0} /\ LimbBytes % 2 = 0
  BY LimbAssumption, FuncAssumption
<1>2. h \in Nat /\ h >= 1 /\ h + h = LimbBytes
  BY <1>1
<1> HIDE DEF h
<1>3. Radix = H * H
  BY <1>2, ByteRangeSum DEF Radix
<1>4. ByteRange(1) <= H /\ H \in Nat /\ 1 \in Nat
  BY <1>2, ByteRangeGrows
<1>5. ByteRange(1) = ByteBase /\ ByteBase \in Nat /\ ByteBase >= 2
  <2>1. 0 + 1 = 1 /\ 0 \in Nat
    OBVIOUS
  <2>2. ByteRange(0 + 1) = ByteBase * ByteRange(0) /\ ByteRange(0) = 1
    BY <2>1, ByteRangeStep
  <2> QED  BY <2>1, <2>2, LimbAssumption
<1>6. HalfMax = H - 1
  BY DEF HalfMax, H, h
<1> HIDE DEF H
<1>7. HalfMax \in Nat /\ HalfMax >= 1 /\ H = HalfMax + 1 /\ H \in Nat /\ H >= 2
  BY <1>4, <1>5, <1>6
<1>8. Radix \in Nat /\ \A l \in Limb : l \in Nat /\ l < Radix
  BY LimbsTyped, ByteRangeDivides
<1>9. ASSUME NEW l \in Limb, l <= HalfMax \/ l = 1 PROVE l * l \in Limb
  <2>1. CASE l = 1
    BY <2>1
  <2>2. CASE l <= HalfMax
    <3>1. l \in Nat /\ l <= H /\ l + 1 <= H /\ l + 1 \in Nat
      BY <1>7, <1>8, <2>2
    <3>2. l * (l + 1) <= l * H /\ H * l <= H * H /\ l * (l + 1) \in Nat /\ l * H \in Nat /\ H * H \in Nat
      BY <1>7, <3>1, Products
    <3>3. l * (l + 1) = l * l + l /\ l * H = H * l /\ l * l \in Nat
      BY <1>7, <3>1
    <3> DEFINE a == l * l
               b == l * H
    <3>4. a + l <= b /\ b <= Radix /\ a \in Nat /\ b \in Nat
      BY <1>3, <3>2, <3>3
    <3>5. l = 0 => a = 0
      OBVIOUS
    <3> HIDE DEF a, b
    <3>6. a < Radix /\ a \in Nat
      <4>1. Radix >= 2
        BY ByteRangeDivides
      <4> QED  BY <1>8, <3>1, <3>4, <3>5, <4>1
    <3> QED  BY <1>8, <3>6 DEF a, Limb
  <2> QED  BY <1>9, <2>1, <2>2
<1>10. ASSUME NEW l \in Limb, l >= HalfMax, l # 1, ~ (l = HalfMax /\ HalfMax > 1) PROVE l * l >= Radix
  <2>1. l \in Nat /\ H <= l
    BY <1>7, <1>8, <1>10
  <2>2. H * H <= H * l /\ l * H <= l * l /\ H * H \in Nat /\ H * l \in Nat /\ l * l \in Nat
    BY <1>7, <2>1, Products
  <2>3. H * l = l * H
    BY <1>7, <2>1
  <2> QED  BY <1>3, <2>2, <2>3
<1> QED  BY <1>7, <1>9, <1>10

LEMMA SquareOfTyped ==
  ASSUME NEW l \in Limb
  PROVE  /\ SquareOf(l) \in Seq(Limb) /\ Len(SquareOf(l)) = 2
         /\ l * l >= Radix => Proper(SquareOf(l), 1)
<1> DEFINE t == l * l
           q == t \div Radix
           r == t % Radix
           s == <<r, q>>
<1>1. l \in Nat /\ Radix \in Nat \ {0} /\ 0 \in Limb
  BY LimbsTyped, ByteRangeDivides
<1>2. t = 0 + l * l + 0 /\ t \in Nat
  BY <1>1
<1>3. q \in Limb /\ r \in Limb
  BY <1>1, <1>2, DoubleLimb
<1>4. q \in Nat /\ r \in 0 .. Radix - 1 /\ t = Radix * q + r
  BY <1>1, <1>2, Division
<1> HIDE DEF t
<1>5. t >= Radix => q # 0
  <2> HIDE DEF q, r
  <2>1. q = 0 => t = r
    BY <1>1, <1>4
  <2> QED  BY <1>1, <1>2, <1>4, <2>1
<1>6. SquareOf(l) = s
  BY DEF SquareOf, t
<1> HIDE DEF q, r
<1>7. s \in Seq(Limb) /\ Len(s) = 2 /\ s[2] = q /\ s # <<>>
  BY <1>3
<1> QED  BY <1>5, <1>6, <1>7 DEF Proper, t

\* A product has no zero limb on top.
LEMMA SchoolbookTop ==
  ASSUME NEW a \in Seq(Limb), NEW b \in Seq(Limb)
  PROVE  Proper(Schoolbook(a, b), 1)
<1> DEFINE r == Rows(a, b)[Len(a)]
<1>1. Len(a) \in 0 .. Len(a)
  BY DigitTyped
<1>2. r \in Arrays(Len(a) + Len(b))
  BY <1>1, RowsOf
<1>3. r \in Seq(Limb)
  <2>1. Len(a) + Len(b) \in Nat
    BY DigitTyped
  <2> HIDE DEF r
  <2> QED  BY <1>2, <2>1 DEF Arrays
<1>4. Schoolbook(a, b) = Trim(r)
  BY DEF Schoolbook
<1> HIDE DEF r
<1>5. Trim(r) # <<>> => Trim(r)[Len(Trim(r))] # 0
  BY <1>3, TrimOf
<1> QED  BY <1>4, <1>5 DEF Proper

\* The first limb of a number of one.
LEMMA FirstLimb ==
  ASSUME IInv, MayAccept(x), Len(x.d) = 1
  PROVE  x.d[1] \in Limb /\ x.d[1] \in Nat /\ x.d[1] # 0 /\ x.d # <<>> /\ x.d = <<x.d[1]>>
<1>1. x.d \in Seq(Limb) /\ Proper(x.d, x.sign)
  BY AcceptedNumber
<1>2. x.d # <<>>
  <2>1. Len(x.d) # 0
    OBVIOUS
  <2> QED  BY <1>1, <2>1, LengthOf
<1>3. x.d[1] \in Limb /\ x.d[1] \in Nat
  BY <1>1, DigitTyped
<1>4. x.d = <<x.d[1]>>
  BY <1>1
<1> QED  BY <1>1, <1>2, <1>3, <1>4 DEF Proper

\* The array is kept, for other limbs that are no more than the capacity.
LEMMA InPlaceKept ==
  ASSUME IInv, NEW op, op \notin Computing, op # "canonicalize", op # "shrink", op \notin Making, NEW w \in CallWords,
         NEW y, x \in Num, NEW f \in Seq(Limb), Len(f) <= 1, NEW s \in {1, -1},
         Returns(op, w, y, [x EXCEPT !.d = f, !.sign = s])
  PROVE  Kept
<1> DEFINE c == x.cap
           o == [d |-> f, cap |-> c, sign |-> s]
<1>1. c \in Nat \ {0} /\ Len(f) \in Nat
  BY NumParts, DigitTyped
<1>5. Len(f) <= c
  BY <1>1
<1>2. [x EXCEPT !.d = f, !.sign = s] = o
  BY ExceptSigned
<1>3. Returns(op, w, y, o)
  BY <1>2
<1> HIDE DEF c
<1>4. o \in Num /\ Len(o.d) <= o.cap
  BY <1>1, <1>5, NumMade
<1> HIDE DEF o
<1> QED  BY <1>3, <1>4, ReturnsKept

LEMMA MutSqrKept ==
  ASSUME IInv, MayAccept(x), NEW op \in {"mut_sqr", "mut_pow"}, NEW w \in CallWords, MutSqr(op, w)
  PROVE  Kept
<1>0. op \notin Computing /\ op # "canonicalize" /\ op # "shrink" /\ op \notin Making
  BY DEF Computing, Making
<1> DEFINE l == x.d[1]
           n == Len(x.d)
           q == l * l
           Q == SquareOf(l)
<1>1. x \in Num /\ x.d \in Seq(Limb) /\ x.sign \in {1, -1} /\ n \in Nat /\ x.cap \in Nat \ {0}
  BY AcceptedNumber
<1>2. \/ Returns(op, w, Zero, x)
      \/ n = 1 /\ (l < HalfMax \/ l = 1) /\ Returns(op, w, Zero, [x EXCEPT !.d = <<q>>, !.sign = 1])
      \/ n = 1 /\ Reserving(op, w, Zero, 2, [EnsCap(x, 2) EXCEPT !.d = Q, !.sign = 1])
      \/ n > 1 /\ \E p \in ArenaProducts(x.d, x.d, "SUCCESS") :
                    Hands(op, w, Zero, [d |-> p.d, cap |-> 2 * n, sign |-> 1], p.status)
      \/ \E how \in {"DNML_ALLOC_OOM", "CRASH"} : Fails(op, w, Zero, how)
  BY DEF MutSqr
<1>3. CASE Returns(op, w, Zero, x)
  BY <1>0, <1>3, SameKept, SMTT(60)
<1>4. CASE n = 1 /\ (l < HalfMax \/ l = 1) /\ Returns(op, w, Zero, [x EXCEPT !.d = <<q>>, !.sign = 1])
  <2>1. q \in Limb
    BY <1>4, FirstLimb, HalfOf
  <2> HIDE DEF q
  <2>2. <<q>> \in Seq(Limb) /\ Len(<<q>>) <= 1
    BY <2>1
  <2> QED  BY <1>0, <1>1, <1>4, <2>2, InPlaceKept
<1>5. CASE n = 1 /\ Reserving(op, w, Zero, 2, [EnsCap(x, 2) EXCEPT !.d = Q, !.sign = 1])
  <2> DEFINE e == EnsCap(x, 2)
             c == e.cap
             o == [d |-> Q, cap |-> c, sign |-> 1]
  <2>1. Q \in Seq(Limb) /\ Len(Q) = 2
    BY <1>5, FirstLimb, SquareOfTyped
  <2>2. e \in Num /\ c \in Nat \ {0} /\ c >= 2
    BY <1>1, Reserved
  <2> HIDE DEF e, Q
  <2>3. [e EXCEPT !.d = Q, !.sign = 1] = o
    BY <2>2, ExceptSigned
  <2> HIDE DEF c
  <2>4. o \in Num /\ Len(o.d) <= o.cap
    BY <2>1, <2>2, NumMade
  <2>5. Returns(op, w, Zero, o) \/ Fails(op, w, Zero, "DNML_ALLOC_OOM")
    BY <1>5, <2>3 DEF Reserving, e
  <2> HIDE DEF o
  <2> QED  BY <1>0, <2>4, <2>5, ReturnsKept, FailsKept
<1>6. ASSUME n > 1, NEW p \in ArenaProducts(x.d, x.d, "SUCCESS"),
             Hands(op, w, Zero, [d |-> p.d, cap |-> 2 * n, sign |-> 1], p.status)
      PROVE  Kept
  <2> DEFINE c == 2 * n
             o == [d |-> p.d, cap |-> c, sign |-> 1]
  <2>1. p.d \in Seq(Limb) /\ Len(p.d) <= n + n /\ Len(p.d) \in Nat /\ p.status \in {"SUCCESS", "POISONED"}
    BY <1>1, ArenaProductOf
  <2> HIDE DEF n
  <2>2. c \in Nat \ {0} /\ Len(p.d) <= c
    BY <1>1, <1>6, <2>1
  <2>3. Hands(op, w, Zero, o, p.status) /\ p.status # "OVERRUN"
    BY <1>6, <2>1
  <2> HIDE DEF c
  <2>4. o \in Num /\ Len(o.d) <= o.cap
    BY <2>1, <2>2, NumMade
  <2> HIDE DEF o
  <2> QED  BY <1>0, <2>3, <2>4, HandsKept
<1>7. ASSUME NEW how \in {"DNML_ALLOC_OOM", "CRASH"}, Fails(op, w, Zero, how) PROVE Kept
  <2>1. how # "SUCCESS" /\ how # "OVERRUN"
    BY <1>7
  <2> QED  BY <1>0, <1>7, <2>1, FailsKept
<1> HIDE DEF n, q, Q
<1> QED  BY <1>2, <1>3, <1>4, <1>5, <1>6, <1>7

LEMMA FSqrKept ==
  ASSUME IInv, MayAccept(x), NEW op \in {"sqr", "pow"}, NEW w \in CallWords, FSqr(op, w)
  PROVE  Kept
<1>0. op \notin Computing /\ op # "canonicalize" /\ op # "shrink"
  BY DEF Computing
<1> DEFINE l == x.d[1]
           n == Len(x.d)
           q == l * l
           Q == SquareOf(l)
           P == Schoolbook(x.d, x.d)
<1>1. x \in Num /\ x.d \in Seq(Limb) /\ x.sign \in {1, -1} /\ n \in Nat /\ Proper(x.d, x.sign)
  BY AcceptedNumber
<1>2. \/ ZeroResult(op, w, Zero)
      \/ n = 1 /\ (l < HalfMax \/ l = 1) /\ OneWord(op, w, Zero, q, 1)
      \/ n = 1 /\ l >= HalfMax /\ l # 1 /\ Block(op, w, Zero, 2, Q, 1)
      \/ n > 1 /\ Block(op, w, Zero, 2 * n, P, 1)
      \/ Fails(op, w, Zero, "CRASH")
  BY DEF FSqr
<1>3. CASE ZeroResult(op, w, Zero)
  BY <1>0, <1>3, ZeroKept
<1>4. CASE n = 1 /\ (l < HalfMax \/ l = 1) /\ OneWord(op, w, Zero, q, 1)
  <2>1. q \in Limb
    BY <1>4, FirstLimb, HalfOf
  <2> HIDE DEF q
  <2> QED  BY <1>0, <1>4, <2>1, OneWordKept
<1>5. CASE n = 1 /\ l >= HalfMax /\ l # 1 /\ Block(op, w, Zero, 2, Q, 1)
  <2>1. l \in Limb /\ x.d = <<l>>
    BY <1>5, FirstLimb
  <2> HIDE DEF l
  <2>2. Q \in Seq(Limb) /\ Len(Q) = 2 /\ (l * l >= Radix => Proper(Q, 1))
    BY <2>1, SquareOfTyped
  <2>3. op \notin Making \/ Proper(Q, 1)
    <3>1. CASE op = "sqr" /\ op \in Making
      <4>1. ~ (x.d = <<HalfMax>> /\ HalfMax > 1)
        BY <3>1 DEF Making
      <4>2. ~ (l = HalfMax /\ HalfMax > 1)
        BY <2>1, <4>1
      <4>3. l * l >= Radix
        BY <1>5, <2>1, <4>2, HalfOf
      <4> QED  BY <2>2, <4>3
    <3>2. "pow" \notin Making
      BY DEF Making
    <3> QED  BY <3>1, <3>2
  <2>4. Len(Q) <= Larger(1, 2) /\ 2 \in Nat
    BY <2>2 DEF Larger
  <2> HIDE DEF Q
  <2> QED  BY <1>0, <1>5, <2>2, <2>3, <2>4, BlockKept
<1>6. CASE n > 1 /\ Block(op, w, Zero, 2 * n, P, 1)
  <2> DEFINE k == 2 * n
  <2>1. P \in Seq(Limb) /\ Len(P) <= n + n /\ Len(P) \in Nat
    BY <1>1, SchoolbookOf, DigitTyped
  <2>2. Proper(P, 1)
    BY <1>1, SchoolbookTop
  <2> HIDE DEF P, n
  <2>3. k \in Nat /\ Len(P) <= k
    BY <1>1, <2>1
  <2> HIDE DEF k
  <2>4. Len(P) <= Larger(1, k)
    BY <2>1, <2>3 DEF Larger
  <2>5. Block(op, w, Zero, k, P, 1)
    BY <1>6 DEF k
  <2> QED  BY <1>0, <2>1, <2>2, <2>3, <2>4, <2>5, BlockKept
<1>7. CASE Fails(op, w, Zero, "CRASH")
  BY <1>0, <1>7, FailsKept
<1> HIDE DEF n, q, Q, P
<1> QED  BY <1>2, <1>3, <1>4, <1>5, <1>6, <1>7

LEMMA SquaresKept == IInv /\ Squares => Kept
<1> SUFFICES ASSUME IInv, Squares PROVE Kept
  OBVIOUS
<1>1. MayAccept(x) /\ (MutSqr("mut_sqr", 0) \/ FSqr("sqr", 0))
  BY DEF Squares
<1> QED  BY <1>1, MutSqrKept, FSqrKept, WordPassed

-----------------------------------------------------------------------------
(* Powers *)

\* The product, its array and the square after some bits of the exponent.
PowStates == {p \in [acc : Seq(Limb), cap : Nat, sq : Seq(Limb)] : Len(p.acc) <= p.cap}

LEMMA ExpBitOf ==
  ASSUME NEW p \in PowStates, NEW set, NEW more
  PROVE  ExpBit(p, set, more) \in PowStates
<1> DEFINE a == IF set THEN Schoolbook(p.acc, p.sq) ELSE p.acc
           c == IF set THEN Len(p.acc) + Len(p.sq) ELSE p.cap
           s == IF more THEN Schoolbook(p.sq, p.sq) ELSE p.sq
<1>1. p.acc \in Seq(Limb) /\ p.cap \in Nat /\ p.sq \in Seq(Limb) /\ Len(p.acc) <= p.cap
  BY DEF PowStates
<1>2. /\ Schoolbook(p.acc, p.sq) \in Seq(Limb) /\ Len(Schoolbook(p.acc, p.sq)) <= Len(p.acc) + Len(p.sq)
      /\ Schoolbook(p.sq, p.sq) \in Seq(Limb)
  BY <1>1, SchoolbookOf
<1>7. Len(p.acc) \in Nat /\ Len(p.sq) \in Nat
  BY <1>1, DigitTyped
<1>8. \A m, n \in Nat : m + n \in Nat
  OBVIOUS
<1>3. Len(p.acc) + Len(p.sq) \in Nat
  BY <1>7, <1>8, Zenon
<1>4. a \in Seq(Limb) /\ c \in Nat /\ Len(a) <= c
  BY <1>1, <1>2, <1>3
<1>5. s \in Seq(Limb)
  BY <1>1, <1>2
<1>6. ExpBit(p, set, more) = [acc |-> a, cap |-> c, sq |-> s]
  BY DEF ExpBit
<1> HIDE DEF a, c, s
<1> QED  BY <1>4, <1>5, <1>6 DEF PowStates

LEMMA PowStart ==
  ASSUME NEW d \in Seq(Limb)
  PROVE  [acc |-> <<1>>, cap |-> 1, sq |-> d] \in PowStates
<1> DEFINE a == <<1>>
<1>1. a \in Seq(Limb) /\ Len(a) <= 1
  BY LimbsTyped
<1> HIDE DEF a
<1>2. [acc |-> a, cap |-> 1, sq |-> d] \in PowStates
  BY <1>1 DEF PowStates
<1> QED  BY <1>2 DEF a

\* They stay such states.
LEMMA ExpBitsOf ==
  ASSUME NEW d \in Seq(Limb), NEW e \in Nat
  PROVE  /\ ExpBits(d, e)[0] = [acc |-> <<1>>, cap |-> 1, sq |-> d] /\ \A i \in 0 .. e : ExpBits(d, e)[i] \in PowStates
         /\ \A i \in 1 .. e : ExpBits(d, e)[i] = ExpBit(ExpBits(d, e)[i - 1], BitSet(e, i - 1), BitsAbove(e, i - 1))
<1> DEFINE Step(r) == [i \in 0 .. e |-> IF i = 0 THEN [acc |-> <<1>>, cap |-> 1, sq |-> d] ELSE ExpBit(r[i - 1], BitSet(e, i - 1), BitsAbove(e, i - 1))]
           c == CHOOSE r : r = Step(r)
           g == [i \in 1 .. e |-> [s \in PowStates |-> ExpBit(s, BitSet(e, i - 1), BitsAbove(e, i - 1))]]
<1>n. e \in Nat /\ [acc |-> <<1>>, cap |-> 1, sq |-> d] \in PowStates
  BY PowStart
<1>0. ASSUME NEW i \in 1 .. e, NEW s \in PowStates PROVE ExpBit(s, BitSet(e, i - 1), BitsAbove(e, i - 1)) \in PowStates
  BY ExpBitOf
<1>1. Fits(e, PowStates, g) /\ \A i \in 1 .. e : \A s \in PowStates : g[i][s] = ExpBit(s, BitSet(e, i - 1), BitsAbove(e, i - 1))
  BY <1>0 DEF Fits
<1> HIDE DEF g
<1>2. PICK f \in [0 .. e -> PowStates] : Run(e, [acc |-> <<1>>, cap |-> 1, sq |-> d], g, f)
  BY <1>n, <1>1, Recursion DEF Runs
<1>3. \A i \in 1 .. e : f[i - 1] \in PowStates
  BY <1>n
<1>4. f[0] = [acc |-> <<1>>, cap |-> 1, sq |-> d] /\ \A i \in 1 .. e : f[i] = ExpBit(f[i - 1], BitSet(e, i - 1), BitsAbove(e, i - 1))
  BY <1>1, <1>2, <1>3 DEF Run
<1>5. f = Step(f)
  BY <1>4
<1>6. c = Step(c)
  BY <1>5
<1>7. ExpBits(d, e) = c
  BY DEF ExpBits
<1> HIDE DEF c
<1> DEFINE z == Step(c)
<1>8. z[0] = [acc |-> <<1>>, cap |-> 1, sq |-> d] /\ \A i \in 1 .. e : z[i] = ExpBit(c[i - 1], BitSet(e, i - 1), BitsAbove(e, i - 1))
  <2>1. \A i \in 0 .. e : z[i] = IF i = 0 THEN [acc |-> <<1>>, cap |-> 1, sq |-> d] ELSE ExpBit(c[i - 1], BitSet(e, i - 1), BitsAbove(e, i - 1))
    OBVIOUS
  <2> HIDE DEF z
  <2> QED  BY <1>n, <2>1
<1> HIDE DEF z
<1>9. c[0] = [acc |-> <<1>>, cap |-> 1, sq |-> d] /\ \A i \in 1 .. e : c[i] = ExpBit(c[i - 1], BitSet(e, i - 1), BitsAbove(e, i - 1))
  BY <1>6, <1>8 DEF z
<1>10. \A i \in 0 .. e : c[i] \in PowStates
  <2>1. c[0] \in PowStates /\ Follows(e, PowStates, g, c)
    BY <1>n, <1>1, <1>9 DEF Follows
  <2> QED  BY <1>n, <1>1, <2>1, RunTyped
<1> QED  BY <1>7, <1>9, <1>10

LEMMA BinaryExpOf ==
  ASSUME NEW d \in Seq(Limb), NEW e \in Nat
  PROVE  LET p == BinaryExp(d, e)
         IN  p.acc \in Seq(Limb) /\ p.cap \in Nat /\ Len(p.acc) <= p.cap /\ Len(p.acc) \in Nat
<1>1. e \in 0 .. e
  OBVIOUS
<1>2. ExpBits(d, e)[e] \in PowStates
  BY <1>1, ExpBitsOf
<1> DEFINE p == BinaryExp(d, e)
<1>3. p \in PowStates
  BY <1>2 DEF BinaryExp
<1> HIDE DEF p
<1>4. p.acc \in Seq(Limb) /\ p.cap \in Nat /\ Len(p.acc) <= p.cap
  BY <1>3 DEF PowStates
<1> QED  BY <1>4, DigitTyped DEF p

LEMMA PowDoubleTyped ==
  ASSUME NEW b, NEW e
  PROVE  PowDouble(b, e) \subseteq Limb
<1> DEFINE P == UNION {Rounded(Power(r, e)) : r \in Rounded(b)}
<1>1. PowDouble(b, e) = UNION {IF p \in Limb THEN {p} ELSE Limb : p \in P}
  BY Zenon DEF PowDouble
<1> HIDE DEF P
<1>2. ASSUME NEW q \in UNION {IF p \in Limb THEN {p} ELSE Limb : p \in P} PROVE q \in Limb
  <2>1. PICK p \in P : q \in IF p \in Limb THEN {p} ELSE Limb
    BY <1>2, Zenon
  <2> QED  BY <2>1
<1> QED  BY <1>1, <1>2

LEMMA EvenPowSignTyped ==
  ASSUME IInv, MayAccept(x), NEW e
  PROVE  EvenPowSign(e) \in {1, -1}
BY AcceptedNumber DEF EvenPowSign

LEMMA MutPowKept == IInv /\ MutPow => Kept
<1> SUFFICES ASSUME IInv, MutPow PROVE Kept
  OBVIOUS
<1>0. "mut_pow" \notin Computing /\ "mut_pow" # "canonicalize" /\ "mut_pow" # "shrink" /\ "mut_pow" \notin Making
  BY DEF Computing, Making
<1>1. PICK e \in 0 .. MaxExp :
        /\ MayAccept(x)
        /\ \/ Returns("mut_pow", e, Zero, [x EXCEPT !.d = <<1>>, !.sign = 1])
           \/ Returns("mut_pow", e, Zero, x)
           \/ \E p \in PowDouble(x.d[1], e) :
                Returns("mut_pow", e, Zero, [x EXCEPT !.d = <<p>>, !.sign = EvenPowSign(e)])
           \/ MutSqr("mut_pow", e)
           \/ \E how \in {"DNML_ALLOC_OOM", "CRASH"} : Fails("mut_pow", e, Zero, how)
  BY DEF MutPow
<1>2. e \in CallWords /\ x \in Num
  BY <1>1, ExpWord, AcceptedNumber, ZenonT(60)
<1>3. ASSUME NEW p \in Limb, NEW s \in {1, -1}, Returns("mut_pow", e, Zero, [x EXCEPT !.d = <<p>>, !.sign = s])
      PROVE  Kept
  <2>1. <<p>> \in Seq(Limb) /\ Len(<<p>>) <= 1
    BY SMTT(60)
  <2> QED  BY <1>0, <1>2, <1>3, <2>1, InPlaceKept
<1>4. CASE Returns("mut_pow", e, Zero, [x EXCEPT !.d = <<1>>, !.sign = 1])
  <2>1. 1 \in Limb /\ 1 \in {1, -1}
    BY LimbsTyped
  <2> QED  BY <1>3, <1>4, <2>1
<1>5. CASE Returns("mut_pow", e, Zero, x)
  BY <1>0, <1>1, <1>2, <1>5, SameKept, ZenonT(60)
<1>6. ASSUME NEW p \in PowDouble(x.d[1], e),
             Returns("mut_pow", e, Zero, [x EXCEPT !.d = <<p>>, !.sign = EvenPowSign(e)])
      PROVE  Kept
  <2>1. p \in Limb /\ EvenPowSign(e) \in {1, -1}
    BY <1>1, PowDoubleTyped, EvenPowSignTyped
  <2> QED  BY <1>3, <1>6, <2>1
<1>7. CASE MutSqr("mut_pow", e)
  BY <1>1, <1>2, <1>7, MutSqrKept
<1>8. ASSUME NEW how \in {"DNML_ALLOC_OOM", "CRASH"}, Fails("mut_pow", e, Zero, how) PROVE Kept
  <2>1. how # "SUCCESS" /\ how # "OVERRUN"
    BY <1>8
  <2> QED  BY <1>0, <1>2, <1>8, <2>1, FailsKept
<1> QED  BY <1>1, <1>4, <1>5, <1>6, <1>7, <1>8

LEMMA FPowKept == IInv /\ FPow => Kept
<1> SUFFICES ASSUME IInv, FPow PROVE Kept
  OBVIOUS
<1>0. "pow" \notin Computing /\ "pow" # "canonicalize" /\ "pow" # "shrink" /\ "pow" \notin Making
  BY DEF Computing, Making
<1>1. PICK e \in 0 .. MaxExp :
        /\ MayAccept(x)
        /\ \/ FSqr("pow", e)
           \/ OneWord("pow", e, Zero, 1, 1)
           \/ ZeroResult("pow", e, Zero)
           \/ OneWord("pow", e, Zero, 1, EvenPowSign(e))
           \/ \E p \in PowDouble(x.d[1], e) : OneWord("pow", e, Zero, p, EvenPowSign(e))
           \/ Duplicate("pow", e, Zero, x, x.sign)
           \/ Block("pow", e, Zero, BinaryExp(x.d, e).cap, BinaryExp(x.d, e).acc, EvenPowSign(e))
           \/ Fails("pow", e, Zero, "CRASH")
  BY DEF FPow
<1>2. e \in CallWords /\ e \in Nat /\ x.d \in Seq(Limb) /\ x.sign \in {1, -1}
  BY <1>1, ExpWord, AcceptedNumber
<1> DEFINE s == EvenPowSign(e)
<1>3. s \in {1, -1} /\ 1 \in Limb
  BY <1>1, EvenPowSignTyped, LimbsTyped
<1>4. ASSUME NEW p \in Limb, NEW t \in {1, -1}, OneWord("pow", e, Zero, p, t) PROVE Kept
  <2>1. Word(p) \in Seq(Limb) /\ Len(Word(p)) <= Larger(1, 1) /\ 1 \in Nat
    BY WordOf DEF Larger
  <2>2. Block("pow", e, Zero, 1, Word(p), t)
    BY <1>4 DEF OneWord
  <2> QED  BY <1>0, <1>2, <2>1, <2>2, BlockKept
<1>5. CASE FSqr("pow", e)
  BY <1>1, <1>2, <1>5, FSqrKept
<1>6. CASE ZeroResult("pow", e, Zero)
  BY <1>0, <1>2, <1>6, ZeroKept
<1>7. CASE OneWord("pow", e, Zero, 1, 1)
  BY <1>3, <1>4, <1>7
<1>8. CASE OneWord("pow", e, Zero, 1, s)
  <2> HIDE DEF s
  <2> QED  BY <1>3, <1>4, <1>8
<1>9. ASSUME NEW p \in PowDouble(x.d[1], e), OneWord("pow", e, Zero, p, s) PROVE Kept
  <2> HIDE DEF s
  <2>1. p \in Limb
    BY PowDoubleTyped
  <2> QED  BY <1>3, <1>4, <1>9, <2>1
<1>10. CASE Duplicate("pow", e, Zero, x, x.sign)
  BY <1>0, <1>2, <1>10, DuplicateKept
<1>11. CASE Block("pow", e, Zero, BinaryExp(x.d, e).cap, BinaryExp(x.d, e).acc, s)
  <2> DEFINE b == BinaryExp(x.d, e)
             c == b.cap
             a == b.acc
  <2>1. a \in Seq(Limb) /\ c \in Nat /\ Len(a) <= c /\ Len(a) \in Nat
    BY <1>2, BinaryExpOf
  <2>2. Block("pow", e, Zero, c, a, s)
    BY <1>11
  <2> HIDE DEF a, c, s
  <2>3. Len(a) <= Larger(1, c)
    BY <2>1 DEF Larger
  <2> QED  BY <1>0, <1>2, <1>3, <2>1, <2>2, <2>3, BlockKept
<1>12. CASE Fails("pow", e, Zero, "CRASH")
  BY <1>2, <1>12, FailsKept
<1> QED  BY <1>1, <1>5, <1>6, <1>7, <1>8, <1>9, <1>10, <1>11, <1>12

-----------------------------------------------------------------------------
(* Powers: what the loops over the exponent and the doubles come to *)

LEMMA PowersOf ==
  ASSUME NEW S, S \in {Nat, Int}, NEW v \in S, NEW k \in Nat
  PROVE  /\ Powers(v, k)[0] = 1 /\ \A i \in 0 .. k : Powers(v, k)[i] \in S
         /\ \A i \in 1 .. k : Powers(v, k)[i] = v * Powers(v, k)[i - 1]
<1> DEFINE Step(r) == [i \in 0 .. k |-> IF i = 0 THEN 1 ELSE v * r[i - 1]]
           c == CHOOSE r : r = Step(r)
           g == [i \in 1 .. k |-> [s \in S |-> v * s]]
<1>n. 1 \in S
  OBVIOUS
<1>0. ASSUME NEW i \in 1 .. k, NEW s \in S PROVE v * s \in S
  OBVIOUS
<1>1. Fits(k, S, g) /\ \A i \in 1 .. k : \A s \in S : g[i][s] = v * s
  BY <1>0 DEF Fits
<1> HIDE DEF g
<1>2. PICK f \in [0 .. k -> S] : Run(k, 1, g, f)
  BY <1>n, <1>1, Recursion DEF Runs
<1>3. \A i \in 1 .. k : f[i - 1] \in S
  BY <1>n
<1>4. f[0] = 1 /\ \A i \in 1 .. k : f[i] = v * f[i - 1]
  BY <1>1, <1>2, <1>3 DEF Run
<1>5. f = Step(f)
  BY <1>4
<1>6. c = Step(c)
  BY <1>5
<1>7. Powers(v, k) = c
  BY DEF Powers
<1> HIDE DEF c
<1> DEFINE e == Step(c)
<1>8. e[0] = 1 /\ \A i \in 1 .. k : e[i] = v * c[i - 1]
  <2>1. \A i \in 0 .. k : e[i] = IF i = 0 THEN 1 ELSE v * c[i - 1]
    OBVIOUS
  <2> HIDE DEF e
  <2> QED  BY <1>n, <2>1
<1> HIDE DEF e
<1>9. c[0] = 1 /\ \A i \in 1 .. k : c[i] = v * c[i - 1]
  BY <1>6, <1>8 DEF e
<1>10. \A i \in 0 .. k : c[i] \in S
  <2>1. c[0] \in S /\ Follows(k, S, g, c)
    BY <1>n, <1>1, <1>9 DEF Follows
  <2> QED  BY <1>n, <1>1, <2>1, RunTyped
<1> QED  BY <1>7, <1>9, <1>10

\* A power, by one factor more.
LEMMA PowerOf ==
  ASSUME NEW S, S \in {Nat, Int}, NEW v \in S
  PROVE  /\ Power(v, 0) = 1
         /\ \A k \in Nat : Power(v, k) \in S /\ Power(v, k + 1) = v * Power(v, k)
<1>1. Power(v, 0) = 1
  <2> DEFINE r == Powers(v, 0)
  <2>1. 0 \in Nat
    OBVIOUS
  <2>2. r[0] = 1 /\ (\A i \in 0 .. 0 : r[i] \in S) /\ \A i \in 1 .. 0 : r[i] = v * r[i - 1]
    BY <2>1, PowersOf
  <2> HIDE DEF r
  <2>3. r[0] = 1
    BY <2>2
  <2> QED  BY <2>3 DEF Power, r
<1>2. ASSUME NEW k \in Nat PROVE Power(v, k) \in S /\ Power(v, k + 1) = v * Power(v, k)
  <2> DEFINE r == Powers(v, k)
             s == Powers(v, k + 1)
             Q == {i \in 0 .. k : r[i] = s[i]}
  <2>1. r[0] = 1 /\ (\A i \in 0 .. k : r[i] \in S) /\ \A i \in 1 .. k : r[i] = v * r[i - 1]
    BY PowersOf
  <2>2. s[0] = 1 /\ \A i \in 1 .. k + 1 : s[i] = v * s[i - 1]
    <3>1. k + 1 \in Nat
      OBVIOUS
    <3> QED  BY <3>1, PowersOf
  <2>3. Power(v, k) = r[k] /\ Power(v, k + 1) = s[k + 1]
    BY DEF Power
  <2> HIDE DEF r, s
  <2>4. 0 \in Q
    BY <2>1, <2>2
  <2>5. \A i \in 1 .. k : i - 1 \in Q => i \in Q
    <3>1. ASSUME NEW i \in 1 .. k, i - 1 \in Q PROVE i \in Q
      <4>1. r[i - 1] = s[i - 1] /\ i \in 0 .. k /\ i \in 1 .. k + 1
        BY <3>1
      <4>2. r[i] = v * r[i - 1] /\ s[i] = v * s[i - 1]
        BY <2>1, <2>2, <4>1
      <4> QED  BY <4>1, <4>2
    <3> QED  BY <3>1
  <2> HIDE DEF Q
  <2>6. k \in Q
    <3>1. \A i \in 0 .. k : i \in Q
      BY <2>4, <2>5, SetInduction
    <3> QED  BY <3>1
  <2>7. s[k + 1] = v * s[k]
    <3>1. k + 1 \in 1 .. k + 1 /\ (k + 1) - 1 = k
      OBVIOUS
    <3> QED  BY <2>2, <3>1
  <2>8. r[k] = s[k] /\ r[k] \in S
    BY <2>1, <2>6 DEF Q
  <2> QED  BY <2>3, <2>7, <2>8
<1> QED  BY <1>1, <1>2

LEMMA PowerStep ==
  ASSUME NEW v \in Int, NEW k \in Nat
  PROVE  /\ Power(v, 0) = 1 /\ Power(v, k) \in Int /\ Power(v, k + 1) = v * Power(v, k)
         /\ v \in Nat => Power(v, k) \in Nat
<1>1. Int \in {Nat, Int} /\ Nat \in {Nat, Int}
  OBVIOUS
<1> QED  BY <1>1, PowerOf

\* The first powers; those of zero; and a power is no less than its base.
LEMMA SmallPowers ==
  ASSUME NEW v \in Int
  PROVE  Power(v, 0) = 1 /\ Power(v, 1) = v /\ Power(v, 2) = v * v
<1>1. Power(v, 0) = 1 /\ Power(v, 0 + 1) = v * Power(v, 0) /\ Power(v, 1 + 1) = v * Power(v, 1)
  BY PowerStep
<1>2. 0 + 1 = 1 /\ 1 + 1 = 2 /\ v * 1 = v
  OBVIOUS
<1> QED  BY <1>1, <1>2

LEMMA OnePower ==
  ASSUME NEW e \in Nat
  PROVE  Power(1, e) = 1
<1> DEFINE Q == {i \in 0 .. e : Power(1, i) = 1}
<1>1. 1 \in Int /\ \A k \in Nat : Power(1, 0) = 1 /\ Power(1, k + 1) = 1 * Power(1, k)
  BY PowerStep
<1>2. 0 \in Q
  BY <1>1
<1>3. ASSUME NEW i \in 1 .. e, i - 1 \in Q PROVE i \in Q
  <2> DEFINE j == i - 1
  <2>1. j \in Nat /\ j + 1 = i /\ i \in 0 .. e /\ Power(1, j) = 1
    BY <1>3
  <2> HIDE DEF j
  <2>2. Power(1, j + 1) = 1 * Power(1, j)
    BY <1>1, <2>1
  <2> QED  BY <2>1, <2>2
<1> HIDE DEF Q
<1>4. \A i \in 0 .. e : i \in Q
  BY <1>2, <1>3, SetInduction
<1> QED  BY <1>4 DEF Q

LEMMA PowerNoLess ==
  ASSUME NEW v \in Nat, NEW e \in Nat \ {0}
  PROVE  Power(v, e) \in Nat /\ v <= Power(v, e) /\ (v = 0 => Power(v, e) = 0)
<1>0. e - 1 \in Nat /\ (e - 1) + 1 = e
  OBVIOUS
<1>1. Power(v, e) = v * Power(v, e - 1) /\ Power(v, e - 1) \in Nat
  <2>1. Power(v, (e - 1) + 1) = v * Power(v, e - 1) /\ Power(v, e - 1) \in Nat
    BY <1>0, PowerStep
  <2> QED  BY <1>0, <2>1
<1>2. CASE v = 0
  BY <1>1, <1>2
<1>3. CASE v # 0
  <2> DEFINE P == {i \in 0 .. e - 1 : Power(v, i) >= 1}
  <2>1. 0 \in P
    BY <1>0, PowerStep
  <2>2. ASSUME NEW i \in 1 .. e - 1, i - 1 \in P PROVE i \in P
    <3>1. i - 1 \in Nat /\ (i - 1) + 1 = i /\ i \in 0 .. e - 1
      OBVIOUS
    <3>2. Power(v, (i - 1) + 1) = v * Power(v, i - 1) /\ Power(v, i - 1) \in Nat
      BY <3>1, PowerStep
    <3>3. Power(v, i - 1) >= 1
      BY <2>2
    <3>4. v * 1 <= v * Power(v, i - 1)
      BY <3>2, <3>3, Products
    <3>5. Power(v, i) >= 1
      BY <1>3, <3>1, <3>2, <3>4
    <3> QED  BY <3>1, <3>5
  <2> HIDE DEF P
  <2>3. \A i \in 0 .. e - 1 : i \in P
    BY <1>0, <2>1, <2>2, SetInduction
  <2>4. Power(v, e - 1) >= 1
    BY <1>0, <2>3 DEF P
  <2>5. v * 1 <= v * Power(v, e - 1) /\ v * Power(v, e - 1) \in Nat
    BY <1>1, <2>4, Products
  <2> QED  BY <1>1, <1>3, <2>5
<1> QED  BY <1>2, <1>3

\* An even power is one of the square.
LEMMA PowerOfSquare ==
  ASSUME NEW s \in Nat, NEW q \in Nat
  PROVE  Power(s, 2 * q) = Power(s * s, q)
<1> DEFINE Q == {i \in 0 .. q : Power(s, 2 * i) = Power(s * s, i)}
<1>0. s * s \in Nat
  OBVIOUS
<1>1. 0 \in Q
  <2>1. 2 * 0 = 0
    OBVIOUS
  <2> QED  BY <1>0, <2>1, PowerStep
<1>2. ASSUME NEW i \in 1 .. q, i - 1 \in Q PROVE i \in Q
  <2> DEFINE j == i - 1
  <2>1. j \in Nat /\ j + 1 = i /\ 2 * j \in Nat /\ 2 * j + 1 \in Nat /\ (2 * j + 1) + 1 = 2 * i
    OBVIOUS
  <2>2. Power(s, 2 * j) = Power(s * s, j)
    BY <1>2
  <2> HIDE DEF j
  <2>3. Power(s, 2 * j + 1) = s * Power(s, 2 * j) /\ Power(s, (2 * j + 1) + 1) = s * Power(s, 2 * j + 1)
        /\ Power(s, 2 * j) \in Nat
    BY <2>1, PowerStep
  <2>4. Power(s * s, j + 1) = (s * s) * Power(s * s, j)
    BY <1>0, <2>1, PowerStep
  <2> DEFINE p == Power(s, 2 * j)
  <2>5. Power(s, 2 * i) = s * (s * p) /\ Power(s * s, i) = (s * s) * p /\ p \in Nat
    BY <2>1, <2>2, <2>3, <2>4
  <2> HIDE DEF p
  <2>6. s * (s * p) = (s * s) * p
    BY <2>5
  <2> QED  BY <2>5, <2>6
<1> HIDE DEF Q
<1>3. \A i \in 0 .. q : i \in Q
  BY <1>1, <1>2, SetInduction
<1>4. q \in Q
  BY <1>3
<1> QED  BY <1>4 DEF Q

\* The sign of a power.
LEMMA PowerSigned ==
  ASSUME NEW s \in {1, -1}, NEW m \in Nat, NEW e \in Nat
  PROVE  Power(s * m, e) = (IF e % 2 = 0 THEN 1 ELSE s) * Power(m, e)
<1> DEFINE g(i) == IF i % 2 = 0 THEN 1 ELSE s
           Q == {i \in 0 .. e : Power(s * m, i) = g(i) * Power(m, i)}
<1>0. s * m \in Int
  OBVIOUS
<1>1. 0 \in Q
  <2>1. g(0) = 1
    OBVIOUS
  <2>2. Power(s * m, 0) = 1 /\ Power(m, 0) = 1
    BY <1>0, PowerStep
  <2> QED  BY <2>1, <2>2
<1>2. ASSUME NEW i \in 1 .. e, i - 1 \in Q PROVE i \in Q
  <2> DEFINE j == i - 1
             p == Power(m, j)
  <2>1. j \in Nat /\ j + 1 = i
    OBVIOUS
  <2>2. Power(s * m, j) = g(j) * p
    BY <1>2
  <2>3. g(j) \in {1, -1} /\ g(i) = s * g(j)
    <3>1. \/ i % 2 = 0 /\ j % 2 = 1
          \/ i % 2 = 1 /\ j % 2 = 0
      OBVIOUS
    <3> HIDE DEF j
    <3> QED  BY <3>1
  <2> HIDE DEF j, g
  <2>4. Power(s * m, j + 1) = (s * m) * Power(s * m, j) /\ Power(m, j + 1) = m * p /\ p \in Nat
    BY <1>0, <2>1, PowerStep
  <2> HIDE DEF p
  <2>5. (s * m) * (g(j) * p) = (s * g(j)) * (m * p)
    <3>1. m * p \in Nat
      BY <2>4
    <3>2. CASE s = 1 /\ g(j) = 1
      BY <2>4, <3>1, <3>2
    <3>3. CASE s = 1 /\ g(j) = -1
      BY <2>4, <3>1, <3>3
    <3>4. CASE s = -1 /\ g(j) = 1
      BY <2>4, <3>1, <3>4
    <3>5. CASE s = -1 /\ g(j) = -1
      BY <2>4, <3>1, <3>5
    <3> QED  BY <2>3, <3>2, <3>3, <3>4, <3>5
  <2>6. Power(s * m, i) = g(i) * Power(m, i)
    BY <2>1, <2>2, <2>3, <2>4, <2>5
  <2> QED  BY <2>6
<1> HIDE DEF Q
<1>3. \A i \in 0 .. e : i \in Q
  BY <1>1, <1>2, SetInduction
<1>4. e \in Q
  BY <1>3
<1> QED  BY <1>4 DEF Q

\* The two limbs of the square of one.
LEMMA SquareOfValue ==
  ASSUME NEW l \in Limb
  PROVE  Magnitude(SquareOf(l)) = l * l
<1> DEFINE t == l * l
           q == t \div Radix
           r == t % Radix
           s == <<r, q>>
<1>1. l \in Nat /\ Radix \in Nat \ {0} /\ 0 \in Limb
  BY LimbsTyped, ByteRangeDivides
<1>2. t = 0 + l * l + 0 /\ t \in Nat
  BY <1>1
<1>3. q \in Limb /\ r \in Limb /\ t = Radix * q + r /\ q \in Nat /\ r \in Nat
  <2>1. t % Radix \in Limb /\ t \div Radix \in Limb /\ t = Radix * (t \div Radix) + (t % Radix)
    BY <1>1, <1>2, DoubleLimb
  <2> QED  BY <2>1, LimbsTyped
<1>4. SquareOf(l) = s
  BY DEF SquareOf, t
<1> HIDE DEF q, r, t
<1>5. s \in Seq(Limb) /\ Len(s) = 2 /\ DOMAIN s = 1 .. 2 /\ s[1] = r /\ s[2] = q
  BY <1>3
<1> HIDE DEF s
<1>6. LimbAt(s, 1) = r /\ LimbAt(s, 2) = q
  BY <1>5 DEF LimbAt
<1>7. From(s, 3) = 0
  <2>1. 3 \in Nat \ {0} /\ 3 > Len(s)
    BY <1>5
  <2> QED  BY <1>5, <2>1, FromOf
<1>8. From(s, 2) = q
  <2>1. 2 \in Nat \ {0} /\ 2 + 1 = 3
    OBVIOUS
  <2>2. From(s, 2) = LimbAt(s, 2) + Radix * From(s, 3)
    BY <1>5, <2>1, FromOf
  <2> QED  BY <1>1, <1>3, <1>6, <1>7, <2>2
<1>9. From(s, 1) = r + Radix * q
  <2>1. 1 \in Nat \ {0} /\ 1 + 1 = 2
    OBVIOUS
  <2>2. From(s, 1) = LimbAt(s, 1) + Radix * From(s, 2)
    BY <1>5, <2>1, FromOf
  <2> QED  BY <1>6, <1>8, <2>2
<1>10. Magnitude(s) = r + Radix * q
  BY <1>5, <1>9, FromOf
<1>11. r + Radix * q = t
  <2> DEFINE u == Radix * q
  <2>1. u \in Nat /\ t = u + r
    BY <1>1, <1>3
  <2> HIDE DEF u
  <2>2. r + u = t
    BY <1>3, <2>1
  <2> QED  BY <2>2 DEF u
<1> QED  BY <1>4, <1>10, <1>11 DEF t

-----------------------------------------------------------------------------
(* Powers of doubles *)


\* A number of no more than MantissaBits bits is a double, and stays what it is.
LEMMA RoundedExact ==
  ASSUME NEW v \in Nat, v <= TwoTo(MantissaBits)
  PROVE  Rounded(v) = {v}
<1> DEFINE P == TwoTo(MantissaBits)
<1>1. P \in Nat /\ \E q \in Nat : P = 2 * q
  <2>1. MantissaBits \in Nat /\ MantissaBits - 1 \in Nat /\ (MantissaBits - 1) + 1 = MantissaBits
    BY FuncAssumption
  <2>2. TwoTo((MantissaBits - 1) + 1) = 2 * TwoTo(MantissaBits - 1) /\ TwoTo(MantissaBits - 1) \in Nat
    BY <2>1, TwoToOf
  <2> QED  BY <2>1, <2>2
<1>2. IsDouble(v)
  <2>1. CASE v = 0
    BY <2>1 DEF IsDouble
  <2>2. CASE v # 0
    <3>1. OddPart(v) \in 1 .. v /\ OddPart(v) % 2 = 1
      BY <2>2, OddPartOf
    <3>2. PICK q \in Nat : P = 2 * q
      BY <1>1
    <3> DEFINE o == OddPart(v)
    <3>3. o \in 1 .. v /\ o % 2 = 1 /\ v <= P
      BY <3>1
    <3> HIDE DEF o, P
    <3>4. o < P
      BY <1>1, <3>2, <3>3
    <3> QED  BY <3>4 DEF o, P, IsDouble
  <2> QED  BY <2>1, <2>2
<1>3. v \in 0 .. 2 * v /\ v \in v .. v
  OBVIOUS
<1>4. ASSUME NEW a \in Rounded(v) PROVE a = v
  <2>1. a \in 0 .. 2 * v /\ \A b \in 0 .. 2 * v : IsDouble(b) /\ (b \in a .. v \/ b \in v .. a) => b = a
    BY <1>4 DEF Rounded
  <2>2. v \in a .. v \/ v \in v .. a
    BY <2>1
  <2> QED  BY <1>2, <1>3, <2>1, <2>2
<1>5. v \in Rounded(v)
  <2>1. ASSUME NEW b \in 0 .. 2 * v, b \in v .. v PROVE b = v
    BY <2>1
  <2> QED  BY <1>2, <1>3, <2>1 DEF Rounded
<1> QED  BY <1>4, <1>5

\* pow() of a base and a result that doubles hold is exact.
LEMMA PowDoubleExact ==
  ASSUME NEW b \in Nat, NEW e \in Nat \ {0}, Power(b, e) <= TwoTo(MantissaBits), Power(b, e) \in Limb
  PROVE  PowDouble(b, e) = {Power(b, e)}
<1> DEFINE q == Power(b, e)
           m == TwoTo(MantissaBits)
<1>1. q \in Nat /\ b <= q /\ m \in Nat
  BY PowerNoLess, TwoToOf, FuncAssumption
<1>2. b <= m
  <2> HIDE DEF q, m
  <2>1. q <= m
    BY DEF q, m
  <2> QED  BY <1>1, <2>1
<1>3. Rounded(b) = {b} /\ Rounded(q) = {q}
  BY <1>1, <1>2, RoundedExact
<1>4. UNION {Rounded(Power(r, e)) : r \in Rounded(b)} = {q}
  BY <1>3
<1>5. PowDouble(b, e) = UNION {IF p \in Limb THEN {p} ELSE Limb : p \in {q}}
  BY <1>4, Zenon DEF PowDouble
<1>6. q \in Limb
  OBVIOUS
<1> HIDE DEF q
<1> QED  BY <1>5, <1>6 DEF q

-----------------------------------------------------------------------------
(* The powers that squaring makes *)

\* What is left of an exponent above its j lowest bits.
LEMMA ExponentBits ==
  ASSUME NEW e \in Nat, NEW j \in Nat
  PROVE  LET q == e \div TwoTo(j)
             r == e \div TwoTo(j + 1)
         IN  /\ q \in Nat /\ r \in Nat /\ (BitSet(e, j) <=> q = 2 * r + 1) /\ (~ BitSet(e, j) <=> q = 2 * r)
             /\ (BitsAbove(e, j) <=> r # 0)
<1> DEFINE q == e \div TwoTo(j)
           t == TwoTo(j)
           r == q \div 2
<1>1. t \in Nat \ {0} /\ TwoTo(j + 1) = t * 2 /\ t * 2 \in Nat \ {0}
  <2>1. t \in Nat \ {0} /\ TwoTo(j + 1) = 2 * t
    BY TwoToGrows, TwoToOf
  <2> QED  BY <2>1
<1>2. e \div (t * 2) = r
  BY <1>1, DivisionTwice DEF r
<1>3. q \in Nat /\ r \in Nat /\ q % 2 \in 0 .. 1 /\ q = 2 * r + (q % 2)
  <2>1. q \in Nat
    BY <1>1, Division
  <2> HIDE DEF q
  <2> QED  BY <2>1
<1>4. BitSet(e, j) <=> q % 2 = 1
  BY DEF BitSet
<1>5. BitsAbove(e, j) <=> t * 2 <= e
  BY <1>1 DEF BitsAbove
<1>6. t * 2 <= e <=> r # 0
  <2> DEFINE m == t * 2
  <2>1. m \in Nat \ {0} /\ e \div m = r
    BY <1>1, <1>2
  <2> HIDE DEF m, r
  <2>2. e % m \in 0 .. m - 1 /\ e = m * r + (e % m)
    BY <2>1, Division
  <2>3. CASE r = 0
    <3>1. m * r = 0
      BY <2>1, <2>3
    <3>2. e < m
      BY <2>1, <2>2, <3>1
    <3> QED  BY <2>1, <2>3, <3>2 DEF m
  <2>4. CASE r # 0
    <3>1. m * 1 <= m * r /\ m * r \in Nat
      BY <1>3, <2>1, <2>4, Products
    <3> DEFINE n == m * r
    <3>2. m <= n /\ n \in Nat /\ e = n + (e % m)
      BY <2>1, <2>2, <3>1
    <3> HIDE DEF n
    <3> QED  BY <2>1, <2>2, <2>4, <3>2 DEF m
  <2> QED  BY <2>3, <2>4 DEF m
<1> HIDE DEF q, r, t
<1>7. e \div TwoTo(j + 1) = r
  BY <1>1, <1>2
<1>8. /\ q \in Nat /\ r \in Nat /\ (BitSet(e, j) <=> q = 2 * r + 1) /\ (~ BitSet(e, j) <=> q = 2 * r)
      /\ (BitsAbove(e, j) <=> r # 0)
  BY <1>3, <1>4, <1>5, <1>6
<1> QED  BY <1>7, <1>8 DEF q

\* A bit more: the product times the power of the square that is still due is the same.
LEMMA ExpBitValue ==
  ASSUME NEW p \in PowStates, NEW set \in BOOLEAN, NEW q \in Nat, NEW r \in Nat,
         set => q = 2 * r + 1, ~ set => q = 2 * r
  PROVE  LET n == ExpBit(p, set, r # 0)
         IN  Magnitude(n.acc) * Power(Magnitude(n.sq), r) = Magnitude(p.acc) * Power(Magnitude(p.sq), q)
<1> DEFINE n == ExpBit(p, set, r # 0)
           a == Magnitude(p.acc)
           s == Magnitude(p.sq)
           k == Power(s * s, r)
<1>1. p.acc \in Seq(Limb) /\ p.sq \in Seq(Limb)
  BY DEF PowStates
<1>2. a \in Nat /\ s \in Nat
  BY <1>1, MagnitudeBelow
<1>3. /\ Magnitude(n.acc) = IF set THEN a * s ELSE a
      /\ Magnitude(n.sq) = IF r # 0 THEN s * s ELSE s
  BY <1>1, SchoolbookOf DEF ExpBit
<1> HIDE DEF n, a, s
<1>4. Power(Magnitude(n.sq), r) = k
  <2>1. CASE r # 0
    BY <1>3, <2>1
  <2>2. CASE r = 0
    BY <1>2, <1>3, <2>2, PowerStep
  <2> QED  BY <2>1, <2>2
<1>5. Power(s, 2 * r) = k /\ Power(s, 2 * r + 1) = s * k /\ k \in Nat
  <2>1. 2 * r \in Nat /\ s * s \in Nat
    BY <1>2
  <2> QED  BY <1>2, <2>1, PowerOfSquare, PowerStep
<1> HIDE DEF k
<1>6. CASE set
  <2>1. (a * s) * k = a * (s * k)
    BY <1>2, <1>5
  <2> QED  BY <1>3, <1>4, <1>5, <1>6, <2>1 DEF n, a, s
<1>7. CASE ~ set
  BY <1>3, <1>4, <1>5, <1>7 DEF n, a, s
<1> QED  BY <1>6, <1>7

\* A power by squaring is the power.
LEMMA BinaryExpValue ==
  ASSUME NEW d \in Seq(Limb), NEW e \in Nat
  PROVE  Magnitude(BinaryExp(d, e).acc) = Power(Magnitude(d), e)
<1> DEFINE b == ExpBits(d, e)
           M == Magnitude(d)
           due(i) == Magnitude(b[i].acc) * Power(Magnitude(b[i].sq), e \div TwoTo(i))
           Q == {i \in 0 .. e : due(i) = Power(M, e)}
<1>1. /\ b[0] = [acc |-> <<1>>, cap |-> 1, sq |-> d] /\ \A i \in 0 .. e : b[i] \in PowStates
      /\ \A i \in 1 .. e : b[i] = ExpBit(b[i - 1], BitSet(e, i - 1), BitsAbove(e, i - 1))
  BY ExpBitsOf
<1> HIDE DEF b
<1>2. M \in Nat /\ Power(M, e) \in Nat
  <2>1. M \in Nat /\ M \in Int
    BY MagnitudeBelow
  <2> QED  BY <2>1, PowerStep
<1>3. 0 \in Q
  <2>1. Magnitude(b[0].acc) = 1 /\ Magnitude(b[0].sq) = M
    BY <1>1, LimbsTyped, WordValue
  <2>2. e \div TwoTo(0) = e
    BY TwoToOf
  <2>3. due(0) = Power(M, e)
    BY <1>2, <2>1, <2>2
  <2> HIDE DEF due
  <2> QED  BY <2>3
<1>4. ASSUME NEW i \in 1 .. e, i - 1 \in Q PROVE i \in Q
  <2> DEFINE j == i - 1
             q == e \div TwoTo(j)
             r == e \div TwoTo(j + 1)
             set == BitSet(e, j)
  <2>1. j \in Nat /\ j + 1 = i /\ i \in 0 .. e /\ j \in 0 .. e
    OBVIOUS
  <2>2. b[i] = ExpBit(b[j], set, BitsAbove(e, j)) /\ b[j] \in PowStates
    BY <1>1, <2>1
  <2>3. due(j) = Power(M, e)
    BY <1>4
  <2> HIDE DEF j
  <2>4. q \in Nat /\ r \in Nat /\ (set <=> q = 2 * r + 1) /\ (~ set <=> q = 2 * r) /\ (BitsAbove(e, j) <=> r # 0)
    BY <2>1, ExponentBits
  <2>5. set \in BOOLEAN /\ BitsAbove(e, j) = (r # 0)
    BY <2>4 DEF BitSet, BitsAbove
  <2>6. due(j) = Magnitude(b[j].acc) * Power(Magnitude(b[j].sq), q)
    OBVIOUS
  <2>7. due(i) = Magnitude(b[i].acc) * Power(Magnitude(b[i].sq), r)
    BY <2>1
  <2> HIDE DEF q, r, set, due
  <2>8. b[i] = ExpBit(b[j], set, r # 0)
    BY <2>2, <2>5
  <2>9. due(i) = due(j)
    BY <2>2, <2>4, <2>5, <2>6, <2>7, <2>8, ExpBitValue
  <2> QED  BY <2>1, <2>3, <2>9
<1> HIDE DEF Q
<1>5. \A i \in 0 .. e : i \in Q
  BY <1>3, <1>4, SetInduction
<1>6. e \in Q /\ e \in 0 .. e
  BY <1>5
<1>7. due(e) = Power(M, e)
  BY <1>6 DEF Q
<1>8. e \div TwoTo(e) = 0
  <2>1. TwoTo(e) \in Nat \ {0} /\ e < TwoTo(e)
    BY TwoToGrows
  <2> QED  BY <2>1
<1>9. Power(Magnitude(b[e].sq), e \div TwoTo(e)) = 1 /\ Magnitude(b[e].acc) \in Nat
  <2>1. b[e].acc \in Seq(Limb) /\ b[e].sq \in Seq(Limb)
    BY <1>1, <1>6 DEF PowStates
  <2>2. Magnitude(b[e].acc) \in Nat /\ Magnitude(b[e].sq) \in Nat
    BY <2>1, MagnitudeBelow
  <2> QED  BY <1>8, <2>2, PowerStep
<1>10. Magnitude(b[e].acc) = Power(M, e)
  BY <1>7, <1>9
<1> QED  BY <1>10 DEF BinaryExp, b

-----------------------------------------------------------------------------
(* Divisors: what the binary gcd comes to *)

Divides(f, a) == \E k \in Nat : a = f * k

LEMMA DividesRemainder ==
  ASSUME NEW f \in Nat \ {0}, NEW a \in Nat
  PROVE  a % f = 0 <=> Divides(f, a)
<1>1. ASSUME a % f = 0 PROVE Divides(f, a)
  <2>1. a \div f \in Nat /\ a = f * (a \div f) + 0
    BY <1>1, Division
  <2> QED  BY <2>1 DEF Divides
<1>2. ASSUME Divides(f, a) PROVE a % f = 0
  <2>1. PICK k \in Nat : a = f * k
    BY <1>2 DEF Divides
  <2>2. a = f * k + 0 /\ 0 \in 0 .. f - 1
    BY <2>1
  <2> QED  BY <2>2, QuotientOf
<1> QED  BY <1>1, <1>2

LEMMA DividesSum ==
  ASSUME NEW f \in Nat, NEW a \in Nat, NEW b \in Nat, Divides(f, a), Divides(f, b)
  PROVE  Divides(f, a + b) /\ (b <= a => Divides(f, a - b))
<1>1. PICK k \in Nat, l \in Nat : a = f * k /\ b = f * l
  BY DEF Divides
<1>2. a + b = f * (k + l) /\ k + l \in Nat
  BY <1>1
<1>3. ASSUME b <= a PROVE Divides(f, a - b)
  <2>1. CASE l <= k
    <3>1. a - b = f * (k - l) /\ k - l \in Nat
      BY <1>1, <2>1
    <3> QED  BY <3>1 DEF Divides
  <2>2. CASE k <= l
    <3>1. f * k <= f * l
      BY <2>2, Products
    <3>2. a - b = 0 /\ f * 0 = 0
      BY <1>1, <1>3, <3>1
    <3> QED  BY <3>2 DEF Divides
  <2> QED  BY <2>1, <2>2
<1> QED  BY <1>2, <1>3 DEF Divides

LEMMA DividesProduct ==
  ASSUME NEW f \in Nat, NEW g \in Nat, NEW a \in Nat, NEW b \in Nat, Divides(f, a), Divides(g, b)
  PROVE  Divides(f * g, a * b)
<1>1. PICK k \in Nat, l \in Nat : a = f * k /\ b = g * l
  BY DEF Divides
<1>2. (f * k) * (g * l) = (f * g) * (k * l) /\ k * l \in Nat
  <2>1. f * k \in Nat /\ g * l \in Nat /\ k * l \in Nat /\ f * g \in Nat
    OBVIOUS
  <2>2. (f * k) * (g * l) = ((f * k) * g) * l
    BY <2>1
  <2>3. (f * k) * g = (f * g) * k
    OBVIOUS
  <2>4. ((f * g) * k) * l = (f * g) * (k * l)
    BY <2>1
  <2> QED  BY <2>1, <2>2, <2>3, <2>4
<1> QED  BY <1>1, <1>2 DEF Divides

LEMMA DividesOnward ==
  ASSUME NEW f \in Nat, NEW a \in Nat, NEW b \in Nat, Divides(f, a), Divides(a, b)
  PROVE  Divides(f, b)
<1>1. PICK k \in Nat, l \in Nat : a = f * k /\ b = a * l
  BY DEF Divides
<1>2. (f * k) * l = f * (k * l) /\ k * l \in Nat
  OBVIOUS
<1> QED  BY <1>1, <1>2 DEF Divides

LEMMA DividesFactor ==
  ASSUME NEW a \in Nat, NEW b \in Nat
  PROVE  Divides(a, a * b) /\ Divides(b, a * b) /\ Divides(a, a)
<1>1. a * b = b * a /\ a = a * 1
  OBVIOUS
<1> QED  BY <1>1 DEF Divides

LEMMA DividesBelow ==
  ASSUME NEW f \in Nat, NEW a \in Nat \ {0}, Divides(f, a)
  PROVE  f \in 1 .. a
<1>1. PICK k \in Nat : a = f * k
  BY DEF Divides
<1>2. k # 0 /\ f # 0
  BY <1>1
<1>3. f * 1 <= f * k
  BY <1>2, Products
<1> QED  BY <1>1, <1>2, <1>3

\* What an odd number divides it divides without the powers of two.
LEMMA OddDividesHalf ==
  ASSUME NEW f \in Nat, f % 2 = 1, NEW m \in Nat, Divides(f, 2 * m)
  PROVE  Divides(f, m)
<1>1. PICK k \in Nat : 2 * m = f * k
  BY DEF Divides
<1>2. PICK j \in Nat : f = 2 * j + 1
  <2>1. f = 2 * (f \div 2) + 1 /\ f \div 2 \in Nat
    OBVIOUS
  <2> QED  BY <2>1
<1>3. f * k = 2 * (j * k) + k /\ j * k \in Nat
  BY <1>2
<1> DEFINE p == j * k
<1>4. 2 * m = 2 * p + k /\ p \in Nat
  BY <1>1, <1>3
<1> HIDE DEF p
<1>5. k = 2 * (m - p) /\ m - p \in Nat
  BY <1>4
<1> DEFINE h == m - p
<1>6. h \in Nat /\ k = 2 * h
  BY <1>5
<1> HIDE DEF h
<1>7. f * k = 2 * (f * h) /\ f * h \in Nat
  BY <1>6
<1> DEFINE g == f * h
<1>8. 2 * m = 2 * g /\ g \in Nat
  BY <1>1, <1>7
<1>9. m = g
  <2> HIDE DEF g
  <2> QED  BY <1>8
<1> QED  BY <1>6, <1>9 DEF Divides

LEMMA OddDivides ==
  ASSUME NEW f \in Nat, f % 2 = 1, NEW m \in Nat, NEW k \in Nat, Divides(f, m * TwoTo(k))
  PROVE  Divides(f, m)
<1> DEFINE Q == {i \in 0 .. k : Divides(f, m * TwoTo(k - i))}
<1>1. 0 \in Q
  BY SMTT(30)
<1>2. ASSUME NEW i \in 1 .. k, i - 1 \in Q PROVE i \in Q
  <2> DEFINE j == k - i
             t == TwoTo(j)
  <2>1. j \in Nat /\ k - (i - 1) = j + 1
    OBVIOUS
  <2>2. Divides(f, m * TwoTo(k - (i - 1)))
    BY <1>2
  <2>3. t \in Nat /\ TwoTo(j + 1) = 2 * t
    BY <2>1, TwoToOf
  <2>4. Divides(f, m * (2 * t))
    BY <2>1, <2>2, <2>3
  <2> HIDE DEF t, j
  <2>5. m * (2 * t) = 2 * (m * t) /\ m * t \in Nat
    BY <2>3
  <2>6. Divides(f, m * t)
    BY <2>4, <2>5, OddDividesHalf
  <2> QED  BY <2>6 DEF t, j
<1> HIDE DEF Q
<1>3. \A i \in 0 .. k : i \in Q
  BY <1>1, <1>2, SetInduction
<1>4. Divides(f, m * TwoTo(k - k))
  <2>1. k \in Q
    BY <1>3
  <2> QED  BY <2>1 DEF Q
<1>5. k - k = 0 /\ m * 1 = m
  OBVIOUS
<1> QED  BY <1>4, <1>5, TwoToOf

\* A power of two divides the greater ones.
LEMMA TwoToDivides ==
  ASSUME NEW k \in Nat, NEW i \in 0 .. k
  PROVE  Divides(TwoTo(i), TwoTo(k)) /\ TwoTo(i) \in Nat
<1> DEFINE t == TwoTo(i)
           n == k - i
           Q == {j \in 0 .. n : Divides(t, TwoTo(i + j))}
<1>1. t \in Nat /\ n \in Nat /\ i \in Nat /\ i + n = k
  BY TwoToOf
<1> HIDE DEF n
<1>2. 0 \in Q
  <2>1. i + 0 = i
    OBVIOUS
  <2> QED  BY <1>1, <2>1, DividesFactor
<1> HIDE DEF t
<1>3. ASSUME NEW j \in 1 .. n, j - 1 \in Q PROVE j \in Q
  <2> DEFINE l == i + (j - 1)
             p == TwoTo(l)
  <2>1. l \in Nat /\ l + 1 = i + j
    BY <1>1
  <2>2. Divides(t, p)
    BY <1>3
  <2>3. p \in Nat /\ TwoTo(l + 1) = 2 * p
    BY <2>1, TwoToOf
  <2> HIDE DEF p
  <2>4. Divides(p, 2 * p) /\ 2 * p \in Nat
    <3>1. 2 * p = p * 2 /\ 2 * p \in Nat /\ 2 \in Nat
      BY <2>3
    <3> QED  BY <2>3, <3>1 DEF Divides
  <2>5. Divides(t, 2 * p)
    BY <1>1, <2>2, <2>3, <2>4, DividesOnward
  <2> QED  BY <2>1, <2>3, <2>5
<1> HIDE DEF Q
<1>4. \A j \in 0 .. n : j \in Q
  BY <1>1, <1>2, <1>3, SetInduction
<1>5. n \in Q
  BY <1>1, <1>4
<1> QED  BY <1>1, <1>5 DEF Q, t

\* No greater power of two divides a number than the one its odd part leaves.
LEMMA TwosMost ==
  ASSUME NEW u \in Nat \ {0}, NEW k \in Nat, Divides(TwoTo(k), u)
  PROVE  k <= Twos(u)
<1> DEFINE t == Twos(u)
           q == OddPart(u)
<1>1. t \in Nat /\ q \in Nat /\ q % 2 = 1 /\ q * TwoTo(t) = u /\ TwoTo(t) \in Nat \ {0} /\ TwoTo(k) \in Nat
  <2>1. t \in Nat
    BY OddPartOf
  <2> QED  BY <2>1, OddPartOf, TwoToGrows
<1> HIDE DEF t, q
<1>2. SUFFICES ASSUME k > t PROVE FALSE
  BY <1>1 DEF t
<1>3. t + 1 \in 0 .. k /\ TwoTo(t + 1) = 2 * TwoTo(t)
  BY <1>1, <1>2, TwoToOf
<1>4. Divides(2 * TwoTo(t), TwoTo(k))
  BY <1>3, TwoToDivides
<1> DEFINE p == TwoTo(t)
<1>5. Divides(2 * p, u)
  BY <1>1, <1>4, DividesOnward
<1>6. p \in Nat \ {0} /\ q * p = u
  BY <1>1
<1> HIDE DEF p
<1>7. PICK l \in Nat : u = (2 * p) * l
  BY <1>5 DEF Divides
<1>8. p * q = p * (2 * l)
  BY <1>1, <1>6, <1>7
<1>9. q = 2 * l
  <2>1. p * q + 0 \in Nat /\ 0 \in 0 .. p - 1 /\ 2 * l \in Nat
    BY <1>1, <1>6
  <2>2. (p * q) \div p = q
    BY <1>1, <1>6, <2>1, QuotientOf
  <2>3. (p * (2 * l)) \div p = 2 * l
    BY <1>6, <1>8, <2>1, QuotientOf
  <2> QED  BY <1>8, <2>2, <2>3
<1> QED  BY <1>1, <1>9

\* The gcd is the common divisor that no common divisor exceeds.
LEMMA GcdIs ==
  ASSUME NEW u \in Nat \ {0}, NEW v \in Nat \ {0}, NEW g \in Nat, Divides(g, u), Divides(g, v),
         \A f \in Nat \ {0} : Divides(f, u) /\ Divides(f, v) => f <= g
  PROVE  GcdOf(u, v) = g
<1> DEFINE P(h) == u % h = 0 /\ v % h = 0 /\ \A f \in h + 1 .. u : u % f # 0 \/ v % f # 0
<1>1. g \in 1 .. u /\ g \in Nat \ {0}
  BY DividesBelow
<1>2. u % g = 0 /\ v % g = 0
  BY <1>1, DividesRemainder
<1>3. ASSUME NEW f \in Nat \ {0}, u % f = 0, v % f = 0 PROVE f <= g
  BY <1>3, DividesRemainder
<1>4. P(g)
  <2>1. ASSUME NEW f \in g + 1 .. u PROVE u % f # 0 \/ v % f # 0
    <3>1. f \in Nat \ {0} /\ ~ (f <= g)
      BY <1>1
    <3> QED  BY <1>3, <3>1
  <2> QED  BY <1>2, <2>1
<1>5. ASSUME NEW h \in 1 .. u, P(h) PROVE h = g
  <2>1. h <= g
    <3>1. h \in Nat \ {0} /\ u % h = 0 /\ v % h = 0
      BY <1>5
    <3> QED  BY <1>3, <3>1
  <2>2. ~ (g \in h + 1 .. u)
    BY <1>2, <1>5
  <2> QED  BY <1>1, <2>1, <2>2
<1> HIDE DEF P
<1>6. (CHOOSE h \in 1 .. u : P(h)) = g
  BY <1>1, <1>4, <1>5
<1> QED  BY <1>6 DEF GcdOf, P

\* Two numbers have the same odd common divisors as two others.
SameOddDivisors(a, b, c, d) ==
  \A f \in Nat : f % 2 = 1 => (Divides(f, a) /\ Divides(f, b) <=> Divides(f, c) /\ Divides(f, d))

LEMMA SteinDifference ==
  ASSUME NEW a \in Nat \ {0}, NEW b \in Nat \ {0}, a > b
  PROVE  OddPart(a - b) % 2 = 1 /\ SameOddDivisors(a, b, OddPart(a - b), b)
<1> DEFINE d == a - b
           o == OddPart(d)
           t == TwoTo(Twos(d))
<1>1. d \in Nat \ {0} /\ b <= a /\ d + b = a /\ a \in Nat /\ b \in Nat
  OBVIOUS
<1>2. Twos(d) \in Nat /\ o \in Nat /\ o % 2 = 1 /\ o * t = d /\ t \in Nat
  <2>1. Twos(d) \in Nat /\ o \in 1 .. d /\ o % 2 = 1 /\ o * t = d
    BY <1>1, OddPartOf
  <2> QED  BY <2>1, TwoToOf
<1>3. SUFFICES ASSUME NEW f \in Nat, f % 2 = 1
               PROVE  Divides(f, a) /\ Divides(f, b) <=> Divides(f, o) /\ Divides(f, b)
  BY <1>2 DEF SameOddDivisors
<1>4. ASSUME Divides(f, a), Divides(f, b) PROVE Divides(f, o)
  <2>1. Divides(f, d)
    BY <1>1, <1>4, DividesSum
  <2> HIDE DEF d
  <2>2. Divides(f, o * TwoTo(Twos(d)))
    BY <1>2, <2>1
  <2> HIDE DEF o
  <2> QED  BY <1>2, <1>3, <2>2, OddDivides
<1> HIDE DEF d, o, t
<1>5. ASSUME Divides(f, o), Divides(f, b) PROVE Divides(f, a)
  <2>1. Divides(o, d)
    BY <1>2, DividesFactor
  <2>2. Divides(f, d)
    BY <1>1, <1>2, <1>5, <2>1, DividesOnward
  <2>3. Divides(f, d + b)
    BY <1>1, <1>5, <2>2, DividesSum
  <2> QED  BY <1>1, <2>3
<1> QED  BY <1>4, <1>5

\* Odd numbers, with the odd common divisors of x0 and y0.
Balanced(p, x0, y0) == p.a % 2 = 1 /\ p.b % 2 = 1 /\ SameOddDivisors(x0, y0, p.a, p.b)

LEMMA SteinPassBalanced ==
  ASSUME NEW m \in Nat, NEW p \in Pairs(m), NEW x0, NEW y0, Balanced(p, x0, y0)
  PROVE  Balanced(SteinPass(p), x0, y0)
<1>1. p.a \in Nat \ {0} /\ p.b \in Nat \ {0} /\ p.a % 2 = 1 /\ p.b % 2 = 1 /\ SameOddDivisors(x0, y0, p.a, p.b)
  BY DEF Pairs, Balanced
<1>2. CASE p.a = p.b
  <2>0. ~ (p.a > p.b) /\ ~ (p.a < p.b)
    BY <1>1, <1>2
  <2>1. SteinPass(p) = p
    BY <1>2, <2>0 DEF SteinPass
  <2> QED  BY <2>1
<1>3. CASE p.a > p.b
  <2> DEFINE o == OddPart(p.a - p.b)
  <2>0. p.a # p.b /\ ~ (p.a < p.b)
    BY <1>1, <1>3
  <2>1. SteinPass(p) = [a |-> o, b |-> p.b]
    BY <1>3, <2>0 DEF SteinPass
  <2>2. o % 2 = 1 /\ SameOddDivisors(p.a, p.b, o, p.b)
    BY <1>1, <1>3, SteinDifference
  <2> HIDE DEF o
  <2>3. SameOddDivisors(x0, y0, o, p.b)
    BY <1>1, <2>2 DEF SameOddDivisors
  <2> QED  BY <1>1, <2>1, <2>2, <2>3 DEF Balanced
<1>4. CASE p.a < p.b
  <2> DEFINE o == OddPart(p.b - p.a)
  <2>0. p.a # p.b /\ ~ (p.a > p.b)
    BY <1>1, <1>4
  <2>1. SteinPass(p) = [a |-> o, b |-> p.a]
    BY <1>4, <2>0 DEF SteinPass
  <2>2. o % 2 = 1 /\ SameOddDivisors(p.b, p.a, o, p.a)
    <3>1. p.b > p.a
      BY <1>1, <1>4
    <3> QED  BY <1>1, <3>1, SteinDifference
  <2> HIDE DEF o
  <2>3. SameOddDivisors(x0, y0, o, p.a)
    BY <1>1, <2>2 DEF SameOddDivisors
  <2> QED  BY <1>1, <2>1, <2>2, <2>3 DEF Balanced
<1> QED  BY <1>1, <1>2, <1>3, <1>4

\* What it ends with is odd, and the odd common divisors of the two numbers are
\* the odd divisors of it.
LEMMA SteinOddOnlyOf ==
  ASSUME NEW u \in Nat \ {0}, NEW v \in Nat \ {0}
  PROVE  /\ SteinOddOnly(u, v) \in Nat
         /\ \A f \in Nat : f % 2 = 1 =>
              (Divides(f, OddPart(u)) /\ Divides(f, OddPart(v)) <=> Divides(f, SteinOddOnly(u, v)))
         /\ SteinOddOnly(u, v) % 2 = 1
<1> DEFINE n == u + v
           P == SteinPasses(u, v)
           x0 == OddPart(u)
           y0 == OddPart(v)
           m == Larger(x0, y0)
           Q == {k \in 0 .. n : Balanced(P[k], x0, y0)}
           e == SteinEnd(u, v)
<1>1. x0 \in 1 .. u /\ y0 \in 1 .. v /\ x0 % 2 = 1 /\ y0 % 2 = 1
  BY OddPartOf
<1>2. m \in Nat /\ x0 \in 1 .. m /\ y0 \in 1 .. m
  <2> HIDE DEF x0, y0
  <2> QED  BY <1>1, LargerOf
<1>3. /\ P[0] = [a |-> x0, b |-> y0] /\ \A i \in 0 .. n : P[i] \in Pairs(m)
      /\ \A i \in 1 .. n : P[i] = SteinPass(P[i - 1])
  <2> HIDE DEF m
  <2> QED  BY <1>2, SteinPassesOf
<1>4. n \in Nat /\ e \in 0 .. n /\ P[e].a = P[e].b
  <2>1. n \in Nat
    OBVIOUS
  <2>2. e \in 0 .. n /\ P[e].a = P[e].b
    <3> HIDE DEF e, n, P
    <3> QED  BY SteinEnds DEF e, n, P
  <2> QED  BY <2>1, <2>2
<1>5. SteinOddOnly(u, v) = P[e].a
  BY DEF SteinOddOnly
<1> HIDE DEF P, m, e, n, x0, y0
<1>6. 0 \in Q
  <2>1. 0 \in 0 .. n
    BY <1>4
  <2> QED  BY <1>1, <1>3, <2>1 DEF Balanced, SameOddDivisors
<1>7. ASSUME NEW i \in 1 .. n, i - 1 \in Q PROVE i \in Q
  <2>1. i - 1 \in 0 .. n /\ i \in 0 .. n
    BY <1>4
  <2>2. P[i - 1] \in Pairs(m) /\ P[i] = SteinPass(P[i - 1]) /\ Balanced(P[i - 1], x0, y0)
    BY <1>3, <1>7, <2>1
  <2> QED  BY <1>2, <2>1, <2>2, SteinPassBalanced
<1> HIDE DEF Q
<1>8. \A i \in 0 .. n : i \in Q
  BY <1>4, <1>6, <1>7, SetInduction
<1>9. Balanced(P[e], x0, y0) /\ P[e] \in Pairs(m)
  BY <1>3, <1>4, <1>8 DEF Q
<1> QED  BY <1>4, <1>5, <1>9 DEF Balanced, SameOddDivisors, Pairs, x0, y0

\* The binary gcd is the greatest common divisor.
LEMMA SteinExact ==
  ASSUME NEW u \in Nat \ {0}, NEW v \in Nat \ {0}
  PROVE  Stein(u, v) = GcdOf(u, v)
<1> DEFINE w == SteinOddOnly(u, v)
           x0 == OddPart(u)
           y0 == OddPart(v)
           i == Twos(u)
           j == Twos(v)
           k == IF i < j THEN i ELSE j
           t == TwoTo(k)
           g == w * t
<1>1. /\ i \in Nat /\ x0 \in Nat /\ x0 * TwoTo(i) = u
      /\ j \in Nat /\ y0 \in Nat /\ y0 * TwoTo(j) = v
      /\ x0 # 0 /\ y0 # 0
  BY OddPartOf
<1>2. w \in Nat /\ w % 2 = 1 /\ \A f \in Nat : f % 2 = 1 => (Divides(f, x0) /\ Divides(f, y0) <=> Divides(f, w))
  BY SteinOddOnlyOf
<1>3. Stein(u, v) = g
  BY DEF Stein, SteinOddOnly
<1>i. \A f \in Nat : Divides(TwoTo(f), u) => f <= i
  BY TwosMost
<1>j. \A f \in Nat : Divides(TwoTo(f), v) => f <= j
  BY TwosMost
<1> HIDE DEF w, x0, y0, i, j
<1>4. k \in Nat /\ k \in 0 .. i /\ k \in 0 .. j /\ k \in {i, j}
  BY <1>1
<1> HIDE DEF k
<1>5. t \in Nat /\ Divides(t, TwoTo(i)) /\ Divides(t, TwoTo(j)) /\ TwoTo(i) \in Nat /\ TwoTo(j) \in Nat
  BY <1>1, <1>4, TwoToDivides, TwoToOf
<1> HIDE DEF t
<1>6. Divides(w, x0) /\ Divides(w, y0)
  <2>1. Divides(w, w)
    <3>1. w = w * 1 /\ 1 \in Nat
      BY <1>2
    <3> QED  BY <3>1 DEF Divides
  <2> QED  BY <1>2, <2>1
<1>7. g \in Nat
  BY <1>2, <1>5
<1>8. Divides(g, u) /\ Divides(g, v)
  <2>1. Divides(w * t, x0 * TwoTo(i)) /\ Divides(w * t, y0 * TwoTo(j))
    BY <1>1, <1>2, <1>5, <1>6, DividesProduct
  <2> QED  BY <1>1, <2>1
<1>9. ASSUME NEW f \in Nat \ {0}, Divides(f, u), Divides(f, v) PROVE f <= g
  <2> DEFINE o == OddPart(f)
             l == Twos(f)
             r == TwoTo(l)
  <2>1. l \in Nat /\ o \in Nat /\ o % 2 = 1 /\ o * r = f /\ o # 0
    BY OddPartOf
  <2>2. r \in Nat
    BY <2>1, TwoToOf
  <2> HIDE DEF l, o, r
  <2>3. Divides(o, f) /\ Divides(r, f)
    BY <2>1, <2>2, DividesFactor
  <2>4. Divides(o, u) /\ Divides(o, v) /\ Divides(r, u) /\ Divides(r, v)
    BY <1>9, <2>1, <2>2, <2>3, DividesOnward
  <2>5. Divides(o, x0) /\ Divides(o, y0)
    BY <1>1, <2>1, <2>4, OddDivides
  <2>6. Divides(o, w)
    BY <1>2, <2>1, <2>5
  <2>7. o <= w
    <3>1. w \in Nat \ {0}
      BY <1>2
    <3> QED  BY <2>1, <2>6, <3>1, DividesBelow
  <2>8. l <= k
    BY <1>i, <1>j, <1>4, <2>1, <2>4 DEF r
  <2>9. r <= t
    BY <1>4, <2>1, <2>8, TwoToGrows DEF r, t
  <2>10. o * r <= o * t /\ t * o <= t * w /\ o * t = t * o /\ t * w = w * t
    <3>1. o * r <= o * t /\ t * o <= t * w
      BY <1>2, <1>5, <2>1, <2>2, <2>7, <2>9, Products
    <3> QED  BY <1>2, <1>5, <2>1, <3>1
  <2>11. o * r \in Nat /\ o * t \in Nat /\ w * t \in Nat
    BY <1>2, <1>5, <2>1, <2>2
  <2> QED  BY <2>1, <2>10, <2>11
<1> HIDE DEF g
<1> QED  BY <1>3, <1>7, <1>8, <1>9, GcdIs

\* Of two words the binary gcd that ends is the greatest common divisor, unless
\* both are even.
LEMMA BinaryGcdExact ==
  ASSUME NEW u \in Nat, NEW v \in Nat, BinaryGcdEnds(u, v), ~ (u # 0 /\ v # 0 /\ u % 2 = 0 /\ v % 2 = 0)
  PROVE  BinaryGcd(u, v) = GcdOf(u, v)
<1>1. CASE u = 0 \/ v = 0
  BY <1>1 DEF BinaryGcd, GcdOf
<1>2. CASE u # 0 /\ v # 0
  <2> DEFINE w == OddPart(v)
             x0 == OddPart(u)
  <2>1. /\ w \in Nat \ {0} /\ w % 2 = 1 /\ w * TwoTo(Twos(v)) = v /\ Twos(v) \in Nat
        /\ x0 \in Nat \ {0} /\ x0 % 2 = 1 /\ x0 * TwoTo(Twos(u)) = u /\ Twos(u) \in Nat
    BY <1>2, OddPartOf
  <2>2. TwoTo(Twos(u)) \in Nat /\ TwoTo(Twos(v)) \in Nat
    BY <2>1, TwoToOf
  <2>3. BinaryGcd(u, v) = w
    BY <1>2 DEF BinaryGcd
  <2>4. x0 % w = 0
    BY <1>2 DEF BinaryGcdEnds
  <2> HIDE DEF w, x0
  <2>5. Divides(w, x0)
    BY <2>1, <2>4, DividesRemainder
  <2>6. Divides(x0, u) /\ Divides(w, v)
    <3>1. Divides(x0, x0 * TwoTo(Twos(u))) /\ Divides(w, w * TwoTo(Twos(v)))
      BY <2>1, <2>2, DividesFactor
    <3> QED  BY <2>1, <3>1
  <2>7. Divides(w, u)
    BY <2>1, <2>5, <2>6, DividesOnward
  <2>8. ASSUME NEW f \in Nat \ {0}, Divides(f, u), Divides(f, v) PROVE f <= w
    <3>1. f % 2 = 1
      <4>1. ASSUME f % 2 = 0 PROVE FALSE
        <5>1. 2 \in Nat \ {0} /\ Divides(2, f)
          BY <4>1, DividesRemainder
        <5>2. Divides(2, u) /\ Divides(2, v)
          BY <2>8, <5>1, DividesOnward
        <5>3. u % 2 = 0 /\ v % 2 = 0
          BY <5>1, <5>2, DividesRemainder
        <5> QED  BY <1>2, <5>3
      <4> QED  BY <4>1
    <3>2. Divides(f, w * TwoTo(Twos(v)))
      BY <2>1, <2>8
    <3>3. Divides(f, w)
      BY <2>1, <3>1, <3>2, OddDivides
    <3> QED  BY <2>1, <3>3, DividesBelow
  <2> QED  BY <1>2, <2>1, <2>3, <2>6, <2>7, <2>8, GcdIs
<1> QED  BY <1>1, <1>2

-----------------------------------------------------------------------------
(* What the calls that make a new number compute *)

\* A low word and the high word of the limb below it that wrap.
Wraps(m) ==
  \E i \in DOMAIN x.d : ((x.d[i] * m) % Radix) + ((LimbAt(x.d, i - 1) * m) \div Radix) >= Radix

SumCarries(y, s) ==
  x.d # <<>> /\ y.d # <<>> /\ x.sign = s /\ LimbAt(x.d, 1) + LimbAt(y.d, 1) >= Radix

\* What the value r of a result must be.
WordAnswer(op, w, r) ==
  /\ op \in {"fmulu64", "fmuli64"} /\ ~ Wraps(Mag(w)) => r = Val(x) * w
  /\ op \in {"fdivu64", "fdivi64"} /\ (Mag(w) = 1 \/ Mag(Val(x)) < Mag(w)) => r = Quotient(Val(x), w)
  /\ op \in {"fmodu64", "fmodi64"} /\ ~ Long(x) => r = Val(x) - w * Quotient(Val(x), w)
  /\ op \in {"mut_emodu64", "mut_emodi64"} /\ ~ Long(x) => r = Val(x) % Mag(w)

NumberAnswer(op, y, r) ==
  /\ op = "fadd" /\ ~ SumCarries(y, y.sign) => r = Val(x) + y.sign * Magnitude(y.d)
  /\ op = "fsub" /\ ~ SumCarries(y, -y.sign) => r = Val(x) + (-y.sign) * Magnitude(y.d)
  /\ op = "fmul" => r = Val(x) * Val(y)
  /\ op \in {"fdiv", "mut_div"} => r = Quotient(Val(x), Val(y))
  /\ op \in {"fmod", "mut_mod"} => r = Val(x) - Val(y) * Quotient(Val(x), Val(y))
  /\ op \in {"emod", "mut_emod"} => r = Val(x) % Magnitude(y.d)

EvenWords(y) ==
  LET u == Magnitude(x.d)
      v == Magnitude(y.d)
  IN  ~ Long(x) /\ ~ Long(y) /\ u # 0 /\ v # 0 /\ u % 2 = 0 /\ v % 2 = 0

Rounds(e) == ~ Long(x) /\ SafeExp(RawLimb(x), e) /\ Power(Magnitude(x.d), e) > TwoTo(MantissaBits)

DivisorAnswer(op, y, r) ==
  op = "gcd" /\ ~ EvenWords(y) => Mag(r) = GcdOf(Magnitude(x.d), Magnitude(y.d))

PowerAnswer(op, w, r) ==
  /\ op \in {"mut_sqr", "sqr"} => r = Val(x) * Val(x)
  /\ op = "pow" /\ ~ Rounds(w) => r = Power(Val(x), w)
  /\ op = "mut_pow" /\ ~ Rounds(w) /\ w <= 2 => r = Power(Val(x), w)

Answer(op, w, y, r) ==
  WordAnswer(op, w, r) /\ NumberAnswer(op, y, r) /\ DivisorAnswer(op, y, r) /\ PowerAnswer(op, w, r)

FuncExact == FuncWordExact /\ FuncObjectExact /\ GcdExact /\ PowerExact

Answering ==
  {"fmulu64", "fmuli64", "fdivu64", "fdivi64", "fmodu64", "fmodi64", "mut_emodu64", "mut_emodi64",
   "fadd", "fsub", "fmul", "fdiv", "mut_div", "fmod", "mut_mod", "emod", "mut_emod",
   "gcd", "mut_sqr", "sqr", "mut_pow", "pow"}

LEMMA NotAnswering ==
  ASSUME NEW op, op \notin Answering, NEW w, NEW y, NEW r
  PROVE  Answer(op, w, y, r)
BY DEF Answering, Answer, WordAnswer, NumberAnswer, DivisorAnswer, PowerAnswer

\* A call that answers answers right, if its value is the one that is due.
LEMMA Answered ==
  ASSUME call'.status \in {"SUCCESS", "OPERAND_FREED", "SHARED"}
           => Answer(call'.op, call'.word, call'.y, Val(x'))
  PROVE  FuncExact
<1>1. CASE call'.status \notin {"SUCCESS", "OPERAND_FREED", "SHARED"}
  BY <1>1 DEF FuncExact, FuncWordExact, FuncObjectExact, GcdExact, PowerExact, Succeeds
<1>2. CASE Answer(call'.op, call'.word, call'.y, Val(x'))
  <2>1. /\ WordAnswer(call'.op, call'.word, Val(x')) /\ NumberAnswer(call'.op, call'.y, Val(x'))
        /\ DivisorAnswer(call'.op, call'.y, Val(x')) /\ PowerAnswer(call'.op, call'.word, Val(x'))
    BY <1>2 DEF Answer
  <2>2. FuncWordExact
    BY <2>1 DEF WordAnswer, FuncWordExact, Succeeds, Wraps
  <2>3. FuncObjectExact
    <3>1. /\ Succeeds({"mut_emodu64", "mut_emodi64"}) /\ ~Long(x) => Val(x') = Val(x) % Mag(call'.word)
          /\ Succeeds({"emod", "mut_emod"}) => Val(x') = Val(x) % Magnitude(call'.y.d)
          /\ Succeeds({"fdiv", "mut_div"}) => Val(x') = Quotient(Val(x), Val(call'.y))
          /\ Succeeds({"fmod", "mut_mod"}) => Val(x') = Val(x) - Val(call'.y) * Quotient(Val(x), Val(call'.y))
          /\ call'.op = "fmul" => Val(x') = Val(x) * Val(call'.y)
      BY <2>1 DEF WordAnswer, NumberAnswer, Succeeds
    <3>2. LET s == IF call'.op = "fadd" THEN call'.y.sign ELSE -call'.y.sign
          IN  Succeeds({"fadd", "fsub"}) /\ ~ SumCarries(call'.y, s)
                => Val(x') = Val(x) + s * Magnitude(call'.y.d)
      BY <2>1 DEF NumberAnswer, Succeeds
    <3> QED  BY <3>1, <3>2 DEF FuncObjectExact, SumCarries
  <2>4. GcdExact
    BY <2>1 DEF DivisorAnswer, GcdExact, EvenWords
  <2>5. PowerExact
    <3>1. /\ Succeeds({"mut_sqr", "sqr"}) => Val(x') = Val(x) * Val(x)
          /\ Succeeds({"pow"}) /\ ~ Rounds(call'.word) => Val(x') = Power(Val(x), call'.word)
          /\ Succeeds({"mut_pow"}) /\ ~ Rounds(call'.word) /\ call'.word <= 2
               => Val(x') = Power(Val(x), call'.word)
          /\ Succeeds({"pow"}) \/ Succeeds({"mut_pow"}) => call'.op \notin {"mut_sqr", "sqr"}
      BY <2>1 DEF PowerAnswer, Succeeds
    <3> QED  BY <3>1 DEF PowerExact, Rounds
  <2> QED  BY <2>2, <2>3, <2>4, <2>5 DEF FuncExact
<1> QED  BY <1>1, <1>2

LEMMA HandsAnswers ==
  ASSUME NEW op, NEW w, NEW y, NEW o, NEW status, Hands(op, w, y, o, status), Answer(op, w, y, Val(o))
  PROVE  FuncExact
<1>1. x' = o /\ call' = [op |-> op, word |-> w, y |-> y, status |-> status]
  BY DEF Hands
<1>2. call'.op = op /\ call'.word = w /\ call'.y = y /\ Val(x') = Val(o)
  BY <1>1
<1> QED  BY <1>2, Answered

LEMMA ReturnsAnswers ==
  ASSUME NEW op, NEW w, NEW y, NEW o, Returns(op, w, y, o), Answer(op, w, y, Val(o))
  PROVE  FuncExact
BY HandsAnswers DEF Returns

LEMMA FailsAnswers ==
  ASSUME NEW op, NEW w, NEW y, NEW status, status \notin {"SUCCESS", "OPERAND_FREED", "SHARED"}, Fails(op, w, y, status)
  PROVE  FuncExact
<1>1. call'.status = status
  BY DEF Fails
<1> QED  BY <1>1, Answered

LEMMA BlockAnswers ==
  ASSUME NEW op, NEW w, NEW y, NEW k \in Nat, NEW d, NEW s, Block(op, w, y, k, d, s),
         Len(d) <= Larger(1, k) => Answer(op, w, y, s * Magnitude(d))
  PROVE  FuncExact
<1> DEFINE o == [d |-> d, cap |-> Larger(1, k), sign |-> s]
<1>1. o.d = d /\ o.sign = s
  OBVIOUS
<1>2. Val(o) = s * Magnitude(d)
  BY <1>1 DEF Val
<1> HIDE DEF o
<1>3. CASE Len(d) <= Larger(1, k) /\ Returns(op, w, y, o)
  BY <1>2, <1>3, ReturnsAnswers
<1>4. CASE Fails(op, w, y, "OVERRUN") \/ Fails(op, w, y, "DNML_ALLOC_OOM")
  BY <1>4, FailsAnswers
<1> QED  BY <1>3, <1>4 DEF Block, o

LEMMA ZeroAnswers ==
  ASSUME NEW op, NEW w, NEW y, NEW s \in {1, -1}, Block(op, w, y, 0, <<>>, s), Answer(op, w, y, 0)
  PROVE  FuncExact
<1>1. s * Magnitude(<<>>) = 0
  BY WordValue
<1> QED  BY <1>1, BlockAnswers

LEMMA DuplicateAnswers ==
  ASSUME NEW op, NEW w, NEW y, NEW o, o.d \in Seq(Limb), NEW s, Duplicate(op, w, y, o, s),
         Answer(op, w, y, s * Magnitude(o.d))
  PROVE  FuncExact
<1>1. Len(o.d) \in Nat /\ Block(op, w, y, Len(o.d), o.d, s)
  BY DigitTyped DEF Duplicate
<1> DEFINE d == o.d
<1> HIDE DEF d
<1>2. Len(d) \in Nat /\ Block(op, w, y, Len(d), d, s) /\ Answer(op, w, y, s * Magnitude(d))
  BY <1>1 DEF d
<1> QED  BY <1>2, BlockAnswers

LEMMA WordAnswers ==
  ASSUME NEW op, NEW w, NEW y, NEW v \in Limb, NEW s, OneWord(op, w, y, v, s) \/ OneWordUnchecked(op, w, y, v, s),
         Answer(op, w, y, s * v)
  PROVE  FuncExact
<1>1. Magnitude(Word(v)) = v
  BY WordOf
<1>2. CASE OneWord(op, w, y, v, s)
  BY <1>1, <1>2, BlockAnswers DEF OneWord
<1>3. CASE OneWordUnchecked(op, w, y, v, s)
  <2> DEFINE o == [d |-> Word(v), cap |-> 1, sign |-> s]
  <2>1. Val(o) = s * v
    BY <1>1 DEF Val
  <2> HIDE DEF o
  <2>2. CASE Returns(op, w, y, o)
    BY <2>1, <2>2, ReturnsAnswers
  <2>3. CASE Fails(op, w, y, "NO_LIMBS")
    BY <2>3, FailsAnswers
  <2> QED  BY <1>3, <2>2, <2>3 DEF OneWordUnchecked, o
<1> QED  BY <1>2, <1>3

-----------------------------------------------------------------------------
(* The values of the kernels of the functional part *)

\* A limb times a word, split into its high and its low word.
LEMMA WordsOf ==
  ASSUME NEW a \in Limb, NEW v \in Limb
  PROVE  LET h == (a * v) \div Radix
             l == (a * v) % Radix
         IN  h \in Limb /\ h \in Nat /\ l \in Nat /\ l \in Limb /\ a * v = Radix * h + l
<1> DEFINE t == 0 + a * v + 0
<1>1. 0 \in Limb /\ a \in Nat /\ v \in Nat
  BY LimbsTyped
<1>2. t % Radix \in Limb /\ t \div Radix \in Limb /\ t = Radix * (t \div Radix) + (t % Radix)
  BY <1>1, DoubleLimb
<1>3. t = a * v
  BY <1>1
<1> QED  BY <1>2, <1>3, LimbsTyped

\* The high word is the carry as long as no low word and carry wrap.
LEMMA CarryOf ==
  ASSUME NEW a \in Limb, NEW v \in Limb, NEW c \in Limb, ((a * v) % Radix) + c < Radix
  PROVE  /\ TwiceCarry(a, v, c) = (a * v) \div Radix
         /\ (a * v + c) \div Radix = (a * v) \div Radix
<1> DEFINE h == (a * v) \div Radix
           l == (a * v) % Radix
           p == a * v
<1>1. h \in Limb /\ h \in Nat /\ h < Radix /\ l \in Nat /\ p = Radix * h + l /\ l + c < Radix /\ c \in Nat /\ Radix \in Nat \ {0}
  <2>1. h \in Limb /\ h \in Nat /\ l \in Nat /\ p = Radix * h + l
    BY WordsOf
  <2>2. l + c < Radix
    OBVIOUS
  <2> HIDE DEF h, l, p
  <2> QED  BY <2>1, <2>2, LimbsTyped, ByteRangeDivides
<1>2. TwiceCarry(a, v, c) = (h + 0) % Radix
  BY <1>1 DEF TwiceCarry
<1> HIDE DEF h, l, p
<1>3. h + 0 = h /\ h = Radix * 0 + h /\ h \in 0 .. Radix - 1 /\ 0 \in Nat
  BY <1>1
<1>4. h % Radix = h
  BY <1>1, <1>3, QuotientOf
<1>5. p + c = Radix * h + (l + c) /\ l + c \in 0 .. Radix - 1 /\ p + c \in Nat
  BY <1>1
<1>6. (p + c) \div Radix = h
  BY <1>1, <1>5, QuotientOf
<1> QED  BY <1>2, <1>3, <1>4, <1>6 DEF h, p

\* Then the carries are those of the product.
LEMMA SameCarries ==
  ASSUME NEW d \in Seq(Limb), NEW v \in Limb,
         \A i \in DOMAIN d : ((d[i] * v) % Radix) + ((LimbAt(d, i - 1) * v) \div Radix) < Radix
  PROVE  \A i \in 0 .. Len(d) : TwiceCarries(d, v)[i] = Carries(d, v)[i]
<1> DEFINE n == Len(d)
           t == TwiceCarries(d, v)
           c == Carries(d, v)
           High(i) == (LimbAt(d, i) * v) \div Radix
           Q == {i \in 0 .. n : t[i] = High(i) /\ c[i] = High(i)}
<1>1. n \in Nat /\ DOMAIN d = 1 .. n /\ \A i \in 1 .. n : d[i] \in Limb
  BY DigitTyped
<1>2. \A i \in 0 .. n : High(i) \in Limb
  <2>1. \A i \in 0 .. n : LimbAt(d, i) \in Limb
    BY LimbAtTyped
  <2> QED  BY <2>1, WordsOf
<1>3. t[0] = 0 /\ \A i \in 1 .. n : t[i] = TwiceCarry(d[i], v, t[i - 1])
  BY TwiceCarriesOf
<1>4. c[0] = 0 /\ \A i \in 1 .. n : c[i] = (d[i] * v + c[i - 1]) \div Radix
  BY CarriesOf
<1>5. \A i \in 1 .. n : LimbAt(d, i) = d[i] /\ ((d[i] * v) % Radix) + High(i - 1) < Radix
  BY <1>1 DEF LimbAt
<1>6. High(0) = 0
  <2>1. LimbAt(d, 0) = 0
    BY <1>1 DEF LimbAt
  <2>2. 0 * v = 0 /\ Radix \in Nat \ {0} /\ 0 = Radix * 0 + 0 /\ 0 \in 0 .. Radix - 1 /\ 0 \in Nat
    BY LimbsTyped, ByteRangeDivides
  <2>3. 0 \div Radix = 0
    BY <2>2, QuotientOf
  <2> QED  BY <2>1, <2>2, <2>3
<1> HIDE DEF t, c
<1>7. 0 \in Q
  BY <1>1, <1>3, <1>4, <1>6
<1>8. ASSUME NEW i \in 1 .. n, i - 1 \in Q PROVE i \in Q
  <2> DEFINE a == d[i]
             g == High(i - 1)
  <2>1. t[i - 1] = g /\ c[i - 1] = g /\ g \in Limb /\ a \in Limb /\ High(i) = (a * v) \div Radix
    BY <1>1, <1>2, <1>5, <1>8
  <2>2. ((a * v) % Radix) + g < Radix
    BY <1>5
  <2>3. t[i] = TwiceCarry(a, v, g) /\ c[i] = (a * v + g) \div Radix
    BY <1>3, <1>4, <2>1
  <2>4. i \in 0 .. n
    BY <1>1
  <2> HIDE DEF a, g, High
  <2>5. t[i] = High(i) /\ c[i] = High(i)
    BY <2>1, <2>2, <2>3, CarryOf
  <2> QED  BY <2>4, <2>5
<1> HIDE DEF Q
<1>9. \A i \in 0 .. n : i \in Q
  BY <1>1, <1>7, <1>8, SetInduction
<1> QED  BY <1>9 DEF Q, t, c, n

\* And the product is exact.
LEMMA MagMulWordExact ==
  ASSUME NEW d \in Seq(Limb), NEW v \in Limb,
         \A i \in DOMAIN d : ((d[i] * v) % Radix) + ((LimbAt(d, i - 1) * v) \div Radix) < Radix
  PROVE  Magnitude(MagMulWord(d, v)) = v * Magnitude(d)
<1> DEFINE n == Len(d)
           c == Carries(d, v)
           t == TwiceCarries(d, v)
           w == WordLimbs(d, v)
           m == MagMulWord(d, v)
           u == [i \in 1 .. n |-> (d[i] * v + c[i - 1]) % Radix]
<1>1. n \in Nat /\ w \in Seq(Limb) /\ Len(w) = n + 1 /\ Magnitude(w) = v * Magnitude(d) /\ m \in Seq(Limb)
  BY DigitTyped, WordLimbsOf, MagMulWordOf
<1>2. \A i \in 0 .. n : t[i] = c[i]
  BY SameCarries
<1>3. m = IF t[n] = 0 THEN [i \in 1 .. n |-> (d[i] * v + t[i - 1]) % Radix]
          ELSE Append([i \in 1 .. n |-> (d[i] * v + t[i - 1]) % Radix], t[n])
  BY DEF MagMulWord
<1>4. w = Append(u, c[n])
  BY DEF WordLimbs
<1>5. Len(u) = n /\ DOMAIN u = 1 .. n
  BY <1>1
<1> HIDE DEF t, c, m, w
<1>6. [i \in 1 .. n |-> (d[i] * v + t[i - 1]) % Radix] = u
  <2>1. \A i \in 1 .. n : t[i - 1] = c[i - 1]
    BY <1>1, <1>2
  <2> QED  BY <2>1
<1>7. t[n] = c[n]
  BY <1>1, <1>2
<1> HIDE DEF u
<1>8. CASE c[n] # 0
  BY <1>1, <1>3, <1>4, <1>6, <1>7, <1>8 DEF m
<1>9. CASE c[n] = 0
  <2>1. m = u /\ w = Append(u, 0)
    BY <1>3, <1>4, <1>6, <1>7, <1>9
  <2>2. u \in Seq(Limb)
    BY <1>1, <2>1
  <2>3. \A i \in 1 .. n : w[i] = u[i]
    BY <1>1, <1>5, <2>1, <2>2
  <2>4. w[n + 1] = 0
    BY <1>1, <1>5, <2>1, <2>2
  <2>5. ASSUME NEW i \in Nat \ {0} PROVE LimbAt(u, i) = LimbAt(w, i)
    <3>1. DOMAIN w = 1 .. n + 1
      BY <1>1
    <3>2. CASE i \in 1 .. n
      BY <1>1, <1>5, <2>3, <3>1, <3>2 DEF LimbAt
    <3>3. CASE i = n + 1
      BY <1>1, <1>5, <2>4, <3>1, <3>3 DEF LimbAt
    <3>4. CASE i > n + 1
      BY <1>1, <1>5, <3>1, <3>4 DEF LimbAt
    <3> QED  BY <1>1, <3>2, <3>3, <3>4
  <2>6. Magnitude(u) = Magnitude(w)
    BY <1>1, <2>2, <2>5, SameValue
  <2> QED  BY <1>1, <2>1, <2>6 DEF m
<1> QED  BY <1>8, <1>9 DEF m

-----------------------------------------------------------------------------
(* Arithmetic with one word: the values *)

LEMMA ProductDue ==
  ASSUME NEW op \in {"fmulu64", "fmuli64"}, NEW w, NEW y, NEW r, ~ Wraps(Mag(w)) => r = Val(x) * w
  PROVE  Answer(op, w, y, r)
BY DEF Answer, WordAnswer, NumberAnswer, DivisorAnswer, PowerAnswer

LEMMA QuotientDue ==
  ASSUME NEW op \in {"fdivu64", "fdivi64"}, NEW w, NEW y, NEW r,
         Mag(w) = 1 \/ Mag(Val(x)) < Mag(w) => r = Quotient(Val(x), w)
  PROVE  Answer(op, w, y, r)
BY DEF Answer, WordAnswer, NumberAnswer, DivisorAnswer, PowerAnswer

LEMMA RemainderDue ==
  ASSUME NEW op \in {"fmodu64", "fmodi64"}, NEW w, NEW y, NEW r,
         ~ Long(x) => r = Val(x) - w * Quotient(Val(x), w)
  PROVE  Answer(op, w, y, r)
BY DEF Answer, WordAnswer, NumberAnswer, DivisorAnswer, PowerAnswer

LEMMA EmodDue ==
  ASSUME NEW op \in {"mut_emodu64", "mut_emodi64"}, NEW w, NEW y, NEW r, ~ Long(x) => r = Val(x) % Mag(w)
  PROVE  Answer(op, w, y, r)
BY DEF Answer, WordAnswer, NumberAnswer, DivisorAnswer, PowerAnswer

\* A word is its sign times its magnitude.
LEMMA WordSigned ==
  /\ \A v \in Words : Mag(v) \in Limb /\ Mag(v) \in Nat /\ v = 1 * Mag(v) /\ v = Mag(v) /\ v \in Int
  /\ \A v \in IntWords : /\ Mag(v) \in Limb /\ Mag(v) \in Nat /\ SignOf(v) \in {1, -1} /\ v \in Int
                         /\ v = SignOf(v) * Mag(v)
<1>1. ASSUME NEW v \in Words PROVE Mag(v) \in Limb /\ Mag(v) \in Nat /\ v = 1 * Mag(v) /\ v = Mag(v) /\ v \in Int
  <2>1. v \in Nat /\ v \in Limb
    BY WordTyped
  <2> QED  BY <2>1 DEF Mag
<1> QED  BY <1>1, WordTyped

LEMMA SignedProducts ==
  ASSUME NEW s \in {1, -1}, NEW t \in {1, -1}, NEW a \in Nat, NEW b \in Nat
  PROVE  /\ (s * t) * (b * a) = (s * a) * (t * b) /\ s * t \in {1, -1}
         /\ (s * t) * 0 = 0 /\ s * a \in Int /\ t * b \in Int
         /\ (s * a) * (t * 0) = 0 /\ (s * 0) * (t * b) = 0
<1>1. a * b \in Nat /\ b * a = a * b
  OBVIOUS
<1>2. CASE s = 1 /\ t = 1
  BY <1>1, <1>2
<1>3. CASE s = 1 /\ t = -1
  <2>1. a * (-b) = -(a * b)
    OBVIOUS
  <2> QED  BY <1>1, <1>3, <2>1
<1>4. CASE s = -1 /\ t = 1
  <2>1. (-a) * b = -(a * b)
    OBVIOUS
  <2> QED  BY <1>1, <1>4, <2>1
<1>5. CASE s = -1 /\ t = -1
  <2>1. (-a) * (-b) = a * b
    OBVIOUS
  <2> QED  BY <1>1, <1>5, <2>1
<1> QED  BY <1>2, <1>3, <1>4, <1>5

LEMMA FMulWordExact ==
  ASSUME IInv, MayAccept(x), NEW op \in {"fmulu64", "fmuli64"}, NEW w, NEW t \in {1, -1}, NEW m \in Limb,
         m = Mag(w), w = t * m, NEW s, s = x.sign * t,
         \/ (x.d = <<>> \/ m = 0) /\ Block(op, w, Zero, 0, <<>>, s)
         \/ IsOne(x) /\ OneWordUnchecked(op, w, Zero, m, s)
         \/ m = 1 /\ Duplicate(op, w, Zero, x, s)
         \/ Block(op, w, Zero, ProductRoom(x.d), MagMulWord(x.d, m), s)
  PROVE  FuncExact
<1> DEFINE M == Magnitude(x.d)
           g == x.sign
<1>1. /\ x \in Num /\ x.d \in Seq(Limb) /\ g \in {1, -1} /\ M \in Nat /\ m \in Nat /\ Len(x.d) \in Nat
      /\ Val(x) = g * M /\ (x.d = <<>> => M = 0) /\ (IsOne(x) => M = 1)
  BY AcceptedNumber, ValOf, LimbsTyped
<1>2. s \in {1, -1} /\ s * (m * M) = Val(x) * w /\ (m = 0 \/ M = 0 => Val(x) * w = 0)
  <2> HIDE DEF M, g
  <2>1. s = g * t
    BY DEF g
  <2> QED  BY <1>1, <2>1, SignedProducts
<1>3. CASE (x.d = <<>> \/ m = 0) /\ Block(op, w, Zero, 0, <<>>, s)
  <2>1. Val(x) * w = 0
    BY <1>1, <1>2, <1>3
  <2>2. Answer(op, w, Zero, 0)
    BY <2>1, ProductDue
  <2> QED  BY <1>2, <1>3, <2>2, ZeroAnswers
<1> HIDE DEF M, g
<1>4. CASE IsOne(x) /\ OneWordUnchecked(op, w, Zero, m, s)
  <2>1. m * M = m
    BY <1>1, <1>4
  <2>2. Answer(op, w, Zero, s * m)
    BY <1>2, <2>1, ProductDue
  <2> QED  BY <1>4, <2>2, WordAnswers
<1>5. CASE m = 1 /\ Duplicate(op, w, Zero, x, s)
  <2>1. m * M = M
    BY <1>1, <1>5
  <2>2. Answer(op, w, Zero, s * Magnitude(x.d))
    BY <1>2, <2>1, ProductDue DEF M
  <2> QED  BY <1>1, <1>5, <2>2, DuplicateAnswers
<1>6. CASE Block(op, w, Zero, ProductRoom(x.d), MagMulWord(x.d, m), s)
  <2> DEFINE p == MagMulWord(x.d, m)
             k == ProductRoom(x.d)
  <2>1. ASSUME ~ Wraps(m) PROVE Magnitude(p) = m * M
    <3>1. \A i \in DOMAIN x.d : /\ ~ (((x.d[i] * m) % Radix) + ((LimbAt(x.d, i - 1) * m) \div Radix) >= Radix)
      BY <2>1 DEF Wraps
    <3>2. ASSUME NEW i \in DOMAIN x.d
          PROVE  ((x.d[i] * m) % Radix) + ((LimbAt(x.d, i - 1) * m) \div Radix) < Radix
      <4> DEFINE a == (x.d[i] * m) % Radix
                 b == (LimbAt(x.d, i - 1) * m) \div Radix
      <4>1. i \in 1 .. Len(x.d) /\ i - 1 \in Int
        BY <1>1, DigitTyped
      <4>2. x.d[i] \in Limb /\ LimbAt(x.d, i - 1) \in Limb
        BY <1>1, <4>1, DigitTyped, LimbAtTyped
      <4>3. a \in Nat /\ b \in Nat /\ Radix \in Nat
        BY <4>2, WordsOf, ByteRangeDivides
      <4>4. ~ (a + b >= Radix)
        BY <3>1
      <4> HIDE DEF a, b
      <4>5. a + b < Radix
        BY <4>3, <4>4
      <4> QED  BY <4>5 DEF a, b
    <3> QED  BY <1>1, <3>2, MagMulWordExact DEF M
  <2>2. k \in Nat
    BY <1>1 DEF ProductRoom
  <2>3. Block(op, w, Zero, k, p, s)
    BY <1>6
  <2> HIDE DEF p, k
  <2>4. Answer(op, w, Zero, s * Magnitude(p))
    BY <1>2, <2>1, ProductDue
  <2> QED  BY <2>2, <2>3, <2>4, BlockAnswers
<1> QED  BY <1>3, <1>4, <1>5, <1>6

LEMMA FMulU64Exact == IInv /\ FMulU64 => FuncExact
<1> SUFFICES ASSUME IInv, FMulU64 PROVE FuncExact
  OBVIOUS
<1>1. PICK v \in Words :
        /\ MayAccept(x)
        /\ \/ (x.d = <<>> \/ v = 0) /\ Block("fmulu64", v, Zero, 0, <<>>, x.sign)
           \/ IsOne(x) /\ OneWordUnchecked("fmulu64", v, Zero, v, x.sign)
           \/ v = 1 /\ Duplicate("fmulu64", v, Zero, x, x.sign)
           \/ Block("fmulu64", v, Zero, ProductRoom(x.d), MagMulWord(x.d, v), x.sign)
  BY DEF FMulU64
<1>2. v \in Limb /\ v = Mag(v) /\ v = 1 * v /\ x.sign = x.sign * 1
  <2>1. v \in Limb /\ v = Mag(v) /\ v \in Nat
    BY WordTyped, WordSigned
  <2>2. x.sign \in {1, -1}
    BY <1>1, AcceptedNumber
  <2> QED  BY <2>1, <2>2
<1> QED  BY <1>1, <1>2, FMulWordExact

LEMMA FMulI64Exact == IInv /\ FMulI64 => FuncExact
<1> SUFFICES ASSUME IInv, FMulI64 PROVE FuncExact
  OBVIOUS
<1>1. PICK v \in IntWords :
        LET s == x.sign * SignOf(v)
        IN  /\ MayAccept(x)
            /\ \/ (x.d = <<>> \/ v = 0) /\ Block("fmuli64", v, Zero, 0, <<>>, s)
               \/ IsOne(x) /\ OneWordUnchecked("fmuli64", v, Zero, Mag(v), s)
               \/ Mag(v) = 1 /\ Duplicate("fmuli64", v, Zero, x, s)
               \/ Block("fmuli64", v, Zero, ProductRoom(x.d), MagMulWord(x.d, Mag(v)), s)
  BY DEF FMulI64
<1> DEFINE s == x.sign * SignOf(v)
           m == Mag(v)
           t == SignOf(v)
<1>2. m \in Limb /\ t \in {1, -1} /\ v = t * m /\ s = x.sign * t /\ (v = 0 => m = 0)
  BY WordSigned DEF Mag
<1>3. /\ MayAccept(x)
      /\ \/ (x.d = <<>> \/ m = 0) /\ Block("fmuli64", v, Zero, 0, <<>>, s)
         \/ IsOne(x) /\ OneWordUnchecked("fmuli64", v, Zero, m, s)
         \/ m = 1 /\ Duplicate("fmuli64", v, Zero, x, s)
         \/ Block("fmuli64", v, Zero, ProductRoom(x.d), MagMulWord(x.d, m), s)
  BY <1>1, <1>2
<1>4. m = Mag(v)
  OBVIOUS
<1> HIDE DEF s, m, t
<1> QED  BY <1>2, <1>3, <1>4, FMulWordExact

LEMMA SignSquares ==
  ASSUME NEW g \in {1, -1}, NEW s \in {1, -1}, NEW m \in Nat, NEW q \in Nat
  PROVE  (s * m) * (g * s * q) = g * (m * q) /\ m * q \in Nat
<1>1. m * q \in Nat
  OBVIOUS
<1>2. CASE g = 1 /\ s = 1
  BY <1>1, <1>2
<1>3. CASE g = 1 /\ s = -1
  <2>1. (-m) * (-q) = m * q
    OBVIOUS
  <2> QED  BY <1>1, <1>3, <2>1
<1>4. CASE g = -1 /\ s = 1
  <2>1. m * (-q) = -(m * q)
    OBVIOUS
  <2> QED  BY <1>1, <1>4, <2>1
<1>5. CASE g = -1 /\ s = -1
  <2>1. (-m) * q = -(m * q)
    OBVIOUS
  <2> QED  BY <1>1, <1>5, <2>1
<1> QED  BY <1>2, <1>3, <1>4, <1>5

\* What is left of a number after its quotient keeps its sign.
LEMMA RemainderSigned ==
  ASSUME NEW o \in Num, NEW m \in Nat \ {0}, NEW s \in {1, -1}
  PROVE  /\ Val(o) - (s * m) * Quotient(Val(o), s * m) = o.sign * (Magnitude(o.d) % m)
         /\ Magnitude(o.d) % m \in 0 .. m - 1
<1> DEFINE M == Magnitude(o.d)
           g == o.sign
           q == M \div m
           r == M % m
<1>1. M \in Nat /\ g \in {1, -1} /\ Val(o) = g * M
  BY NumParts, ValOf
<1>2. q \in Nat /\ r \in 0 .. m - 1 /\ M = m * q + r
  BY <1>1, Division
<1>3. Quotient(Val(o), s * m) = g * s * q
  BY <1>2, ValQuotient
<1>4. (s * m) * (g * s * q) = g * (m * q) /\ m * q \in Nat
  <2> HIDE DEF M, g, q, r
  <2> QED  BY <1>1, <1>2, SignSquares
<1>5. Val(o) - (s * m) * Quotient(Val(o), s * m) = g * r
  <2> DEFINE p == m * q
             Q == (s * m) * Quotient(Val(o), s * m)
  <2>1. Q = g * p /\ p \in Nat /\ M = p + r /\ Val(o) = g * M /\ r \in Nat
    BY <1>1, <1>2, <1>3, <1>4
  <2> HIDE DEF M, g, q, r, p, Q
  <2>2. Val(o) - Q = g * r
    <3>1. CASE g = 1
      BY <2>1, <3>1
    <3>2. CASE g = -1
      BY <2>1, <3>2
    <3> QED  BY <1>1, <3>1, <3>2
  <2> QED  BY <2>2 DEF Q
<1> QED  BY <1>2, <1>5

LEMMA QuotientByWordExact ==
  ASSUME IInv, MayAccept(x), NEW op \in {"fdivu64", "fdivi64"}, NEW v, NEW t \in {1, -1}, NEW m \in Limb \ {0},
         m = Mag(v), v = t * m, NEW s, s = x.sign * t, QuotientByWord(op, v, s)
  PROVE  FuncExact
<1> DEFINE M == Magnitude(x.d)
           g == x.sign
           V == Val(x)
           q == Quotient(V, v)
<1>1. /\ x \in Num /\ x.d \in Seq(Limb) /\ g \in {1, -1} /\ M \in Nat /\ m \in Nat \ {0} /\ Len(x.d) \in Nat
      /\ V = g * M /\ (x.d = <<>> => V = 0) /\ Mag(V) = M /\ V \in Int
  BY AcceptedNumber, ValOf, LimbsTyped
<1>2. (m = 1 => q = t * V) /\ (M < m => q = 0) /\ (x.d = <<>> => q = 0)
  <2>1. (m = 1 => Quotient(V, t * m) = t * V) /\ (M < m => Quotient(V, t * m) = 0)
    BY <1>1, SmallQuotient
  <2>2. x.d = <<>> => Quotient(V, t * m) = 0
    BY <1>1, QuotientOfNothing
  <2> QED  BY <2>1, <2>2
<1>3. t * V = s * M /\ s \in {1, -1}
  <2>1. CASE t = 1
    BY <1>1, <2>1
  <2>2. CASE t = -1
    BY <1>1, <2>2
  <2> QED  BY <2>1, <2>2
<1>4. CASE x.d = <<>> /\ ZeroResult(op, v, Zero)
  <2>1. Answer(op, v, Zero, 0)
    BY <1>2, <1>4, QuotientDue
  <2>2. Block(op, v, Zero, 0, <<>>, 1)
    BY <1>4 DEF ZeroResult
  <2> QED  BY <2>1, <2>2, ZeroAnswers
<1>5. CASE m = 1 /\ Duplicate(op, v, Zero, x, s)
  <2>1. Answer(op, v, Zero, s * M)
    BY <1>2, <1>3, <1>5, QuotientDue
  <2> QED  BY <1>1, <1>5, <2>1, DuplicateAnswers
<1>6. CASE Len(x.d) = 1 /\ m > 1 /\ ZeroResult(op, v, Zero)
  <2>1. Answer(op, v, Zero, 0)
    BY <1>1, <1>2, <1>6, QuotientDue
  <2>2. Block(op, v, Zero, 0, <<>>, 1)
    BY <1>6 DEF ZeroResult
  <2> QED  BY <2>1, <2>2, ZeroAnswers
<1>7. CASE Len(x.d) > 1 /\ m > 1 /\ Block(op, v, Zero, 0, x.d, s)
  <2>1. ~ (Len(x.d) <= Larger(1, 0)) /\ 0 \in Nat
    BY <1>1, <1>7 DEF Larger
  <2> DEFINE d == x.d
  <2> HIDE DEF d
  <2>2. ~ (Len(d) <= Larger(1, 0)) /\ Block(op, v, Zero, 0, d, s)
    BY <1>7, <2>1 DEF d
  <2> QED  BY <2>1, <2>2, BlockAnswers
<1> QED  BY <1>4, <1>5, <1>6, <1>7 DEF QuotientByWord

LEMMA FDivWordExact == IInv /\ FDivWord => FuncExact
<1> SUFFICES ASSUME IInv, FDivWord PROVE FuncExact
  OBVIOUS
<1>1. MayAccept(x)
  BY DEF FDivWord
<1>2. ASSUME NEW v \in Words \ {0}, QuotientByWord("fdivu64", v, x.sign) PROVE FuncExact
  <2>1. v \in Limb \ {0} /\ v = Mag(v) /\ v = 1 * v /\ x.sign = x.sign * 1
    <3>1. v \in Limb /\ v = Mag(v) /\ v \in Nat
      BY WordTyped, WordSigned
    <3>2. x.sign \in {1, -1}
      BY <1>1, AcceptedNumber
    <3> QED  BY <3>1, <3>2
  <2> QED  BY <1>1, <1>2, <2>1, QuotientByWordExact
<1>3. ASSUME NEW v \in IntWords \ {0}, QuotientByWord("fdivi64", v, x.sign * SignOf(v)) PROVE FuncExact
  <2> DEFINE t == SignOf(v)
             m == Mag(v)
             s == x.sign * t
  <2>1. m \in Limb \ {0} /\ t \in {1, -1} /\ v = t * m /\ s = x.sign * t /\ m = Mag(v) /\ QuotientByWord("fdivi64", v, s)
    BY <1>3, WordTyped
  <2> HIDE DEF t, m, s
  <2> QED  BY <1>1, <2>1, QuotientByWordExact
<1> QED  BY <1>2, <1>3 DEF FDivWord

\* The remainder of one limb, as the swapped helper leaves it.
LEMMA SwappedRemOne ==
  ASSUME NEW l \in Limb \ {0}, NEW m \in Limb \ {0}, l >= m
  PROVE  SwappedRem(<<l>>, m) = l % m
<1> DEFINE d == <<l>>
           r == SwappedRems(d, m)
<1>1. d \in Seq(Limb) /\ Len(d) = 1 /\ d[1] = l
  OBVIOUS
<1>2. r[0] = 0 /\ \A i \in 1 .. Len(d) : r[i] = SwappedStep(d[Len(d) + 1 - i], r[i - 1], m)
  BY <1>1, SwappedRemsOf
<1>3. l \in Nat \ {0} /\ m \in Nat \ {0} /\ Radix \in Nat
  BY LimbsTyped, ByteRangeDivides
<1> HIDE DEF r, d
<1>4. r[1] = SwappedStep(l, 0, m)
  <2>1. 1 \in 1 .. Len(d) /\ Len(d) + 1 - 1 = 1 /\ 1 - 1 = 0
    BY <1>1
  <2>2. r[1] = SwappedStep(d[Len(d) + 1 - 1], r[1 - 1], m)
    BY <1>2, <2>1
  <2> QED  BY <1>1, <1>2, <2>1, <2>2
<1>5. SwappedStep(l, 0, m) = l % m
  <2>1. ~ (l = 0)
    BY <1>3
  <2> QED  BY <2>1 DEF SwappedStep
<1> QED  BY <1>1, <1>4, <1>5 DEF SwappedRem, r, d

LEMMA RemainderByWordExact ==
  ASSUME IInv, MayAccept(x), NEW op \in {"fmodu64", "fmodi64"}, NEW v, NEW t \in {1, -1}, NEW m \in Limb \ {0},
         m = Mag(v), v = t * m, RemainderByWord(op, v)
  PROVE  FuncExact
<1> DEFINE M == Magnitude(x.d)
           g == x.sign
           due == Val(x) - v * Quotient(Val(x), v)
           rem == SwappedRem(x.d, m)
<1>1. /\ x \in Num /\ x.d \in Seq(Limb) /\ g \in {1, -1} /\ M \in Nat /\ m \in Nat \ {0} /\ Len(x.d) \in Nat
      /\ Val(x) = g * M /\ (x.d = <<>> => M = 0)
  BY AcceptedNumber, ValOf, LimbsTyped
<1>2. due = g * (M % m) /\ M % m \in 0 .. m - 1
  BY <1>1, RemainderSigned
<1>3. /\ m = 1 => M % m = 0
      /\ M < m => M % m = M
      /\ M = m => M % m = 0
  BY <1>1, SmallQuotient
<1>4. g * 0 = 0
  BY <1>1
<1>5. ASSUME M = 0 \/ m = 1 \/ M = m, ZeroResult(op, v, Zero) PROVE FuncExact
  <2>1. M % m = 0
    BY <1>1, <1>3, <1>5
  <2>2. due = 0
    BY <1>2, <1>4, <2>1
  <2>3. Answer(op, v, Zero, 0)
    BY <2>2, RemainderDue
  <2>4. Block(op, v, Zero, 0, <<>>, 1)
    BY <1>5 DEF ZeroResult
  <2> QED  BY <2>3, <2>4, ZeroAnswers
<1>6. ASSUME x.d # <<>>, MagCompWord(x.d, m) = -1, Duplicate(op, v, Zero, x, g) PROVE FuncExact
  <2>1. M < m
    BY <1>1, <1>6, MagCompWordOf
  <2>2. due = g * M
    BY <1>2, <1>3, <2>1
  <2>3. Answer(op, v, Zero, g * M)
    BY <2>2, RemainderDue
  <2> QED  BY <1>1, <1>6, <2>3, DuplicateAnswers
<1>7. ASSUME x.d # <<>>, MagCompWord(x.d, m) = 0, ZeroResult(op, v, Zero) PROVE FuncExact
  <2>1. M = m
    BY <1>1, <1>7, MagCompWordOf
  <2> QED  BY <1>5, <1>7, <2>1
<1>8. ASSUME x.d # <<>>, MagCompWord(x.d, m) = 1, OneWord(op, v, Zero, rem, RemSign(rem)) PROVE FuncExact
  <2>1. rem \in Limb /\ rem \in 0 .. m - 1
    BY <1>1, SwappedRemOf
  <2>2. ASSUME ~ Long(x) PROVE RemSign(rem) * rem = due
    <3>1. Len(x.d) = 1
      BY <1>1, <1>8, <2>2, LengthOf DEF Long
    <3> DEFINE l == x.d[1]
    <3>2. l \in Limb /\ l \in Nat /\ l # 0 /\ x.d = <<l>>
      BY <3>1, FirstLimb
    <3>3. l > m
      <4>1. Len(x.d) > 1 \/ x.d[1] > m
        BY <1>8 DEF MagCompWord
      <4> QED  BY <3>1, <4>1
    <3> HIDE DEF l
    <3>4. M = l
      BY <3>2, WordValue
    <3>5. rem = l % m
      BY <1>1, <3>2, <3>3, SwappedRemOne
    <3>6. M % m = rem
      BY <3>4, <3>5
    <3>7. CASE rem = 0
      BY <1>2, <1>4, <3>6, <3>7 DEF RemSign
    <3>8. CASE rem # 0
      BY <1>2, <3>6, <3>8 DEF RemSign
    <3> QED  BY <3>7, <3>8
  <2>3. Answer(op, v, Zero, RemSign(rem) * rem)
    BY <2>2, RemainderDue
  <2> HIDE DEF rem
  <2> QED  BY <1>8, <2>1, <2>3, WordAnswers
<1>9. ASSUME Fails(op, v, Zero, "DARENA_OVERFLOW") PROVE FuncExact
  BY <1>9, FailsAnswers
<1>10. \/ (x.d = <<>> \/ m = 1) /\ ZeroResult(op, v, Zero)
       \/ x.d # <<>> /\ MagCompWord(x.d, m) = -1 /\ Duplicate(op, v, Zero, x, g)
       \/ x.d # <<>> /\ MagCompWord(x.d, m) = 0 /\ ZeroResult(op, v, Zero)
       \/ x.d # <<>> /\ MagCompWord(x.d, m) = 1 /\ OneWord(op, v, Zero, rem, RemSign(rem))
       \/ Fails(op, v, Zero, "DARENA_OVERFLOW")
  BY DEF RemainderByWord
<1> HIDE DEF rem, due, g
<1>11. CASE (x.d = <<>> \/ m = 1) /\ ZeroResult(op, v, Zero)
  BY <1>1, <1>5, <1>11
<1> QED  BY <1>6, <1>7, <1>8, <1>9, <1>10, <1>11

\* A word and its sign and magnitude.
LEMMA UnsignedWord == \A v \in Words \ {0} : Mag(v) \in Limb \ {0} /\ v = 1 * Mag(v)
BY WordSigned, WordTyped, Zenon DEF Mag

LEMMA SignedWord == \A v \in IntWords \ {0} : Mag(v) \in Limb \ {0} /\ SignOf(v) \in {1, -1} /\ v = SignOf(v) * Mag(v)
BY WordTyped

LEMMA FModWordExact == IInv /\ FModWord => FuncExact
<1> SUFFICES ASSUME IInv, FModWord PROVE FuncExact
  OBVIOUS
<1>1. MayAccept(x)
  BY DEF FModWord
<1>2. ASSUME NEW v \in Words \ {0}, RemainderByWord("fmodu64", v) PROVE FuncExact
  BY <1>1, <1>2, UnsignedWord, RemainderByWordExact
<1>3. ASSUME NEW v \in IntWords \ {0}, RemainderByWord("fmodi64", v) PROVE FuncExact
  BY <1>1, <1>3, SignedWord, RemainderByWordExact
<1> QED  BY <1>2, <1>3 DEF FModWord

LEMMA MutEmodByWordExact ==
  ASSUME IInv, MayAccept(x), NEW op \in {"mut_emodu64", "mut_emodi64"}, NEW v \in (Words \cup IntWords) \ {0},
         MutEmodByWord(op, v)
  PROVE  FuncExact
<1> DEFINE m == Mag(v)
           reduced == Len(x.d) = 1 /\ x.d[1] < m /\ x.sign = 1
<1>1. x \in Num /\ x.d \in Seq(Limb) /\ Len(x.d) \in Nat /\ ArithValid(x)
  BY AcceptedNumber
<1>2. EmodWord(x, v) = Val(x) % m /\ m \in Limb \ {0}
  BY <1>1, EmodWordOf, UnsignedWord, SignedWord
<1>3. ASSUME m > 1, x.d = <<>> \/ reduced, Returns(op, v, Zero, x) PROVE FuncExact
  <2>1. CASE x.d = <<>>
    <3>1. Val(x) = 0 /\ EmodWord(x, v) = 0
      BY <1>1, <2>1, ValOf DEF EmodWord
    <3>2. Answer(op, v, Zero, Val(x))
      BY <1>2, <3>1, EmodDue
    <3> QED  BY <1>3, <3>2, ReturnsAnswers
  <2>2. CASE reduced /\ x.d # <<>>
    <3>1. EmodWord(x, v) = x.d[1]
      BY <1>2, <1>3, <2>2, LimbsTyped DEF EmodWord
    <3>2. x.d[1] \in Nat /\ x.d = <<x.d[1]>> /\ x.d[1] \in Limb
      BY <2>2, FirstLimb
    <3>3. Magnitude(x.d) = x.d[1]
      BY <3>2, WordValue
    <3>4. Val(x) = x.d[1]
      BY <2>2, <3>2, <3>3 DEF Val
    <3>5. Answer(op, v, Zero, Val(x))
      BY <1>2, <3>1, <3>4, EmodDue
    <3> QED  BY <1>3, <3>5, ReturnsAnswers
  <2> QED  BY <1>3, <2>1, <2>2
<1>4. ASSUME m = 1, Returns(op, v, Zero, ResetOf(x)) PROVE FuncExact
  <2>1. EmodWord(x, v) = 0
    <3>1. ASSUME Len(x.d) = 1 PROVE ~ (x.d[1] < Mag(v))
      BY <1>4, <3>1, FirstLimb
    <3> QED  BY <1>4, <3>1 DEF EmodWord
  <2>2. Val(ResetOf(x)) = 0
    BY <1>1, ResetTo
  <2>3. Answer(op, v, Zero, Val(ResetOf(x)))
    BY <1>2, <2>1, <2>2, EmodDue
  <2> QED  BY <1>4, <2>3, ReturnsAnswers
<1>5. ASSUME m > 1, x.d # <<>>, ~ reduced, Returns(op, v, Zero, [x EXCEPT !.d[1] = Emod(x, m), !.sign = 1])
      PROVE  FuncExact
  <2> DEFINE l == Emod(x, m)
             e == [x EXCEPT !.d[1] = l, !.sign = 1]
  <2>1. l \in Limb /\ l \in Nat
    BY <1>1, <1>2, EmodTyped, LimbsTyped
  <2>2. l = Val(x) % m
    <3>1. ~ (m = 1 \/ x.d = <<>>)
      BY <1>2, <1>5
    <3>2. ~ (Len(x.d) = 1 /\ x.sign = 1 /\ x.d[1] < m)
      BY <1>5
    <3>3. EmodWord(x, v) = Emod(x, m)
      BY <3>1, <3>2 DEF EmodWord
    <3> QED  BY <1>2, <3>3
  <2>3. e \in Num /\ e.d = [x.d EXCEPT ![1] = l] /\ Len(e.d) = Len(x.d) /\ e.sign = 1
    BY <1>1, <1>5, <2>1, LowestOf
  <2> HIDE DEF l
  <2>4. ASSUME ~ Long(x) PROVE Val(e) = l
    <3>1. Len(x.d) = 1
      BY <1>1, <1>5, <2>4, LengthOf DEF Long
    <3>2. x.d = <<x.d[1]>>
      BY <3>1, FirstLimb
    <3>3. e.d = <<l>>
      BY <2>3, <3>2
    <3>4. Magnitude(e.d) = l
      BY <2>1, <3>3, WordValue
    <3> QED  BY <2>1, <2>3, <3>4 DEF Val
  <2>5. Returns(op, v, Zero, e)
    BY <1>5 DEF l
  <2> HIDE DEF e, m
  <2>6. Answer(op, v, Zero, Val(e))
    <3>1. ~ Long(x) => Val(e) = Val(x) % Mag(v)
      BY <2>2, <2>4 DEF m
    <3> QED  BY <3>1, EmodDue
  <2> QED  BY <2>5, <2>6, ReturnsAnswers
<1> QED  BY <1>3, <1>4, <1>5 DEF MutEmodByWord

LEMMA MutEmodWordExact == IInv /\ MutEmodWord => FuncExact
<1> SUFFICES ASSUME IInv, MutEmodWord PROVE FuncExact
  OBVIOUS
<1>1. MayAccept(x)
  BY DEF MutEmodWord
<1>2. ASSUME NEW v \in (Words \cup IntWords) \ {0}, NEW op \in {"mut_emodu64", "mut_emodi64"}, MutEmodByWord(op, v)
      PROVE  FuncExact
  BY <1>1, <1>2, MutEmodByWordExact
<1> QED  BY <1>2 DEF MutEmodWord

-----------------------------------------------------------------------------
(* Arithmetic with another number: the values *)

LEMMA SumDue ==
  ASSUME NEW y, NEW op, NEW s, (op = "fadd" /\ s = y.sign) \/ (op = "fsub" /\ s = -y.sign), NEW w, NEW r,
         ~ SumCarries(y, s) => r = Val(x) + s * Magnitude(y.d)
  PROVE  Answer(op, w, y, r)
BY DEF Answer, WordAnswer, NumberAnswer, DivisorAnswer, PowerAnswer

LEMMA MagnitudeTyped == \A d \in Seq(Limb) : Magnitude(d) \in Nat
<1>1. ASSUME NEW d \in Seq(Limb) PROVE Magnitude(d) \in Nat
  <2>1. Len(d) \in Nat /\ Magnitude(d) = From(d, 1) /\ From(d, 1) \in Nat
    BY DigitTyped, FromOf, SMTT(60)
  <2> QED  BY <2>1
<1> QED  BY <1>1

LEMMA LimbAtOne ==
  ASSUME NEW a \in Limb, NEW i \in Nat \ {0}
  PROVE  LimbAt(<<a>>, i) = IF i = 1 THEN a ELSE 0
BY DEF LimbAt

\* The sum of two limbs, and their difference, where neither carries nor borrows.
LEMMA OneLimbSum ==
  ASSUME NEW a \in Limb, NEW b \in Limb
  PROVE  /\ a + b < Radix => Magnitude(MagAdd(<<a>>, <<b>>)) = a + b
         /\ a > b => Magnitude(MagSub(<<a>>, <<b>>)) = a - b
<1> DEFINE d == <<a>>
           e == <<b>>
<1>1. d \in Seq(Limb) /\ e \in Seq(Limb) /\ Magnitude(d) = a /\ Magnitude(e) = b
  BY WordValue
<1>2. a \in Nat /\ b \in Nat /\ Radix \in Nat /\ 0 < Radix
  BY LimbsTyped, ByteRangeDivides
<1>3. \A i \in Nat \ {0} : LimbAt(d, i) = (IF i = 1 THEN a ELSE 0) /\ LimbAt(e, i) = (IF i = 1 THEN b ELSE 0)
  BY LimbAtOne
<1> HIDE DEF d, e
<1>4. ASSUME a + b < Radix PROVE Magnitude(MagAdd(d, e)) = a + b
  <2>1. ASSUME NEW i \in Nat \ {0} PROVE LimbAt(d, i) + LimbAt(e, i) < Radix
    BY <1>2, <1>3, <1>4
  <2> QED  BY <1>1, <2>1, MagAddOf
<1>5. ASSUME a > b PROVE Magnitude(MagSub(d, e)) = a - b
  <2>1. ASSUME NEW i \in Nat \ {0} PROVE LimbAt(d, i) >= LimbAt(e, i)
    BY <1>2, <1>3, <1>5
  <2> DEFINE M == Magnitude(MagSub(d, e))
  <2>2. a = M + b
    BY <1>1, <2>1, MagSubOf
  <2>3. M \in Nat
    <3>1. MagSub(d, e) \in Seq(Limb)
      BY <1>1, MagSubOf
    <3> QED  BY <3>1, MagnitudeTyped
  <2> HIDE DEF M
  <2>4. M = a - b
    BY <1>2, <2>2, <2>3
  <2> QED  BY <2>4 DEF M
<1> QED  BY <1>4, <1>5 DEF d, e

LEMMA SumExact ==
  ASSUME IInv, MayAccept(x), NEW y \in Operands, MayAccept(y), NEW op, NEW s,
         (op = "fadd" /\ s = y.sign) \/ (op = "fsub" /\ s = -y.sign), Sum(op, y, s)
  PROVE  FuncExact
<1> DEFINE M == Magnitude(x.d)
           N == Magnitude(y.d)
           g == x.sign
           V == Val(x)
           due == V + s * N
           comp == MagComp(x.d, y.d)
<1>1. /\ x \in Num /\ x.d \in Seq(Limb) /\ g \in {1, -1} /\ M \in Nat /\ Len(x.d) \in Nat
      /\ V = g * M /\ Proper(x.d, g)
  BY AcceptedNumber, ValOf
<1>2. /\ y.d \in Seq(Limb) /\ y.sign \in {1, -1} /\ N \in Nat /\ Len(y.d) \in Nat /\ Proper(y.d, y.sign)
      /\ s \in {1, -1}
  BY AcceptedOperand, SignProduct
<1>3. Magnitude(<<>>) = 0
  BY WordValue
<1>4. ASSUME y.d = <<>>, Duplicate(op, 0, y, x, IF x.d = <<>> THEN 1 ELSE g) PROVE FuncExact
  <2> DEFINE t == IF x.d = <<>> THEN 1 ELSE g
  <2>1. x.d = <<>> => M = 0
    BY <1>3
  <2>2. due = V /\ t * M = V
    BY <1>1, <1>2, <1>3, <1>4, <2>1
  <2>3. Answer(op, 0, y, t * M)
    BY <2>2, SumDue
  <2>4. Duplicate(op, 0, y, x, t)
    BY <1>4
  <2> HIDE DEF t
  <2> QED  BY <1>1, <2>3, <2>4, DuplicateAnswers
<1>5. ASSUME x.d = <<>>, Duplicate(op, 0, y, y, s) PROVE FuncExact
  <2>1. due = s * N
    BY <1>1, <1>2, <1>3, <1>5
  <2>2. Answer(op, 0, y, s * N)
    BY <2>1, SumDue
  <2> QED  BY <1>2, <1>5, <2>2, DuplicateAnswers
<1>6. ASSUME g # s, comp = 0, ZeroResult(op, 0, y) PROVE FuncExact
  <2>1. x.d = y.d
    BY <1>1, <1>2, <1>6, MagCompOf
  <2>2. due = 0
    BY <1>1, <1>2, <1>6, <2>1
  <2>3. Answer(op, 0, y, 0)
    BY <2>2, SumDue
  <2>4. Block(op, 0, y, 0, <<>>, 1)
    BY <1>6 DEF ZeroResult
  <2> QED  BY <2>3, <2>4, ZeroAnswers
<1>7. ASSUME x.d # <<>>, y.d # <<>>, NEW d \in Seq(Limb), Len(d) >= Len(x.d), Len(d) >= Len(y.d), Len(d) <= Larger(1, 0)
      PROVE  \E a, b \in Limb : /\ x.d = <<a>> /\ y.d = <<b>> /\ M = a /\ N = b
                                /\ LimbAt(x.d, 1) = a /\ LimbAt(y.d, 1) = b /\ a \in Nat /\ b \in Nat
  <2>1. Larger(1, 0) = 1 /\ Len(d) \in Nat
    BY DigitTyped DEF Larger
  <2>2. Len(x.d) # 0 /\ Len(y.d) # 0
    BY <1>1, <1>2, <1>7, LengthOf
  <2>3. Len(x.d) = 1 /\ Len(y.d) = 1
    <3>1. \A m, n, k \in Nat : m # 0 /\ n # 0 /\ k >= m /\ k >= n /\ k <= 1 => m = 1 /\ n = 1
      OBVIOUS
    <3>2. Len(d) <= 1
      BY <1>7, <2>1
    <3> QED  BY <1>1, <1>2, <1>7, <2>1, <2>2, <3>1, <3>2, Zenon
  <2> DEFINE a == x.d[1]
             b == y.d[1]
  <2>4. x.d = <<a>> /\ y.d = <<b>> /\ a \in Limb /\ b \in Limb
    BY <1>1, <1>2, <2>3
  <2> HIDE DEF a, b
  <2>5. M = a /\ N = b
    BY <2>4, WordValue
  <2>6. LimbAt(x.d, 1) = a /\ LimbAt(y.d, 1) = b /\ a \in Nat /\ b \in Nat
    BY <2>4, LimbAtOne, LimbsTyped
  <2> QED  BY <2>4, <2>5, <2>6
<1>8. ASSUME x.d # <<>>, y.d # <<>>, g = s, Block(op, 0, y, 0, MagAdd(x.d, y.d), g) PROVE FuncExact
  <2> DEFINE d == MagAdd(x.d, y.d)
  <2>1. d \in Seq(Limb) /\ Len(d) >= Len(x.d) /\ Len(d) >= Len(y.d)
    BY <1>1, <1>2, MagAddOf, LargerOf
  <2>2. ASSUME Len(d) <= Larger(1, 0), ~ SumCarries(y, s) PROVE g * Magnitude(d) = due
    <3> HIDE DEF d
    <3>1. PICK a \in Limb, b \in Limb :
            /\ x.d = <<a>> /\ y.d = <<b>> /\ M = a /\ N = b
            /\ LimbAt(x.d, 1) = a /\ LimbAt(y.d, 1) = b /\ a \in Nat /\ b \in Nat
      BY <1>7, <1>8, <2>1, <2>2
    <3>2. ~ (a + b >= Radix) /\ Radix \in Nat
      BY <1>8, <2>2, <3>1, ByteRangeDivides DEF SumCarries
    <3>3. a + b < Radix
      BY <3>1, <3>2
    <3>4. Magnitude(d) = a + b
      BY <3>1, <3>3, OneLimbSum DEF d
    <3> QED  BY <1>1, <1>8, <3>1, <3>4
  <2>3. Len(d) <= Larger(1, 0) => Answer(op, 0, y, g * Magnitude(d))
    BY <2>2, SumDue
  <2>4. Block(op, 0, y, 0, d, g)
    BY <1>8
  <2> HIDE DEF d
  <2> QED  BY <2>3, <2>4, BlockAnswers
<1>9. ASSUME x.d # <<>>, y.d # <<>>, g # s, comp = 1, Block(op, 0, y, 0, MagSub(x.d, y.d), g) PROVE FuncExact
  <2> DEFINE d == MagSub(x.d, y.d)
  <2>1. d \in Seq(Limb) /\ Len(d) >= Len(x.d) /\ Len(d) >= Len(y.d)
    BY <1>1, <1>2, <1>9, MagSubOf, MagCompOf
  <2>2. ASSUME Len(d) <= Larger(1, 0) PROVE g * Magnitude(d) = due
    <3> HIDE DEF d
    <3>1. PICK a \in Limb, b \in Limb :
            /\ x.d = <<a>> /\ y.d = <<b>> /\ M = a /\ N = b
            /\ LimbAt(x.d, 1) = a /\ LimbAt(y.d, 1) = b /\ a \in Nat /\ b \in Nat
      BY <1>7, <1>9, <2>1, <2>2
    <3>2. M > N
      BY <1>1, <1>2, <1>9, MagCompOrders DEF Proper
    <3>3. Magnitude(d) = a - b
      BY <3>1, <3>2, OneLimbSum DEF d
    <3>4. g = -s
      BY <1>1, <1>2, <1>9
    <3> QED  BY <1>1, <1>2, <3>1, <3>3, <3>4
  <2>3. Len(d) <= Larger(1, 0) => Answer(op, 0, y, g * Magnitude(d))
    BY <2>2, SumDue
  <2>4. Block(op, 0, y, 0, d, g)
    BY <1>9
  <2> HIDE DEF d
  <2> QED  BY <2>3, <2>4, BlockAnswers
<1>10. ASSUME x.d # <<>>, y.d # <<>>, g # s, comp = -1, Block(op, 0, y, 0, MagSub(y.d, x.d), s) PROVE FuncExact
  <2> DEFINE d == MagSub(y.d, x.d)
  <2>1. d \in Seq(Limb) /\ Len(d) >= Len(x.d) /\ Len(d) >= Len(y.d)
    BY <1>1, <1>2, <1>10, MagSubOf, MagCompOf
  <2>2. ASSUME Len(d) <= Larger(1, 0) PROVE s * Magnitude(d) = due
    <3> HIDE DEF d
    <3>1. PICK a \in Limb, b \in Limb :
            /\ x.d = <<a>> /\ y.d = <<b>> /\ M = a /\ N = b
            /\ LimbAt(x.d, 1) = a /\ LimbAt(y.d, 1) = b /\ a \in Nat /\ b \in Nat
      BY <1>7, <1>10, <2>1, <2>2
    <3>2. N > M
      BY <1>1, <1>2, <1>10, MagCompOrders DEF Proper
    <3>3. Magnitude(d) = b - a
      BY <3>1, <3>2, OneLimbSum DEF d
    <3>4. g = -s
      BY <1>1, <1>2, <1>10
    <3> QED  BY <1>1, <1>2, <3>1, <3>3, <3>4
  <2>3. Len(d) <= Larger(1, 0) => Answer(op, 0, y, s * Magnitude(d))
    BY <2>2, SumDue
  <2>4. Block(op, 0, y, 0, d, s)
    BY <1>10
  <2> HIDE DEF d
  <2> QED  BY <2>3, <2>4, BlockAnswers
<1>11. \/ y.d = <<>> /\ Duplicate(op, 0, y, x, IF x.d = <<>> THEN 1 ELSE g)
       \/ x.d = <<>> /\ Duplicate(op, 0, y, y, s)
       \/ x.d # <<>> /\ y.d # <<>> /\ g = s /\ Block(op, 0, y, 0, MagAdd(x.d, y.d), g)
       \/ g # s /\ comp = 0 /\ ZeroResult(op, 0, y)
       \/ x.d # <<>> /\ y.d # <<>> /\ g # s /\ comp = 1 /\ Block(op, 0, y, 0, MagSub(x.d, y.d), g)
       \/ x.d # <<>> /\ y.d # <<>> /\ g # s /\ comp = -1 /\ Block(op, 0, y, 0, MagSub(y.d, x.d), s)
  BY DEF Sum
<1> HIDE DEF comp, g
<1> QED  BY <1>4, <1>5, <1>6, <1>8, <1>9, <1>10, <1>11

LEMMA FAddExact == IInv /\ (FAdd \/ FSub) => FuncExact
<1>1. ASSUME IInv, FAdd PROVE FuncExact
  <2>1. PICK y \in Operands : MayAccept(x) /\ MayAccept(y) /\ Sum("fadd", y, y.sign)
    BY <1>1 DEF FAdd
  <2> DEFINE s == y.sign
  <2>2. "fadd" = "fadd" /\ s = y.sign /\ Sum("fadd", y, s)
    BY <2>1
  <2> HIDE DEF s
  <2> QED  BY <1>1, <2>1, <2>2, SumExact
<1>2. ASSUME IInv, FSub PROVE FuncExact
  <2>1. PICK y \in Operands : MayAccept(x) /\ MayAccept(y) /\ Sum("fsub", y, -y.sign)
    BY <1>2 DEF FSub
  <2> DEFINE s == -y.sign
             op == "fsub"
  <2>2. ((op = "fadd" /\ s = y.sign) \/ (op = "fsub" /\ s = -y.sign)) /\ Sum(op, y, s)
    BY <2>1
  <2> HIDE DEF s, op
  <2> QED  BY <1>2, <2>1, <2>2, SumExact
<1> QED  BY <1>1, <1>2

LEMMA ObjectProductDue ==
  ASSUME NEW y, NEW w, NEW r, r = Val(x) * Val(y)
  PROVE  Answer("fmul", w, y, r)
BY DEF Answer, WordAnswer, NumberAnswer, DivisorAnswer, PowerAnswer

LEMMA ObjectQuotientDue ==
  ASSUME NEW op \in {"fdiv", "mut_div"}, NEW y, NEW w, NEW r, r = Quotient(Val(x), Val(y))
  PROVE  Answer(op, w, y, r)
BY DEF Answer, WordAnswer, NumberAnswer, DivisorAnswer, PowerAnswer

LEMMA ObjectRemainderDue ==
  ASSUME NEW op \in {"fmod", "mut_mod"}, NEW y, NEW w, NEW r, r = Val(x) - Val(y) * Quotient(Val(x), Val(y))
  PROVE  Answer(op, w, y, r)
BY DEF Answer, WordAnswer, NumberAnswer, DivisorAnswer, PowerAnswer

LEMMA ObjectEmodDue ==
  ASSUME NEW op \in {"emod", "mut_emod"}, NEW y, NEW w, NEW r, r = Val(x) % Magnitude(y.d)
  PROVE  Answer(op, w, y, r)
BY DEF Answer, WordAnswer, NumberAnswer, DivisorAnswer, PowerAnswer

\* The two operands of a call that accepts them.
LEMMA BothAccepted ==
  ASSUME IInv, MayAccept(x), NEW y \in Operands, MayAccept(y)
  PROVE  LET M == Magnitude(x.d)
             N == Magnitude(y.d)
         IN  /\ x \in Num /\ x.d \in Seq(Limb) /\ x.sign \in {1, -1} /\ M \in Nat /\ Val(x) = x.sign * M
             /\ y.d \in Seq(Limb) /\ y.sign \in {1, -1} /\ N \in Nat /\ Val(y) = y.sign * N
             /\ (x.d = <<>> => M = 0) /\ (y.d = <<>> => N = 0) /\ (y.d # <<>> => N \in Nat \ {0})
             /\ (IsOne(x) => M = 1) /\ (IsOne(y) => N = 1)
             /\ (x.d # <<>> => x.d[Len(x.d)] # 0) /\ (y.d # <<>> => y.d[Len(y.d)] # 0)
<1>1. /\ x \in Num /\ x.d \in Seq(Limb) /\ x.sign \in {1, -1} /\ Proper(x.d, x.sign) /\ Magnitude(x.d) \in Nat
      /\ Val(x) = x.sign * Magnitude(x.d)
  BY AcceptedNumber, ValOf
<1>2. y.d \in Seq(Limb) /\ y.sign \in {1, -1} /\ Proper(y.d, y.sign) /\ Magnitude(y.d) \in Nat
  BY AcceptedOperand
<1>3. /\ Val(y) = y.sign * Magnitude(y.d)
      /\ (IsOne(x) => Magnitude(x.d) = 1) /\ (IsOne(y) => Magnitude(y.d) = 1)
      /\ (x.d = <<>> => Magnitude(x.d) = 0) /\ (y.d = <<>> => Magnitude(y.d) = 0)
  BY WordValue, LimbsTyped DEF Val, IsOne
<1>4. (x.d # <<>> => x.d[Len(x.d)] # 0) /\ (y.d # <<>> => y.d[Len(y.d)] # 0)
  BY <1>1, <1>2 DEF Proper
<1>5. y.d # <<>> => Magnitude(y.d) # 0
  <2>1. CASE y.d # <<>>
    <3> DEFINE e == [d |-> y.d, cap |-> 1, sign |-> y.sign]
    <3>0. 1 \in Nat \ {0}
      OBVIOUS
    <3>1. e \in Num /\ e.d = y.d
      BY <1>2, <3>0, NumMade
    <3>2. ArithValid(e)
      BY <1>2, <1>4, <2>1, <3>1 DEF ArithValid
    <3> HIDE DEF e
    <3>3. Magnitude(e.d) > 0
      BY <2>1, <3>1, <3>2, Seen
    <3> QED  BY <1>2, <3>1, <3>3
  <2> QED  BY <2>1
<1> QED  BY <1>1, <1>2, <1>3, <1>4, <1>5

LEMMA FMulExact == IInv /\ FMul => FuncExact
<1> SUFFICES ASSUME IInv, FMul PROVE FuncExact
  OBVIOUS
<1>1. PICK y \in Operands :
        /\ MayAccept(x) /\ MayAccept(y)
        /\ \/ (x.d = <<>> \/ y.d = <<>>) /\ Block("fmul", 0, y, 0, <<>>, x.sign * y.sign)
           \/ IsOne(x) /\ Duplicate("fmul", 0, y, y, x.sign * y.sign)
           \/ IsOne(y) /\ Duplicate("fmul", 0, y, x, x.sign * y.sign)
           \/ \E p \in ArenaProducts(x.d, y.d, "OPERAND_FREED") :
                Hands("fmul", 0, y, [d |-> p.d, cap |-> Len(x.d) + Len(y.d), sign |-> x.sign * y.sign], p.status)
           \/ \E how \in {"DNML_ALLOC_OOM", "CRASH"} : Fails("fmul", 0, y, how)
  BY DEF FMul
<1> DEFINE s == x.sign * y.sign
           n == Len(x.d) + Len(y.d)
           M == Magnitude(x.d)
           N == Magnitude(y.d)
           due == Val(x) * Val(y)
<1>2. /\ x.d \in Seq(Limb) /\ x.sign \in {1, -1} /\ M \in Nat /\ Val(x) = x.sign * M
      /\ y.d \in Seq(Limb) /\ y.sign \in {1, -1} /\ N \in Nat /\ Val(y) = y.sign * N
      /\ (x.d = <<>> => M = 0) /\ (y.d = <<>> => N = 0) /\ (IsOne(x) => M = 1) /\ (IsOne(y) => N = 1)
  BY <1>1, BothAccepted
<1>3. s \in {1, -1} /\ due = s * (N * M) /\ due = s * (M * N) /\ s * 0 = 0
  <2> DEFINE g == x.sign
             h == y.sign
  <2>1. g \in {1, -1} /\ h \in {1, -1} /\ M \in Nat /\ N \in Nat /\ due = (g * M) * (h * N) /\ s = g * h
    BY <1>2
  <2> HIDE DEF g, h, M, N, due, s
  <2>2. (g * h) * (N * M) = (g * M) * (h * N) /\ g * h \in {1, -1} /\ (g * h) * 0 = 0 /\ N * M = M * N
    BY <2>1, SignedProducts
  <2> QED  BY <2>1, <2>2
<1> HIDE DEF M, N, due, s
<1>4. ASSUME x.d = <<>> \/ y.d = <<>>, Block("fmul", 0, y, 0, <<>>, s) PROVE FuncExact
  <2>1. M * N = 0
    BY <1>2, <1>4
  <2>2. due = 0
    BY <1>3, <2>1
  <2>3. Answer("fmul", 0, y, 0)
    BY <2>2, ObjectProductDue DEF due
  <2> QED  BY <1>3, <1>4, <2>3, ZeroAnswers
<1>5. ASSUME IsOne(x), Duplicate("fmul", 0, y, y, s) PROVE FuncExact
  <2>1. M * N = N
    BY <1>2, <1>5
  <2>2. Answer("fmul", 0, y, s * Magnitude(y.d))
    BY <1>3, <2>1, ObjectProductDue DEF due, N
  <2> QED  BY <1>2, <1>5, <2>2, DuplicateAnswers
<1>6. ASSUME IsOne(y), Duplicate("fmul", 0, y, x, s) PROVE FuncExact
  <2>1. M * N = M
    BY <1>2, <1>6
  <2>2. Answer("fmul", 0, y, s * Magnitude(x.d))
    BY <1>3, <2>1, ObjectProductDue DEF due, M
  <2> QED  BY <1>2, <1>6, <2>2, DuplicateAnswers
<1>7. ASSUME NEW p \in ArenaProducts(x.d, y.d, "OPERAND_FREED"),
             Hands("fmul", 0, y, [d |-> p.d, cap |-> n, sign |-> s], p.status)
      PROVE  FuncExact
  <2> DEFINE o == [d |-> p.d, cap |-> n, sign |-> s]
  <2>1. (p.d = Schoolbook(x.d, y.d)) \/ p.status = "POISONED"
    <3>1. \/ p = [d |-> Schoolbook(x.d, y.d), status |-> "OPERAND_FREED"]
          \/ p = [d |-> <<>>, status |-> "POISONED"]
      BY DEF ArenaProducts
    <3> QED  BY <3>1
  <2>2. Hands("fmul", 0, y, o, p.status) /\ o.d = p.d /\ o.sign = s
    BY <1>7
  <2> HIDE DEF o
  <2>3. CASE p.d = Schoolbook(x.d, y.d)
    <3>1. Magnitude(p.d) = M * N
      BY <1>2, <2>3, SchoolbookOf DEF M, N
    <3>2. Val(o) = due
      BY <1>3, <2>2, <3>1 DEF Val
    <3>3. Answer("fmul", 0, y, Val(o))
      BY <3>2, ObjectProductDue DEF due
    <3> QED  BY <2>2, <3>3, HandsAnswers
  <2>4. CASE p.status = "POISONED"
    <3>1. call'.status = "POISONED"
      BY <2>2, <2>4 DEF Hands
    <3> QED  BY <3>1, Answered
  <2> QED  BY <2>1, <2>3, <2>4
<1>8. ASSUME NEW how \in {"DNML_ALLOC_OOM", "CRASH"}, Fails("fmul", 0, y, how) PROVE FuncExact
  BY <1>8, FailsAnswers
<1> QED  BY <1>1, <1>4, <1>5, <1>6, <1>7, <1>8 DEF s, n

LEMMA HeapDivisionAnswers ==
  ASSUME NEW op, NEW y, HeapDivision(op, y)
  PROVE  FuncExact
BY FailsAnswers DEF HeapDivision

LEMMA NothingAnswers ==
  ASSUME NEW op, NEW w, NEW y, ZeroResult(op, w, y), Answer(op, w, y, 0)
  PROVE  FuncExact
BY ZeroAnswers DEF ZeroResult

\* Quotients and remainders of numbers in the cases the calls decide at once.
LEMMA DecidedDivision ==
  ASSUME IInv, MayAccept(x), NEW y \in Operands, MayAccept(y), y.d # <<>>
  PROVE  LET M == Magnitude(x.d)
             N == Magnitude(y.d)
             q == Quotient(Val(x), Val(y))
             r == Val(x) - Val(y) * q
         IN  /\ x.d = <<>> => q = 0 /\ r = 0 /\ Val(x) = 0 /\ M = 0 /\ Val(x) % N = 0
             /\ IsOne(y) => q = y.sign * Val(x) /\ q = (x.sign * y.sign) * M /\ r = 0 /\ Val(x) % N = 0
             /\ IsOne(x) /\ ~ IsOne(y) => q = 0
             /\ MagComp(x.d, y.d) = 0 => r = 0
             /\ MagComp(x.d, y.d) = -1 => /\ r = Val(x) /\ Val(x) = x.sign * M
                                          /\ x.sign = 1 => Val(x) % N = Val(x) /\ Val(x) = M
<1> DEFINE M == Magnitude(x.d)
           N == Magnitude(y.d)
           g == x.sign
           h == y.sign
           V == Val(x)
           q == Quotient(V, Val(y))
           r == V - Val(y) * q
<1>1. /\ x \in Num /\ x.d \in Seq(Limb) /\ g \in {1, -1} /\ M \in Nat /\ V = g * M
      /\ y.d \in Seq(Limb) /\ h \in {1, -1} /\ N \in Nat \ {0} /\ Val(y) = h * N
      /\ (x.d = <<>> => M = 0) /\ (IsOne(x) => M = 1) /\ (IsOne(y) => N = 1)
      /\ (x.d # <<>> => x.d[Len(x.d)] # 0) /\ y.d[Len(y.d)] # 0
  BY BothAccepted
<1>2. r = g * (M % N)
  BY <1>1, RemainderSigned
<1>3. /\ N = 1 => q = h * V /\ M % N = 0
      /\ M < N => q = 0 /\ M % N = M
      /\ M = N => M % N = 0
  BY <1>1, SmallQuotient
<1>4. g * 0 = 0 /\ V \in Int
  BY <1>1
<1>5. x.d = <<>> => q = 0 /\ r = 0 /\ V = 0 /\ M = 0 /\ V % N = 0
  <2>1. 0 % N = 0 /\ Quotient(0, h * N) = 0
    BY <1>1, QuotientOfNothing
  <2>2. M = 0 => M < N /\ V = 0
    BY <1>1, <1>4
  <2> QED  BY <1>1, <1>2, <1>3, <1>4, <2>1, <2>2
<1>6. IsOne(y) => q = h * V /\ q = (g * h) * M /\ r = 0 /\ V % N = 0
  <2>1. h * V = (g * h) * M
    <3>1. CASE g = 1
      BY <1>1, <3>1
    <3>2. CASE g = -1
      <4>1. h * (-M) = -(h * M) /\ (-h) * M = -(h * M) /\ (-1) * h = -h
        BY <1>1
      <4> QED  BY <1>1, <3>2, <4>1
    <3> QED  BY <1>1, <3>1, <3>2
  <2>2. V % 1 = 0
    BY <1>4
  <2> QED  BY <1>1, <1>2, <1>3, <1>4, <2>1, <2>2
<1>7. IsOne(x) /\ ~ IsOne(y) => q = 0
  <2>1. ASSUME IsOne(x), ~ IsOne(y) PROVE M < N
    <3>1. N # 1
      <4> DEFINE e == [d |-> y.d, cap |-> 1, sign |-> h]
      <4>0. 1 \in Nat \ {0}
        OBVIOUS
      <4>1. e \in Num /\ e.d = y.d
        BY <1>1, <4>0, NumMade
      <4>2. ArithValid(e)
        BY <1>1, <4>1 DEF ArithValid
      <4> HIDE DEF e
      <4>3. Long(e) => Magnitude(e.d) >= Radix
        BY <4>1, <4>2, Seen
      <4>4. ~ Long(e) => (e.d = <<1>> <=> Magnitude(e.d) = 1)
        BY <4>1, <4>2, Seen, LimbsTyped
      <4>5. Radix \in Nat /\ Radix >= 2
        BY ByteRangeDivides
      <4> QED  BY <1>1, <2>1, <4>1, <4>3, <4>4, <4>5 DEF IsOne
    <3> QED  BY <1>1, <2>1, <3>1
  <2> QED  BY <1>3, <2>1
<1>8. MagComp(x.d, y.d) = 0 => r = 0
  <2>1. MagComp(x.d, y.d) = 0 => M = N
    BY <1>1, MagCompOrders
  <2> QED  BY <1>2, <1>3, <1>4, <2>1
<1>9. MagComp(x.d, y.d) = -1 => r = V /\ V = g * M /\ (g = 1 => V % N = V /\ V = M)
  <2>1. MagComp(x.d, y.d) = -1 => M < N
    BY <1>1, MagCompOrders
  <2>2. g = 1 => V = M
    BY <1>1
  <2> QED  BY <1>1, <1>2, <1>3, <2>1, <2>2
<1> QED  BY <1>5, <1>6, <1>7, <1>8, <1>9

\* A number put back whole, or reset, answers with its value, or with zero.
LEMMA ResetAnswers ==
  ASSUME x \in Num, NEW op, NEW w, NEW y, Returns(op, w, y, ResetOf(x)), Answer(op, w, y, 0)
  PROVE  FuncExact
<1>1. Val(ResetOf(x)) = 0
  BY ResetTo
<1> QED  BY <1>1, ReturnsAnswers

LEMMA FDivExact == IInv /\ FDiv => FuncExact
<1> SUFFICES ASSUME IInv, FDiv PROVE FuncExact
  OBVIOUS
<1>1. PICK y \in Operands :
        /\ MayAccept(x) /\ MayAccept(y) /\ y.d # <<>>
        /\ \/ x.d = <<>> /\ ZeroResult("fdiv", 0, y)
           \/ IsOne(y) /\ Duplicate("fdiv", 0, y, x, x.sign * y.sign)
           \/ IsOne(x) /\ ~IsOne(y) /\ ZeroResult("fdiv", 0, y)
           \/ HeapDivision("fdiv", y)
  BY DEF FDiv
<1> DEFINE q == Quotient(Val(x), Val(y))
           s == x.sign * y.sign
<1>2. /\ x.d = <<>> => q = 0
      /\ IsOne(y) => q = s * Magnitude(x.d)
      /\ IsOne(x) /\ ~ IsOne(y) => q = 0
      /\ x.d \in Seq(Limb)
  BY <1>1, DecidedDivision, AcceptedNumber
<1> HIDE DEF s
<1>3. ASSUME q = 0, ZeroResult("fdiv", 0, y) PROVE FuncExact
  <2>1. Answer("fdiv", 0, y, 0)
    BY <1>3, ObjectQuotientDue
  <2> QED  BY <1>3, <2>1, NothingAnswers
<1>4. ASSUME IsOne(y), Duplicate("fdiv", 0, y, x, s) PROVE FuncExact
  <2>1. Answer("fdiv", 0, y, s * Magnitude(x.d))
    BY <1>2, <1>4, ObjectQuotientDue
  <2> QED  BY <1>2, <1>4, <2>1, DuplicateAnswers
<1>5. CASE HeapDivision("fdiv", y)
  BY <1>5, HeapDivisionAnswers
<1> HIDE DEF q
<1> QED  BY <1>1, <1>2, <1>3, <1>4, <1>5 DEF s

LEMMA MutDivExact == IInv /\ MutDiv => FuncExact
<1> SUFFICES ASSUME IInv, MutDiv PROVE FuncExact
  OBVIOUS
<1>1. PICK y \in Operands :
        /\ MayAccept(x) /\ MayAccept(y) /\ y.d # <<>>
        /\ \/ IsOne(y) /\ Returns("mut_div", 0, y, [x EXCEPT !.sign = @ * y.sign])
           \/ ~IsOne(y) /\ IsOne(x) /\ Returns("mut_div", 0, y, ResetOf(x))
           \/ x.d = <<>> /\ Returns("mut_div", 0, y, x)
           \/ HeapDivision("mut_div", y)
  BY DEF MutDiv
<1> DEFINE q == Quotient(Val(x), Val(y))
           h == y.sign
<1>2. /\ x.d = <<>> => q = 0 /\ Val(x) = 0
      /\ IsOne(y) => q = h * Val(x)
      /\ IsOne(x) /\ ~ IsOne(y) => q = 0
      /\ x \in Num /\ h \in {1, -1} /\ Val(x) \in Int
  <2>1. x \in Num
    BY <1>1, AcceptedNumber
  <2>2. Val(x) \in Int /\ h \in {1, -1}
    BY <1>1, <2>1, ValOf, OperandTyped
  <2> QED  BY <1>1, <2>1, <2>2, DecidedDivision
<1> HIDE DEF h, q
<1>3. ASSUME IsOne(y), Returns("mut_div", 0, y, [x EXCEPT !.sign = @ * h]) PROVE FuncExact
  <2> DEFINE e == [x EXCEPT !.sign = @ * h]
  <2>1. Val(e) = Val(x) * h
    BY <1>2, SignedOf
  <2>2. Val(e) = q
    BY <1>2, <1>3, <2>1
  <2>3. Answer("mut_div", 0, y, Val(e))
    BY <2>2, ObjectQuotientDue DEF q
  <2>4. Returns("mut_div", 0, y, e)
    BY <1>3
  <2> HIDE DEF e
  <2> QED  BY <2>3, <2>4, ReturnsAnswers
<1>4. ASSUME q = 0, Returns("mut_div", 0, y, ResetOf(x)) PROVE FuncExact
  <2>1. Answer("mut_div", 0, y, 0)
    BY <1>4, ObjectQuotientDue DEF q
  <2> QED  BY <1>2, <1>4, <2>1, ResetAnswers
<1>5. ASSUME x.d = <<>>, Returns("mut_div", 0, y, x) PROVE FuncExact
  <2>1. Answer("mut_div", 0, y, Val(x))
    BY <1>2, <1>5, ObjectQuotientDue DEF q
  <2> QED  BY <1>5, <2>1, ReturnsAnswers
<1>6. CASE HeapDivision("mut_div", y)
  BY <1>6, HeapDivisionAnswers
<1> QED  BY <1>1, <1>2, <1>3, <1>4, <1>5, <1>6 DEF h

LEMMA FModExact == IInv /\ FMod => FuncExact
<1> SUFFICES ASSUME IInv, FMod PROVE FuncExact
  OBVIOUS
<1>1. PICK y \in Operands :
        /\ MayAccept(x) /\ MayAccept(y) /\ y.d # <<>>
        /\ \/ (x.d = <<>> \/ IsOne(y) \/ MagComp(x.d, y.d) = 0) /\ ZeroResult("fmod", 0, y)
           \/ MagComp(x.d, y.d) = -1 /\ Duplicate("fmod", 0, y, x, x.sign)
           \/ HeapDivision("fmod", y)
  BY DEF FMod
<1> DEFINE r == Val(x) - Val(y) * Quotient(Val(x), Val(y))
           s == x.sign
<1>2. /\ x.d = <<>> \/ IsOne(y) \/ MagComp(x.d, y.d) = 0 => r = 0
      /\ MagComp(x.d, y.d) = -1 => r = s * Magnitude(x.d)
      /\ x.d \in Seq(Limb)
  BY <1>1, DecidedDivision, AcceptedNumber
<1> HIDE DEF s
<1>3. ASSUME r = 0, ZeroResult("fmod", 0, y) PROVE FuncExact
  <2>1. Answer("fmod", 0, y, 0)
    BY <1>3, ObjectRemainderDue
  <2> QED  BY <1>3, <2>1, NothingAnswers
<1>4. ASSUME MagComp(x.d, y.d) = -1, Duplicate("fmod", 0, y, x, s) PROVE FuncExact
  <2>1. Answer("fmod", 0, y, s * Magnitude(x.d))
    BY <1>2, <1>4, ObjectRemainderDue
  <2> QED  BY <1>2, <1>4, <2>1, DuplicateAnswers
<1>5. CASE HeapDivision("fmod", y)
  BY <1>5, HeapDivisionAnswers
<1> HIDE DEF r
<1> QED  BY <1>1, <1>2, <1>3, <1>4, <1>5 DEF s

LEMMA MutModExact == IInv /\ MutMod => FuncExact
<1> SUFFICES ASSUME IInv, MutMod PROVE FuncExact
  OBVIOUS
<1>1. PICK y \in Operands :
        /\ MayAccept(x) /\ MayAccept(y) /\ y.d # <<>>
        /\ \/ (IsOne(y) \/ MagComp(x.d, y.d) = 0) /\ Returns("mut_mod", 0, y, ResetOf(x))
           \/ MagComp(x.d, y.d) = -1 /\ Returns("mut_mod", 0, y, x)
           \/ HeapDivision("mut_mod", y)
  BY DEF MutMod
<1> DEFINE r == Val(x) - Val(y) * Quotient(Val(x), Val(y))
<1>2. /\ IsOne(y) \/ MagComp(x.d, y.d) = 0 => r = 0
      /\ MagComp(x.d, y.d) = -1 => r = Val(x)
      /\ x \in Num
  BY <1>1, DecidedDivision, AcceptedNumber
<1>3. ASSUME r = 0, Returns("mut_mod", 0, y, ResetOf(x)) PROVE FuncExact
  <2>1. Answer("mut_mod", 0, y, 0)
    BY <1>3, ObjectRemainderDue
  <2> QED  BY <1>2, <1>3, <2>1, ResetAnswers
<1>4. ASSUME MagComp(x.d, y.d) = -1, Returns("mut_mod", 0, y, x) PROVE FuncExact
  <2>1. Answer("mut_mod", 0, y, Val(x))
    BY <1>2, <1>4, ObjectRemainderDue
  <2> QED  BY <1>4, <2>1, ReturnsAnswers
<1>5. CASE HeapDivision("mut_mod", y)
  BY <1>5, HeapDivisionAnswers
<1> HIDE DEF r
<1> QED  BY <1>1, <1>2, <1>3, <1>4, <1>5

LEMMA MutEmodExact == IInv /\ MutEmod => FuncExact
<1> SUFFICES ASSUME IInv, MutEmod PROVE FuncExact
  OBVIOUS
<1>1. PICK y \in Operands :
        /\ MayAccept(x) /\ MayAccept(y) /\ y.d # <<>>
        /\ \/ IsOne(y) /\ Returns("mut_emod", 0, y, ResetOf(x))
           \/ MagComp(x.d, y.d) = -1 /\ x.sign = 1 /\ Returns("mut_emod", 0, y, x)
           \/ HeapDivision("mut_emod", y)
  BY DEF MutEmod, EuclidDivision
<1> DEFINE r == Val(x) % Magnitude(y.d)
<1>2. /\ IsOne(y) => r = 0
      /\ MagComp(x.d, y.d) = -1 /\ x.sign = 1 => r = Val(x)
      /\ x \in Num
  BY <1>1, DecidedDivision, AcceptedNumber
<1>3. ASSUME IsOne(y), Returns("mut_emod", 0, y, ResetOf(x)) PROVE FuncExact
  <2>1. Answer("mut_emod", 0, y, 0)
    BY <1>2, <1>3, ObjectEmodDue
  <2> QED  BY <1>2, <1>3, <2>1, ResetAnswers
<1>4. ASSUME MagComp(x.d, y.d) = -1 /\ x.sign = 1, Returns("mut_emod", 0, y, x) PROVE FuncExact
  <2>1. Answer("mut_emod", 0, y, Val(x))
    BY <1>2, <1>4, ObjectEmodDue
  <2> QED  BY <1>4, <2>1, ReturnsAnswers
<1>5. CASE HeapDivision("mut_emod", y)
  BY <1>5, HeapDivisionAnswers
<1> HIDE DEF r
<1> QED  BY <1>1, <1>2, <1>3, <1>4, <1>5

LEMMA FEmodExact == IInv /\ FEmod => FuncExact
<1> SUFFICES ASSUME IInv, FEmod PROVE FuncExact
  OBVIOUS
<1>1. PICK y \in Operands :
        /\ MayAccept(x) /\ MayAccept(y) /\ y.d # <<>>
        /\ \/ (x.d = <<>> \/ IsOne(y)) /\ ZeroResult("emod", 0, y)
           \/ MagComp(x.d, y.d) = -1 /\ x.sign = 1 /\ Duplicate("emod", 0, y, x, x.sign)
           \/ HeapDivision("emod", y)
  BY DEF FEmod, EuclidDivision
<1> DEFINE r == Val(x) % Magnitude(y.d)
           s == x.sign
<1>2. /\ x.d = <<>> \/ IsOne(y) => r = 0
      /\ MagComp(x.d, y.d) = -1 /\ s = 1 => r = s * Magnitude(x.d)
      /\ x.d \in Seq(Limb)
  BY <1>1, DecidedDivision, AcceptedNumber
<1> HIDE DEF s
<1>3. ASSUME r = 0, ZeroResult("emod", 0, y) PROVE FuncExact
  <2>1. Answer("emod", 0, y, 0)
    BY <1>3, ObjectEmodDue
  <2> QED  BY <1>3, <2>1, NothingAnswers
<1>4. ASSUME MagComp(x.d, y.d) = -1 /\ s = 1, Duplicate("emod", 0, y, x, s) PROVE FuncExact
  <2>1. Answer("emod", 0, y, s * Magnitude(x.d))
    BY <1>2, <1>4, ObjectEmodDue
  <2> QED  BY <1>2, <1>4, <2>1, DuplicateAnswers
<1>5. CASE HeapDivision("emod", y)
  BY <1>5, HeapDivisionAnswers
<1> HIDE DEF r
<1> QED  BY <1>1, <1>2, <1>3, <1>4, <1>5 DEF s

-----------------------------------------------------------------------------
(* Greatest common divisors: the values *)

LEMMA DivisorDue ==
  ASSUME NEW y, NEW w, NEW r, ~ EvenWords(y) => Mag(r) = GcdOf(Magnitude(x.d), Magnitude(y.d))
  PROVE  Answer("gcd", w, y, r)
BY DEF Answer, WordAnswer, NumberAnswer, DivisorAnswer, PowerAnswer

\* A divisor of zero is the other number.
LEMMA GcdOfNothing ==
  ASSUME NEW u \in Nat
  PROVE  GcdOf(0, u) = u /\ GcdOf(u, 0) = u
BY DEF GcdOf

LEMMA GcdWordsExact ==
  ASSUME IInv, MayAccept(x), NEW y \in Operands, MayAccept(y), Len(x.d) = 1, Len(y.d) = 1,
         GcdWord("gcd", 0, y, x.d[1], y.d[1])
  PROVE  FuncExact
<1> DEFINE u == x.d[1]
           v == y.d[1]
           g == BinaryGcd(u, v)
<1>1. /\ x.d \in Seq(Limb) /\ Proper(x.d, x.sign) /\ y.d \in Seq(Limb) /\ Proper(y.d, y.sign)
      /\ u \in Limb /\ v \in Limb
  BY AcceptedNumber, AcceptedOperand, DigitTyped
<1>2. x.d = <<u>> /\ y.d = <<v>> /\ <<u>> # <<>> /\ <<v>> # <<>>
  BY <1>1
<1>3. u # 0 /\ v # 0
  BY <1>1, <1>2 DEF Proper
<1>4. Magnitude(x.d) = u /\ Magnitude(y.d) = v
  BY <1>1, <1>2, WordValue
<1>5. u \in Nat /\ v \in Nat /\ u < Radix /\ v < Radix /\ Radix \in Nat
  BY <1>1, LimbsTyped, ByteRangeDivides
<1>6. EvenWords(y) <=> u # 0 /\ v # 0 /\ u % 2 = 0 /\ v % 2 = 0
  BY <1>4 DEF EvenWords, Long
<1> HIDE DEF u, v
<1>7. g \in Nat /\ (g <= u \/ g <= v)
  BY <1>5, BinaryGcdOf
<1>8. CASE BinaryGcdEnds(u, v) /\ OneWord("gcd", 0, y, g, 1)
  <2>1. ~ EvenWords(y) => g = GcdOf(u, v)
    BY <1>5, <1>6, <1>8, BinaryGcdExact
  <2> HIDE DEF g
  <2>2. g \in Limb /\ Mag(1 * g) = g
    BY <1>5, <1>7 DEF Limb, Mag
  <2>3. Answer("gcd", 0, y, 1 * g)
    BY <1>4, <2>1, <2>2, DivisorDue
  <2> QED  BY <1>8, <2>2, <2>3, WordAnswers
<1>9. CASE Fails("gcd", 0, y, "DIVERGES")
  BY <1>9, FailsAnswers
<1> QED  BY <1>8, <1>9 DEF GcdWord, u, v

LEMMA SteinCallExact ==
  ASSUME IInv, MayAccept(x), NEW y \in Operands, MayAccept(y), x.d # <<>>, y.d # <<>>,
         LET n == Larger(Len(x.d), Len(y.d))
         IN  Block("gcd", 0, y, n, Limbs(Stein(Magnitude(x.d), Magnitude(y.d)), n), 1)
  PROVE  FuncExact
<1> DEFINE u == Magnitude(x.d)
           v == Magnitude(y.d)
           g == Stein(u, v)
           n == Larger(Len(x.d), Len(y.d))
           d == Limbs(g, n)
<1>1. /\ x.d \in Seq(Limb) /\ Proper(x.d, x.sign) /\ Len(x.d) \in Nat
      /\ y.d \in Seq(Limb) /\ Proper(y.d, y.sign) /\ Len(y.d) \in Nat
  BY AcceptedNumber, AcceptedOperand
<1>2. /\ u \in Nat /\ u < ByteRange(Len(x.d) * LimbBytes)
      /\ v \in Nat /\ v < ByteRange(Len(y.d) * LimbBytes)
  BY <1>1, MagnitudeBelow
<1>3. u # 0 /\ v # 0
  BY <1>1, NotNothing DEF Proper
<1>4. Block("gcd", 0, y, n, d, 1)
  OBVIOUS
<1>5. g \in Nat /\ g = GcdOf(u, v) /\ (g <= u \/ g <= v)
  <2> HIDE DEF u, v
  <2> QED  BY <1>2, <1>3, SteinOf, SteinExact
<1>6. n \in Nat /\ g < ByteRange(n * LimbBytes)
  <2> HIDE DEF u, v, g
  <2> QED  BY <1>1, <1>2, <1>5, LongestRange
<1> HIDE DEF g, n
<1>7. Magnitude(d) = g
  BY <1>5, <1>6, LimbsOf
<1>8. Mag(1 * Magnitude(d)) = GcdOf(u, v)
  <2> HIDE DEF d, u, v
  <2> QED  BY <1>5, <1>7 DEF Mag
<1>9. Answer("gcd", 0, y, 1 * Magnitude(d))
  BY <1>8, DivisorDue
<1> HIDE DEF d
<1> QED  BY <1>4, <1>6, <1>9, BlockAnswers

LEMMA GcdCallExact == IInv /\ Gcd => FuncExact
<1> SUFFICES ASSUME IInv, Gcd PROVE FuncExact
  OBVIOUS
<1>1. PICK y \in Operands :
        /\ MayAccept(x) /\ MayAccept(y)
        /\ \/ x.d = <<>> /\ Shares("gcd", 0, y, y)
           \/ y.d = <<>> /\ Hands("gcd", 0, y, x, "SHARED")
           \/ Len(x.d) = 1 /\ Len(y.d) = 1 /\ GcdWord("gcd", 0, y, x.d[1], y.d[1])
           \/ /\ x.d # <<>> /\ y.d # <<>>
              /\ \/ LET n == Larger(Len(x.d), Len(y.d))
                    IN  Block("gcd", 0, y, n, Limbs(Stein(Magnitude(x.d), Magnitude(y.d)), n), 1)
                 \/ Fails("gcd", 0, y, "UNDEFINED")
  BY DEF Gcd
<1>2. /\ x \in Num /\ x.d \in Seq(Limb) /\ Magnitude(x.d) \in Nat /\ Mag(Val(x)) = Magnitude(x.d)
      /\ y.d \in Seq(Limb) /\ y.sign \in {1, -1} /\ Magnitude(y.d) \in Nat /\ Len(y.d) \in Nat
      /\ (x.d = <<>> => Magnitude(x.d) = 0) /\ (y.d = <<>> => Magnitude(y.d) = 0)
  BY <1>1, AcceptedNumber, AcceptedOperand, ValOf, WordValue
<1>3. CASE x.d = <<>> /\ Shares("gcd", 0, y, y)
  <2> DEFINE c == Larger(1, Len(y.d))
             o == [d |-> y.d, cap |-> c, sign |-> y.sign]
  <2>1. c \in Nat \ {0}
    BY <1>2 DEF Larger
  <2> HIDE DEF c
  <2>2. o \in Num /\ o.d = y.d
    BY <1>2, <2>1, NumMade
  <2>3. Hands("gcd", 0, y, o, "SHARED")
    BY <1>3 DEF Shares, c
  <2> HIDE DEF o
  <2>4. Mag(Val(o)) = Magnitude(y.d)
    BY <2>2, ValOf
  <2>5. Mag(Val(o)) = GcdOf(Magnitude(x.d), Magnitude(y.d))
    BY <1>2, <1>3, <2>4, GcdOfNothing
  <2>6. Answer("gcd", 0, y, Val(o))
    BY <2>5, DivisorDue
  <2> QED  BY <2>3, <2>6, HandsAnswers
<1>4. CASE y.d = <<>> /\ Hands("gcd", 0, y, x, "SHARED")
  <2>1. Mag(Val(x)) = GcdOf(Magnitude(x.d), Magnitude(y.d))
    BY <1>2, <1>4, GcdOfNothing
  <2>2. Answer("gcd", 0, y, Val(x))
    BY <2>1, DivisorDue
  <2> QED  BY <1>4, <2>2, HandsAnswers
<1>5. CASE Fails("gcd", 0, y, "UNDEFINED")
  BY <1>5, FailsAnswers
<1> QED  BY <1>1, <1>3, <1>4, <1>5, GcdWordsExact, SteinCallExact

-----------------------------------------------------------------------------
(* Squares and powers: the values *)

LEMMA PowerDue ==
  ASSUME NEW op \in {"mut_pow", "pow"}, NEW w, NEW y, NEW r,
         ~ Rounds(w) /\ (op = "mut_pow" => w <= 2) => r = Power(Val(x), w)
  PROVE  Answer(op, w, y, r)
BY DEF Answer, WordAnswer, NumberAnswer, DivisorAnswer, PowerAnswer

LEMMA SquareDue ==
  ASSUME NEW op \in {"mut_sqr", "sqr"}, NEW w, NEW y, NEW r, r = Val(x) * Val(x)
  PROVE  Answer(op, w, y, r)
BY DEF Answer, WordAnswer, NumberAnswer, DivisorAnswer, PowerAnswer

\* The base of a square or a power.
LEMMA BaseOf ==
  ASSUME IInv, MayAccept(x)
  PROVE  LET M == Magnitude(x.d)
         IN  /\ x \in Num /\ x.d \in Seq(Limb) /\ x.sign \in {1, -1} /\ M \in Nat
             /\ Val(x) \in Int /\ Val(x) = x.sign * M /\ Val(x) * Val(x) = M * M
             /\ (x.d = <<>> => M = 0 /\ Val(x) = 0) /\ (IsOne(x) => M = 1)
             /\ (Len(x.d) = 1 => x.d[1] = M /\ M \in Limb)
<1> DEFINE M == Magnitude(x.d)
           s == x.sign
<1>1. /\ x \in Num /\ x.d \in Seq(Limb) /\ s \in {1, -1} /\ M \in Nat
      /\ Val(x) \in Int /\ Val(x) = s * M
      /\ (x.d = <<>> => M = 0 /\ Val(x) = 0) /\ (IsOne(x) => M = 1)
  BY AcceptedNumber, ValOf
<1>2. Len(x.d) = 1 => x.d[1] = M /\ M \in Limb
  BY FirstLimb, WordValue
<1> HIDE DEF M, s
<1>3. (s * M) * (s * M) = M * M
  BY <1>1
<1> QED  BY <1>1, <1>2, <1>3 DEF M, s

\* A square has the value that is due of a square, and of a power of two.
LEMMA SquareAnswers ==
  ASSUME IInv, MayAccept(x), NEW op \in {"mut_sqr", "sqr", "mut_pow", "pow"}, NEW w,
         op \in {"mut_pow", "pow"} => w = 2, NEW y, NEW r, r = Magnitude(x.d) * Magnitude(x.d)
  PROVE  Answer(op, w, y, r)
<1>1. r = Val(x) * Val(x) /\ Val(x) \in Int
  BY BaseOf
<1>2. CASE op \in {"mut_sqr", "sqr"}
  BY <1>1, <1>2, SquareDue
<1>3. CASE op \in {"mut_pow", "pow"}
  <2>1. r = Power(Val(x), w)
    BY <1>1, <1>3, SmallPowers
  <2> QED  BY <1>3, <2>1, PowerDue
<1> QED  BY <1>2, <1>3

LEMMA MutSqrExact ==
  ASSUME IInv, MayAccept(x), NEW op \in {"mut_sqr", "mut_pow"}, NEW w, op = "mut_pow" => w = 2, MutSqr(op, w)
  PROVE  FuncExact
<1> DEFINE M == Magnitude(x.d)
           l == x.d[1]
           n == Len(x.d)
           q == l * l
           Q == SquareOf(l)
<1>1. x \in Num /\ x.d \in Seq(Limb) /\ M \in Nat /\ (n = 1 => l = M /\ l \in Limb) /\ (x.d = <<>> => M = 0 /\ Val(x) = 0)
  BY BaseOf
<1>2. ASSUME NEW r, r = M * M PROVE Answer(op, w, Zero, r)
  BY <1>2, SquareAnswers
<1>3. \/ n = 0 /\ Returns(op, w, Zero, x)
      \/ n = 1 /\ (l < HalfMax \/ l = 1) /\ Returns(op, w, Zero, [x EXCEPT !.d = <<q>>, !.sign = 1])
      \/ n = 1 /\ Reserving(op, w, Zero, 2, [EnsCap(x, 2) EXCEPT !.d = Q, !.sign = 1])
      \/ n > 1 /\ \E p \in ArenaProducts(x.d, x.d, "SUCCESS") :
                    Hands(op, w, Zero, [d |-> p.d, cap |-> 2 * n, sign |-> 1], p.status)
      \/ \E how \in {"DNML_ALLOC_OOM", "CRASH"} : Fails(op, w, Zero, how)
  BY DEF MutSqr
<1>4. CASE n = 0 /\ Returns(op, w, Zero, x)
  <2>1. M = 0 /\ Val(x) = 0
    BY <1>1, <1>4, LengthOf
  <2>2. Val(x) = M * M
    BY <2>1
  <2>3. Answer(op, w, Zero, Val(x))
    BY <1>2, <2>2
  <2> QED  BY <1>4, <2>3, ReturnsAnswers
<1>5. CASE n = 1 /\ (l < HalfMax \/ l = 1) /\ Returns(op, w, Zero, [x EXCEPT !.d = <<q>>, !.sign = 1])
  <2> DEFINE c == x.cap
             o == [d |-> <<q>>, cap |-> c, sign |-> 1]
  <2>1. q \in Limb /\ q = M * M
    BY <1>1, <1>5, FirstLimb, HalfOf
  <2> HIDE DEF q, M
  <2>2. [x EXCEPT !.d = <<q>>, !.sign = 1] = o
    <3> DEFINE f == <<q>>
    <3> HIDE DEF f
    <3>1. x \in Num
      BY <1>1
    <3>2. [x EXCEPT !.d = f, !.sign = 1] = [d |-> f, cap |-> x.cap, sign |-> 1]
      BY <3>1, ExceptSigned
    <3> QED  BY <3>2 DEF f
  <2>3. Val(o) = q
    <3>1. Magnitude(<<q>>) = q /\ q \in Nat
      BY <2>1, WordValue, LimbsTyped
    <3> QED  BY <3>1 DEF Val
  <2> HIDE DEF o
  <2>4. Answer(op, w, Zero, Val(o))
    BY <1>2, <2>1, <2>3
  <2> QED  BY <1>5, <2>2, <2>4, ReturnsAnswers
<1>6. CASE n = 1 /\ Reserving(op, w, Zero, 2, [EnsCap(x, 2) EXCEPT !.d = Q, !.sign = 1])
  <2> DEFINE e == EnsCap(x, 2)
             c == e.cap
             o == [d |-> Q, cap |-> c, sign |-> 1]
  <2>1. Q \in Seq(Limb) /\ Magnitude(Q) = l * l /\ l = M
    BY <1>1, <1>6, SquareOfTyped, SquareOfValue
  <2>2. e \in Num
    BY <1>1, Reserved
  <2> HIDE DEF e, Q, l, M
  <2>3. [e EXCEPT !.d = Q, !.sign = 1] = o
    BY <2>2, ExceptSigned
  <2>4. Val(o) = M * M
    <3>1. Val(o) = 1 * Magnitude(Q)
      BY DEF Val
    <3> QED  BY <1>1, <2>1, <3>1
  <2>5. Returns(op, w, Zero, o) \/ Fails(op, w, Zero, "DNML_ALLOC_OOM")
    BY <1>6, <2>3 DEF Reserving, e
  <2> HIDE DEF o
  <2>6. Answer(op, w, Zero, Val(o))
    BY <1>2, <2>4
  <2> QED  BY <2>5, <2>6, ReturnsAnswers, FailsAnswers
<1>7. ASSUME NEW p \in ArenaProducts(x.d, x.d, "SUCCESS"),
             Hands(op, w, Zero, [d |-> p.d, cap |-> 2 * n, sign |-> 1], p.status)
      PROVE  FuncExact
  <2> DEFINE o == [d |-> p.d, cap |-> 2 * n, sign |-> 1]
  <2>1. (p.d = Schoolbook(x.d, x.d)) \/ p.status = "POISONED"
    <3>1. \/ p = [d |-> Schoolbook(x.d, x.d), status |-> "SUCCESS"]
          \/ p = [d |-> <<>>, status |-> "POISONED"]
      BY DEF ArenaProducts
    <3> QED  BY <3>1
  <2>2. Hands(op, w, Zero, o, p.status) /\ o.d = p.d /\ o.sign = 1
    BY <1>7
  <2> HIDE DEF o
  <2>3. CASE p.d = Schoolbook(x.d, x.d)
    <3>1. Magnitude(p.d) = M * M
      BY <1>1, <2>3, SchoolbookOf
    <3>2. Val(o) = M * M
      <4> HIDE DEF M
      <4> QED  BY <1>1, <2>2, <3>1 DEF Val
    <3>3. Answer(op, w, Zero, Val(o))
      BY <1>2, <3>2
    <3> QED  BY <2>2, <3>3, HandsAnswers
  <2>4. CASE p.status = "POISONED"
    <3>1. call'.status = "POISONED"
      BY <2>2, <2>4 DEF Hands
    <3> QED  BY <3>1, Answered
  <2> QED  BY <2>1, <2>3, <2>4
<1>8. ASSUME NEW how \in {"DNML_ALLOC_OOM", "CRASH"}, Fails(op, w, Zero, how) PROVE FuncExact
  BY <1>8, FailsAnswers
<1> HIDE DEF n, q, Q
<1> QED  BY <1>3, <1>4, <1>5, <1>6, <1>7, <1>8

LEMMA FSqrExact ==
  ASSUME IInv, MayAccept(x), NEW op \in {"sqr", "pow"}, NEW w, op = "pow" => w = 2, FSqr(op, w)
  PROVE  FuncExact
<1> DEFINE M == Magnitude(x.d)
           l == x.d[1]
           n == Len(x.d)
           q == l * l
           Q == SquareOf(l)
           P == Schoolbook(x.d, x.d)
<1>1. x.d \in Seq(Limb) /\ M \in Nat /\ (n = 1 => l = M /\ l \in Limb) /\ (x.d = <<>> => M = 0)
  BY BaseOf
<1>2. ASSUME NEW r, r = M * M PROVE Answer(op, w, Zero, r)
  BY <1>2, SquareAnswers
<1>3. \/ n = 0 /\ ZeroResult(op, w, Zero)
      \/ n = 1 /\ (l < HalfMax \/ l = 1) /\ OneWord(op, w, Zero, q, 1)
      \/ n = 1 /\ Block(op, w, Zero, 2, Q, 1)
      \/ Block(op, w, Zero, 2 * n, P, 1)
      \/ Fails(op, w, Zero, "CRASH")
  BY DEF FSqr
<1>4. CASE n = 0 /\ ZeroResult(op, w, Zero)
  <2>1. M = 0
    BY <1>1, <1>4, LengthOf
  <2>2. 0 = M * M
    BY <2>1
  <2>3. Answer(op, w, Zero, 0)
    BY <1>2, <2>2
  <2> QED  BY <1>4, <2>3, NothingAnswers
<1>5. CASE n = 1 /\ (l < HalfMax \/ l = 1) /\ OneWord(op, w, Zero, q, 1)
  <2>1. q \in Limb /\ q = M * M
    BY <1>1, <1>5, FirstLimb, HalfOf
  <2> HIDE DEF q, M
  <2>2. 1 * q = M * M
    BY <2>1, LimbsTyped
  <2>3. Answer(op, w, Zero, 1 * q)
    BY <1>2, <2>2
  <2> QED  BY <1>5, <2>1, <2>3, WordAnswers
<1>6. CASE n = 1 /\ Block(op, w, Zero, 2, Q, 1)
  <2>1. Magnitude(Q) = l * l /\ l = M
    BY <1>1, <1>6, SquareOfValue
  <2> HIDE DEF Q, l, M
  <2>2. 1 * Magnitude(Q) = M * M
    BY <1>1, <2>1
  <2>3. Answer(op, w, Zero, 1 * Magnitude(Q)) /\ 2 \in Nat
    BY <1>2, <2>2
  <2> QED  BY <1>6, <2>3, BlockAnswers
<1>7. CASE Block(op, w, Zero, 2 * n, P, 1)
  <2> DEFINE k == 2 * n
  <2>1. Magnitude(P) = M * M
    BY <1>1, SchoolbookOf
  <2>2. k \in Nat
    BY <1>1, DigitTyped
  <2> HIDE DEF P, M, k
  <2>3. 1 * Magnitude(P) = M * M
    BY <1>1, <2>1
  <2>4. Answer(op, w, Zero, 1 * Magnitude(P))
    BY <1>2, <2>3
  <2>5. Block(op, w, Zero, k, P, 1)
    BY <1>7 DEF k
  <2> QED  BY <2>2, <2>4, <2>5, BlockAnswers
<1>8. CASE Fails(op, w, Zero, "CRASH")
  BY <1>8, FailsAnswers
<1> HIDE DEF n, q, Q, P
<1> QED  BY <1>3, <1>4, <1>5, <1>6, <1>7, <1>8

LEMMA SquaresExact == IInv /\ Squares => FuncExact
<1> SUFFICES ASSUME IInv, Squares PROVE FuncExact
  OBVIOUS
<1>1. MayAccept(x) /\ (MutSqr("mut_sqr", 0) \/ FSqr("sqr", 0))
  BY DEF Squares
<1> QED  BY <1>1, MutSqrExact, FSqrExact

\* A power that __SAFE_EXP__ lets through is a word.
LEMMA SafePower ==
  ASSUME NEW l \in Limb, NEW e \in Nat \ {0}, SafeExp(l, e)
  PROVE  Power(l, e) \in Limb
<1>1. l \in Nat /\ Radix \in Nat
  BY LimbsTyped, ByteRangeDivides
<1>2. CASE e = 1
  <2>1. Power(l, 1) = l
    BY <1>1, SmallPowers
  <2> QED  BY <1>2, <2>1
<1>3. CASE e = 2
  <2>1. l <= HalfMax
    BY <1>3 DEF SafeExp
  <2>2. Power(l, 2) = l * l
    BY <1>1, SmallPowers
  <2>3. l * l \in Limb
    BY <2>1, HalfOf
  <2> QED  BY <1>3, <2>2, <2>3
<1>4. CASE e > 2
  <2>1. Power(l, e) < Radix
    BY <1>4 DEF SafeExp
  <2>2. Power(l, e) \in Nat
    BY <1>1, PowerNoLess
  <2> HIDE DEF Radix
  <2> QED  BY <1>1, <2>1, <2>2 DEF Limb
<1> QED  BY <1>2, <1>3, <1>4

\* The sign of an even power, and the power of the magnitude, make the power.
LEMMA SignedPower ==
  ASSUME IInv, MayAccept(x), NEW e \in Nat
  PROVE  EvenPowSign(e) * Power(Magnitude(x.d), e) = Power(Val(x), e) /\ EvenPowSign(e) \in {1, -1}
<1> DEFINE M == Magnitude(x.d)
           s == x.sign
<1>1. Val(x) = s * M /\ s \in {1, -1} /\ M \in Nat
  BY BaseOf
<1>2. EvenPowSign(e) = IF e % 2 = 0 THEN 1 ELSE s
  BY DEF EvenPowSign
<1> HIDE DEF M, s
<1>3. Power(s * M, e) = (IF e % 2 = 0 THEN 1 ELSE s) * Power(M, e)
  BY <1>1, PowerSigned
<1> QED  BY <1>1, <1>2, <1>3 DEF M

\* The double of the power of one limb, when no double comes between.
LEMMA PowDoubleDue ==
  ASSUME IInv, MayAccept(x), Len(x.d) = 1, NEW e \in Nat \ {0}, SafeExp(x.d[1], e),
         NEW p \in PowDouble(x.d[1], e), NEW op \in {"mut_pow", "pow"}, NEW y
  PROVE  Answer(op, e, y, EvenPowSign(e) * p)
<1> DEFINE M == Magnitude(x.d)
<1>1. x.d[1] = M /\ M \in Limb /\ M \in Nat
  BY BaseOf, LimbsTyped
<1>2. ASSUME ~ Rounds(e) PROVE p = Power(M, e)
  <2>1. RawLimb(x) = M /\ ~ Long(x)
    <3>1. x.d # <<>>
      BY FirstLimb
    <3> QED  BY <1>1, <3>1 DEF RawLimb, Long
  <2>2. ~ (Power(M, e) > TwoTo(MantissaBits))
    BY <1>1, <1>2, <2>1 DEF Rounds
  <2>3. SafeExp(M, e) /\ p \in PowDouble(M, e)
    BY <1>1
  <2> HIDE DEF M
  <2>4. Power(M, e) \in Limb /\ Power(M, e) \in Nat
    BY <1>1, <2>3, SafePower, LimbsTyped
  <2>5. TwoTo(MantissaBits) \in Nat
    BY TwoToOf, FuncAssumption
  <2>6. Power(M, e) <= TwoTo(MantissaBits)
    BY <2>2, <2>4, <2>5
  <2>7. PowDouble(M, e) = {Power(M, e)}
    BY <1>1, <2>4, <2>6, PowDoubleExact
  <2> QED  BY <2>3, <2>7
<1>3. EvenPowSign(e) * Power(M, e) = Power(Val(x), e)
  BY SignedPower
<1> HIDE DEF M
<1>4. ~ Rounds(e) => EvenPowSign(e) * p = Power(Val(x), e)
  BY <1>2, <1>3
<1> QED  BY <1>4, PowerDue

LEMMA MutPowExact == IInv /\ MutPow => FuncExact
<1> SUFFICES ASSUME IInv, MutPow PROVE FuncExact
  OBVIOUS
<1>1. PICK e \in 0 .. MaxExp :
        /\ MayAccept(x)
        /\ \/ e = 0 /\ Returns("mut_pow", e, Zero, [x EXCEPT !.d = <<1>>, !.sign = 1])
           \/ e > 0 /\ (x.d = <<>> \/ e = 1) /\ Returns("mut_pow", e, Zero, x)
           \/ /\ e > 1 /\ Len(x.d) = 1 /\ SafeExp(x.d[1], e)
              /\ \E p \in PowDouble(x.d[1], e) :
                   Returns("mut_pow", e, Zero, [x EXCEPT !.d = <<p>>, !.sign = EvenPowSign(e)])
           \/ e = 2 /\ MutSqr("mut_pow", e)
           \/ e > 2 /\ Returns("mut_pow", e, Zero, x)
           \/ \E how \in {"DNML_ALLOC_OOM", "CRASH"} : Fails("mut_pow", e, Zero, how)
  BY DEF MutPow
<1>2. e \in Nat
  BY <1>1, ExpWord
<1>3. x \in Num /\ Val(x) \in Int /\ (x.d = <<>> => Val(x) = 0)
  BY <1>1, BaseOf
<1>4. CASE e = 0 /\ Returns("mut_pow", e, Zero, [x EXCEPT !.d = <<1>>, !.sign = 1])
  <2> DEFINE c == x.cap
             o == [d |-> <<1>>, cap |-> c, sign |-> 1]
  <2>1. [x EXCEPT !.d = <<1>>, !.sign = 1] = o
    BY <1>3, ExceptSigned
  <2>2. Magnitude(<<1>>) = 1
    BY WordValue, LimbsTyped
  <2>3. Val(o) = 1
    BY <2>2 DEF Val
  <2> HIDE DEF o
  <2>4. Val(o) = Power(Val(x), e)
    BY <1>3, <1>4, <2>3, SmallPowers
  <2>5. Answer("mut_pow", e, Zero, Val(o))
    BY <2>4, PowerDue
  <2> QED  BY <1>4, <2>1, <2>5, ReturnsAnswers
<1>5. CASE e > 0 /\ (x.d = <<>> \/ e = 1) /\ Returns("mut_pow", e, Zero, x)
  <2>1. Power(Val(x), e) = Val(x)
    <3>1. CASE e = 1
      BY <1>3, <3>1, SmallPowers
    <3>2. CASE x.d = <<>>
      <4>1. 0 \in Nat /\ e \in Nat \ {0}
        BY <1>2, <1>5
      <4>2. Power(0, e) = 0
        BY <4>1, PowerNoLess
      <4> QED  BY <1>3, <3>2, <4>2
    <3> QED  BY <1>5, <3>1, <3>2
  <2>2. Answer("mut_pow", e, Zero, Val(x))
    BY <2>1, PowerDue
  <2> QED  BY <1>5, <2>2, ReturnsAnswers
<1>6. ASSUME e > 1, Len(x.d) = 1, SafeExp(x.d[1], e), NEW p \in PowDouble(x.d[1], e),
             Returns("mut_pow", e, Zero, [x EXCEPT !.d = <<p>>, !.sign = EvenPowSign(e)])
      PROVE  FuncExact
  <2> DEFINE c == x.cap
             s == EvenPowSign(e)
             o == [d |-> <<p>>, cap |-> c, sign |-> s]
  <2>1. [x EXCEPT !.d = <<p>>, !.sign = s] = o
    BY <1>3, ExceptSigned
  <2>2. p \in Limb
    BY PowDoubleTyped
  <2>3. Magnitude(<<p>>) = p
    BY <2>2, WordValue
  <2>4. Val(o) = s * p
    BY <2>3 DEF Val
  <2>5. e \in Nat \ {0}
    BY <1>2, <1>6
  <2>6. Answer("mut_pow", e, Zero, s * p)
    BY <1>1, <1>6, <2>5, PowDoubleDue
  <2> HIDE DEF s
  <2>7. Returns("mut_pow", e, Zero, o)
    BY <1>6, <2>1 DEF s
  <2> HIDE DEF o
  <2> QED  BY <2>4, <2>6, <2>7, ReturnsAnswers
<1>7. CASE e = 2 /\ MutSqr("mut_pow", e)
  BY <1>1, <1>7, MutSqrExact
<1>8. CASE e > 2 /\ Returns("mut_pow", e, Zero, x)
  <2>1. ~ (e <= 2)
    BY <1>2, <1>8
  <2>2. Answer("mut_pow", e, Zero, Val(x))
    BY <2>1, PowerDue
  <2> QED  BY <1>8, <2>2, ReturnsAnswers
<1>9. ASSUME NEW how \in {"DNML_ALLOC_OOM", "CRASH"}, Fails("mut_pow", e, Zero, how) PROVE FuncExact
  BY <1>9, FailsAnswers
<1> QED  BY <1>1, <1>4, <1>5, <1>6, <1>7, <1>8, <1>9

LEMMA FPowExact == IInv /\ FPow => FuncExact
<1> SUFFICES ASSUME IInv, FPow PROVE FuncExact
  OBVIOUS
<1>1. PICK e \in 0 .. MaxExp :
        /\ MayAccept(x)
        /\ \/ e = 2 /\ FSqr("pow", e)
           \/ e = 0 /\ OneWord("pow", e, Zero, 1, 1)
           \/ e \notin {0, 2} /\ x.d = <<>> /\ ZeroResult("pow", e, Zero)
           \/ IsOne(x) /\ OneWord("pow", e, Zero, 1, EvenPowSign(e))
           \/ /\ e \notin {0, 2} /\ Len(x.d) = 1 /\ SafeExp(x.d[1], e)
              /\ \E p \in PowDouble(x.d[1], e) : OneWord("pow", e, Zero, p, EvenPowSign(e))
           \/ e = 1 /\ Duplicate("pow", e, Zero, x, x.sign)
           \/ Block("pow", e, Zero, BinaryExp(x.d, e).cap, BinaryExp(x.d, e).acc, EvenPowSign(e))
           \/ Fails("pow", e, Zero, "CRASH")
  BY DEF FPow
<1> DEFINE M == Magnitude(x.d)
           s == EvenPowSign(e)
<1>2. e \in Nat
  BY <1>1, ExpWord
<1>3. /\ x.d \in Seq(Limb) /\ Val(x) \in Int /\ M \in Nat /\ Val(x) = x.sign * M
      /\ (x.d = <<>> => M = 0) /\ (IsOne(x) => M = 1)
  BY <1>1, BaseOf
<1>4. s * Power(M, e) = Power(Val(x), e) /\ s \in {1, -1} /\ Power(M, e) \in Nat
  <2>1. s * Power(M, e) = Power(Val(x), e) /\ s \in {1, -1}
    BY <1>1, <1>2, SignedPower
  <2>2. M \in Int /\ (M \in Nat => Power(M, e) \in Nat)
    BY <1>2, <1>3, PowerStep
  <2> QED  BY <1>3, <2>1, <2>2
<1>5. ASSUME NEW r, r = Power(Val(x), e) PROVE Answer("pow", e, Zero, r)
  BY <1>5, PowerDue
<1>6. CASE e = 2 /\ FSqr("pow", e)
  BY <1>1, <1>6, FSqrExact
<1>7. CASE e = 0 /\ OneWord("pow", e, Zero, 1, 1)
  <2>1. Power(Val(x), e) = 1 * 1 /\ 1 \in Limb
    BY <1>3, <1>7, SmallPowers, LimbsTyped
  <2>2. Answer("pow", e, Zero, 1 * 1)
    BY <1>5, <2>1
  <2> QED  BY <1>7, <2>1, <2>2, WordAnswers
<1>8. CASE e \notin {0, 2} /\ x.d = <<>> /\ ZeroResult("pow", e, Zero)
  <2>1. e \in Nat \ {0} /\ 0 \in Nat /\ M = 0
    BY <1>2, <1>3, <1>8
  <2>2. Power(0, e) = 0
    BY <2>1, PowerNoLess
  <2>3. 0 = Power(Val(x), e)
    BY <1>4, <2>1, <2>2
  <2>4. Answer("pow", e, Zero, 0)
    BY <1>5, <2>3
  <2> QED  BY <1>8, <2>4, NothingAnswers
<1>9. CASE IsOne(x) /\ OneWord("pow", e, Zero, 1, s)
  <2>1. M = 1 /\ 1 \in {1, -1} /\ 1 \in Nat /\ 1 \in Limb
    BY <1>3, <1>9, LimbsTyped
  <2>2. Power(1, e) = 1
    BY <1>2, OnePower
  <2>3. s * 1 = Power(Val(x), e)
    BY <1>4, <2>1, <2>2
  <2> HIDE DEF s
  <2>4. Answer("pow", e, Zero, s * 1)
    BY <1>5, <2>3
  <2> QED  BY <1>9, <2>1, <2>4, WordAnswers
<1>10. ASSUME e \notin {0, 2}, Len(x.d) = 1, SafeExp(x.d[1], e), NEW p \in PowDouble(x.d[1], e),
              OneWord("pow", e, Zero, p, s)
       PROVE  FuncExact
  <2>1. e \in Nat \ {0} /\ p \in Limb
    BY <1>2, <1>10, PowDoubleTyped
  <2>2. Answer("pow", e, Zero, s * p)
    BY <1>1, <1>10, <2>1, PowDoubleDue
  <2> HIDE DEF s
  <2> QED  BY <1>10, <2>1, <2>2, WordAnswers
<1>11. CASE e = 1 /\ Duplicate("pow", e, Zero, x, x.sign)
  <2>1. x.sign * Magnitude(x.d) = Power(Val(x), e)
    BY <1>3, <1>11, SmallPowers
  <2>2. Answer("pow", e, Zero, x.sign * Magnitude(x.d))
    BY <1>5, <2>1
  <2> QED  BY <1>3, <1>11, <2>2, DuplicateAnswers
<1>12. CASE Block("pow", e, Zero, BinaryExp(x.d, e).cap, BinaryExp(x.d, e).acc, s)
  <2> DEFINE b == BinaryExp(x.d, e)
             c == b.cap
             a == b.acc
  <2>1. c \in Nat /\ Magnitude(a) = Power(M, e)
    BY <1>2, <1>3, BinaryExpOf, BinaryExpValue
  <2>2. Block("pow", e, Zero, c, a, s)
    BY <1>12
  <2> HIDE DEF a, c, s, M
  <2>3. Answer("pow", e, Zero, s * Magnitude(a))
    BY <1>4, <1>5, <2>1
  <2> QED  BY <2>1, <2>2, <2>3, BlockAnswers
<1>13. CASE Fails("pow", e, Zero, "CRASH")
  BY <1>13, FailsAnswers
<1> QED  BY <1>1, <1>6, <1>7, <1>8, <1>9, <1>10, <1>11, <1>12, <1>13

-----------------------------------------------------------------------------
(* The calls that answer nothing, and the step *)

\* The call is none of those that answer.
Quiet == call'.op \notin Answering

LEMMA QuietExact == Quiet => FuncExact
BY NotAnswering, Answered DEF Quiet

LEMMA QuietHands ==
  ASSUME NEW op, op \notin Answering, NEW w, NEW y, NEW o, NEW status, Hands(op, w, y, o, status)
  PROVE  Quiet
<1>1. call' = [op |-> op, word |-> w, y |-> y, status |-> status]
  BY DEF Hands
<1> QED  BY <1>1 DEF Quiet

LEMMA QuietReturns ==
  ASSUME NEW op, op \notin Answering, NEW w, NEW y, NEW o, Returns(op, w, y, o)
  PROVE  Quiet
BY QuietHands DEF Returns

LEMMA QuietFails ==
  ASSUME NEW op, op \notin Answering, NEW w, NEW y, NEW status, Fails(op, w, y, status)
  PROVE  Quiet
<1>1. call' = [op |-> op, word |-> w, y |-> y, status |-> status]
  BY DEF Fails
<1> QED  BY <1>1 DEF Quiet

LEMMA QuietReserving ==
  ASSUME NEW op, op \notin Answering, NEW w, NEW y, NEW k, NEW o, Reserving(op, w, y, k, o)
  PROVE  Quiet
BY QuietReturns, QuietFails DEF Reserving

LEMMA QuietBlock ==
  ASSUME NEW op, op \notin Answering, NEW w, NEW y, NEW k, NEW d, NEW s, Block(op, w, y, k, d, s)
  PROVE  Quiet
BY QuietReturns, QuietFails DEF Block

LEMMA QuietDuplicate ==
  ASSUME NEW op, op \notin Answering, NEW w, NEW y, NEW o, NEW s, Duplicate(op, w, y, o, s)
  PROVE  Quiet
BY QuietBlock DEF Duplicate

LEMMA QuietZero ==
  ASSUME NEW op, op \notin Answering, NEW w, NEW y, ZeroResult(op, w, y)
  PROVE  Quiet
BY QuietBlock DEF ZeroResult

LEMMA QuietWord ==
  ASSUME NEW op, op \notin Answering, NEW w, NEW y, NEW v, NEW s,
         OneWord(op, w, y, v, s) \/ OneWordUnchecked(op, w, y, v, s)
  PROVE  Quiet
BY QuietBlock, QuietReturns, QuietFails DEF OneWord, OneWordUnchecked

LEMMA QuietInPlace == Next => Quiet
<1> USE DEF Answering
<1>1. Renew => Quiet
  BY DEF Renew, New, Quiet
<1>2. Refused => Quiet
  BY QuietFails DEF Refused, WordOps, IntOps, ObjectOps
<1>3. DivisionByZero => Quiet
  BY QuietFails DEF DivisionByZero, WordOps, IntOps
<1>4. GetWord => Quiet
  BY QuietReturns DEF GetWord
<1>5. CopyWord => Quiet
  BY QuietReturns DEF CopyWord
<1>6. DCopyWord => Quiet
  BY QuietReturns, QuietFails DEF DCopyWord
<1>7. MutCopy => Quiet
  BY QuietReserving, QuietFails DEF MutCopy
<1>8. MutDCopy => Quiet
  BY QuietReturns, QuietFails DEF MutDCopy
<1>9. CopyIfFits => Quiet
  BY QuietReturns, QuietFails DEF CopyIfFits
<1>10. CopyTruncated => Quiet
  BY QuietReturns, QuietFails DEF CopyTruncated
<1>11. MutReset => Quiet
  BY QuietReturns DEF MutReset
<1>12. MutNormalize => Quiet
  BY QuietReturns DEF MutNormalize
<1>13. Reserve => Quiet
  BY QuietReserving DEF Reserve
<1>14. Resize => Quiet
  BY QuietReturns, QuietFails DEF Resize
<1>15. Shrink => Quiet
  BY QuietReturns, QuietFails DEF Shrink
<1>16. MutMulU64 => Quiet
  BY QuietReturns, QuietReserving DEF MutMulU64
<1>17. MutMulI64 => Quiet
  BY QuietReturns, QuietReserving DEF MutMulI64
<1>18. MutDivU64 => Quiet
  BY QuietReturns DEF MutDivU64
<1>19. MutDivI64 => Quiet
  BY QuietReturns DEF MutDivI64
<1>20. MutModU64 => Quiet
  BY QuietReturns DEF MutModU64
<1>21. MutModI64 => Quiet
  BY QuietReturns DEF MutModI64
<1>22. MutAdd => Quiet
  BY QuietReturns, QuietReserving DEF MutAdd
<1>23. MutSub => Quiet
  BY QuietReturns, QuietReserving DEF MutSub
<1>24. MutMul => Quiet
  BY QuietReturns, QuietReserving, QuietFails DEF MutMul
<1> QED  BY <1>1, <1>2, <1>3, <1>4, <1>5, <1>6, <1>7, <1>8, <1>9, <1>10, <1>11, <1>12, <1>13, <1>14,
            <1>15, <1>16, <1>17, <1>18, <1>19, <1>20, <1>21, <1>22, <1>23, <1>24 DEF Next

LEMMA FuncRefusedExact == FuncRefused \/ FuncDivisionByZero => FuncExact
<1>1. FuncRefused => FuncExact
  BY FailsAnswers DEF FuncRefused
<1>2. FuncDivisionByZero => FuncExact
  BY FailsAnswers DEF FuncDivisionByZero
<1> QED  BY <1>1, <1>2

LEMMA QuietGcd ==
  ASSUME NEW op, op \notin Answering, NEW w, NEW y, NEW u, NEW v, GcdWord(op, w, y, u, v)
  PROVE  Quiet
BY QuietWord, QuietFails DEF GcdWord

LEMMA QuietGcds == Gcds \/ LcmU64 \/ LcmI64 \/ Lcm => Quiet
<1> USE DEF Answering
<1>1. ASSUME NEW op \in {"gcdu64", "gcdi64"}, NEW w, GcdByWord(op, w) PROVE Quiet
  BY <1>1, QuietHands, QuietWord, QuietGcd, QuietFails DEF GcdByWord
<1>2. Gcds => Quiet
  BY <1>1 DEF Gcds
<1>3. ASSUME NEW op \in {"lcmu64", "lcmi64"}, NEW w, LcmOfGarbage(op, w) PROVE Quiet
  BY <1>3, QuietReturns, QuietFails DEF LcmOfGarbage
<1>4. LcmU64 => Quiet
  BY <1>3, QuietWord, QuietDuplicate DEF LcmU64
<1>5. LcmI64 => Quiet
  BY <1>3, QuietZero, QuietWord, QuietDuplicate DEF LcmI64
<1>6. Lcm => Quiet
  BY QuietHands, QuietZero, QuietFails DEF Lcm, Shares, LcmByGcd, HeapDivision
<1> QED  BY <1>2, <1>3, <1>4, <1>5, <1>6

LEMMA QuietCopies == FCopyWord \/ FCopy \/ FCopySized \/ Canonicalize \/ Transfer \/ Unwritten => Quiet
<1> USE DEF Answering
<1>1. FCopyWord => Quiet
  BY QuietWord DEF FCopyWord
<1>2. FCopy => Quiet
  BY QuietDuplicate DEF FCopy
<1>3. FCopySized => Quiet
  BY QuietFails, QuietBlock, QuietZero DEF FCopySized
<1>4. Canonicalize => Quiet
  BY DEF Canonicalize, Quiet
<1>5. Transfer => Quiet
  BY QuietReturns DEF Transfer
<1>6. Unwritten => Quiet
  BY QuietReturns, QuietFails DEF Unwritten
<1> QED  BY <1>1, <1>2, <1>3, <1>4, <1>5, <1>6

LEMMA StepExact == IInv /\ (Next \/ FuncNext) => FuncExact
<1>1. IInv /\ Next => FuncExact
  BY QuietInPlace, QuietExact
<1>2. IInv /\ FuncNext => FuncExact
  BY FuncRefusedExact, FMulU64Exact, FMulI64Exact, FDivWordExact, FModWordExact, FAddExact, FMulExact,
     FDivExact, FModExact, MutDivExact, MutModExact, MutEmodWordExact, MutEmodExact, FEmodExact,
     GcdCallExact, SquaresExact, MutPowExact, FPowExact, QuietGcds, QuietCopies, QuietExact DEF FuncNext
<1> QED  BY <1>1, <1>2

-----------------------------------------------------------------------------
(* The steps and the theorems *)

LEMMA FuncNextKept == IInv /\ FuncNext => Kept
BY FuncRefusedKept, FuncDivisionByZeroKept, FMulU64Kept, FMulI64Kept, FDivWordKept, FModWordKept, FAddKept,
   FMulKept, FDivKept, FModKept, MutDivKept, MutModKept, GcdsKept, GcdKept, LcmU64Kept, LcmI64Kept, LcmKept,
   MutEmodWordKept, MutEmodKept, FEmodKept, SquaresKept, MutPowKept, FPowKept, FCopyWordKept, FCopyKept,
   FCopySizedKept, CanonicalizeKept, TransferKept, UnwrittenKept DEF FuncNext

LEMMA StepKept == IInv /\ (Next \/ FuncNext) => Kept
BY NextKept, FuncNextKept

\* Whatever calls a client makes, in place or for a new number, in whatever order
\* and with whatever allocations failing, the object holds limbs of the width, a
\* capacity and a sign, and but for bigInt_shrink no more limbs than the capacity.
THEOREM MutInvariant == FuncSpec => []IInv
<1>1. Init => IInv
  BY InitInv
<1>2. IInv /\ [Next \/ FuncNext]_vars => IInv'
  BY StepKept, StutterStep DEF Kept
<1> QED  BY <1>1, <1>2, PTL DEF FuncSpec

\* Rules 1 to 4 of the contract survive every call but shrink: no kernel makes
\* more limbs than the capacity __BIGINT_INTERNAL_ENSCAP__ ensured for it, or than
\* the new array was made for, without saying so.
THEOREM MutCoreContract == FuncSpec => []CoreContract
<1>1. IInv => CoreContract
  BY DEF IInv
<1> QED  BY <1>1, MutInvariant, PTL

\* The assignments of one word, and the copies that count limbs, make the
\* destination equal to the source, for every limb width.
THEOREM MutCopiesExact == FuncSpec => CopiesExact
<1>1. IInv /\ [Next \/ FuncNext]_vars
        => [ /\ Succeeds({"getu64", "geti64", "copyi64", "dcopyi64"}) => Val(x') = call'.word
             /\ Succeeds({"copyu64", "dcopyu64"}) => Magnitude(x'.d) = call'.word
             /\ Succeeds({"dcopy", "ocopy", "set_safe"}) => Val(x') = Val(call'.y) ]_vars
  BY StepKept DEF Kept, Exact
<1> QED  BY <1>1, MutInvariant, PTL DEF FuncSpec, CopiesExact

\* What the arithmetic of bigInt.c returns with success is the operation of its
\* name, sign included, at every limb width: in place, the single-word calls, the
\* magnitude of a product and the sums whose limbs do not carry; of the calls that
\* make a new number, products, quotients, remainders, sums, greatest common
\* divisors, squares and powers.  The exceptions are those that the parts name.
THEOREM MutArithmeticExact == FuncSpec => ArithmeticExact
<1>1. IInv /\ [Next \/ FuncNext]_vars
        => [ /\ WordOpExact /\ ProductMagnitude /\ AddSubExact
             /\ FuncWordExact /\ FuncObjectExact /\ GcdExact /\ PowerExact ]_vars
  BY StepKept, StepExact DEF Kept, Exact, FuncExact
<1> QED  BY <1>1, MutInvariant, PTL DEF FuncSpec, ArithmeticExact

\* With normalised operands, the calls of KeepsContract and ResultsAcceptable leave
\* a number the next call accepts, and no kernel writes beyond the array it was
\* given, but for the quotients and the sums that WithinBlock names.
THEOREM MutContractKept == OperandsValid /\ FuncSpec => ContractKept
<1>1. SUFFICES ASSUME OperandsValid PROVE FuncSpec => ContractKept
  OBVIOUS
<1>2. IInv /\ [Next \/ FuncNext]_vars => [KeepsContract /\ ResultsAcceptable /\ WithinBlock]_vars
  BY <1>1, StepKept DEF Kept, Exact
<1> QED  BY <1>2, MutInvariant, PTL DEF FuncSpec, ContractKept

\* Whatever the calls have made of the number, its comparisons with words and
\* operands, its conversions and its Euclidean remainders by a word are those of
\* the integer it stands for, at every even radix and limb width.
THEOREM MutReadersExact == OperandsValid /\ FuncSpec => []ReadersExact
<1>1. SUFFICES ASSUME OperandsValid PROVE FuncSpec => []ReadersExact
  OBVIOUS
<1>2. IInv => ReadersExact
  BY <1>1, ReadersOfNumber
<1> QED  BY <1>2, MutInvariant, PTL

\* The calls in place on their own: all of this holds of them too.
THEOREM InPlaceCalls == Spec => FuncSpec
<1>1. [Next]_vars => [Next \/ FuncNext]_vars
  OBVIOUS
<1> QED  BY <1>1, PTL DEF Spec, FuncSpec
=============================================================================
