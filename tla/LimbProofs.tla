------------------------------ MODULE LimbProofs ------------------------------
(***************************************************************************)
(* Proofs about LimbKernels, for arrays of any length and limbs of any     *)
(* width: the integer an array of limbs stands for, and what each kernel   *)
(* computes.  Each kernel is a loop over the limbs that is written as a    *)
(* function defined by recursion: what it computes is proved by induction  *)
(* over the limbs, stated with sets of natural numbers.                    *)
(***************************************************************************)
EXTENDS LimbKernels, NaturalsInduction, WellFoundedInduction, TLAPS

-----------------------------------------------------------------------------
(* Induction and recursion up to a number *)

Below == {z \in Nat \X Nat : z[1] < z[2]}

\* A set of natural numbers that has one has a least one.
LEMMA LeastNumber ==
  ASSUME NEW S, S \subseteq Nat, S # {}
  PROVE  \E m \in S : \A k \in S : m <= k
<1>1. IsWellFoundedOn(Below, Nat)
  BY NatLessThanWellFounded DEF OpToRel, Below
<1>2. PICK m \in S : \A k \in S : ~ (<<k, m>> \in Below)
  BY <1>1, WFMin
<1>3. \A k, l \in Nat : <<k, l>> \in Below <=> k < l
  BY DEF Below
<1>4. \A k \in S : ~ (k < m) /\ k \in Nat /\ m \in Nat
  BY <1>2, <1>3
<1> QED  BY <1>4

LEMMA SetInduction ==
  ASSUME NEW n \in Nat, NEW Q, 0 \in Q, \A i \in 1 .. n : i - 1 \in Q => i \in Q
  PROVE  \A i \in 0 .. n : i \in Q
<1> DEFINE S == {i \in 0 .. n : i \notin Q}
<1>1. SUFFICES ASSUME S # {} PROVE FALSE
  OBVIOUS
<1>2. S \subseteq Nat
  OBVIOUS
<1>3. PICK m \in S : \A k \in S : m <= k
  BY <1>1, <1>2, LeastNumber
<1>4. m \in 1 .. n /\ m - 1 \in 0 .. n /\ ~ (m <= m - 1)
  BY <1>3
<1>5. m - 1 \notin S
  BY <1>3, <1>4
<1> QED  BY <1>3, <1>4, <1>5

\* A step function that makes values in S of values in S, and what it runs through
\* from a on.
Fits(n, S, step)  == \A i \in 1 .. n : \A s \in S : step[i][s] \in S
Run(n, a, step, f) == f[0] = a /\ \A i \in 1 .. n : f[i] = step[i][f[i - 1]]
Follows(n, S, step, f) == \A i \in 1 .. n : f[i - 1] \in S => f[i] = step[i][f[i - 1]]
Runs(n, S, a, step) == \E f \in [0 .. n -> S] : Run(n, a, step, f)

LEMMA Recursion ==
  ASSUME NEW n \in Nat, NEW S, NEW a \in S, NEW step, Fits(n, S, step)
  PROVE  Runs(n, S, a, step)
<1> DEFINE Up(m, f) == f \in [0 .. m -> S] /\ Run(m, a, step, f)
           Q == {m \in 0 .. n : \E f : Up(m, f)}
<1>1. 0 \in Q
  <2>1. Up(0, [i \in 0 .. 0 |-> a])
    BY DEF Run
  <2> HIDE DEF Up
  <2>2. \E f : Up(0, f)
    BY <2>1
  <2> QED  BY <2>2
<1>2. ASSUME NEW m \in 1 .. n, m - 1 \in Q PROVE m \in Q
  <2>1. PICK f : Up(m - 1, f)
    BY <1>2
  <2> DEFINE h == [i \in 0 .. m |-> IF i = m THEN step[m][f[m - 1]] ELSE f[i]]
  <2>2. f[m - 1] \in S /\ step[m][f[m - 1]] \in S
    BY <2>1 DEF Fits
  <2>3. h \in [0 .. m -> S]
    BY <2>1, <2>2
  <2>4. h[0] = a
    BY <2>1 DEF Run
  <2>5. ASSUME NEW i \in 1 .. m PROVE h[i] = step[i][h[i - 1]]
    <3>1. i - 1 \in 0 .. m /\ i - 1 # m /\ h[i - 1] = f[i - 1]
      OBVIOUS
    <3>2. CASE i = m
      BY <3>1, <3>2
    <3>3. CASE i # m
      <4>1. i \in 1 .. m - 1 /\ h[i] = f[i]
        BY <3>3
      <4> QED  BY <2>1, <3>1, <4>1 DEF Run
    <3> QED  BY <3>2, <3>3
  <2>6. Up(m, h)
    BY <2>3, <2>4, <2>5 DEF Run
  <2> HIDE DEF Up, h
  <2>7. \E e : Up(m, e)
    BY <2>6
  <2> QED  BY <2>7
<1> HIDE DEF Q
<1>3. n \in Q
  <2>1. \A m \in 0 .. n : m \in Q
    BY <1>1, <1>2, SetInduction
  <2> QED  BY <2>1
<1>4. PICK f : Up(n, f)
  BY <1>3 DEF Q
<1> QED  BY <1>4 DEF Runs

LEMMA RunTyped ==
  ASSUME NEW n \in Nat, NEW S, NEW step, Fits(n, S, step), NEW f, f[0] \in S, Follows(n, S, step, f)
  PROVE  \A i \in 0 .. n : f[i] \in S
<1> DEFINE Q == {i \in 0 .. n : f[i] \in S}
<1>1. 0 \in Q
  OBVIOUS
<1>2. \A i \in 1 .. n : i - 1 \in Q => i \in Q
  BY DEF Fits, Follows
<1> HIDE DEF Q
<1>3. \A i \in 0 .. n : i \in Q
  BY <1>1, <1>2, SetInduction
<1> QED  BY <1>3 DEF Q

-----------------------------------------------------------------------------
(* Division with remainder *)

LEMMA Division ==
  ASSUME NEW a \in Nat, NEW m \in Nat \ {0}
  PROVE  /\ a \div m \in Nat /\ a % m \in 0 .. m - 1
         /\ a = m * (a \div m) + (a % m)
OBVIOUS

\* A product below that of two factors keeps one of its own factors below.
LEMMA FactorBelow ==
  ASSUME NEW m \in Nat \ {0}, NEW k \in Nat, NEW q \in Nat, m * k < m * q
  PROVE  k + 1 <= q /\ m * k + m <= m * q
<1>1. k < q
  <2>1. CASE k >= q
    <3>1. m * k >= m * q
      BY <2>1
    <3> QED  BY <3>1
  <2> QED  BY <2>1
<1>2. PICK j \in Nat : q = k + 1 + j
  <2>1. q - k - 1 \in Nat /\ q = k + 1 + (q - k - 1)
    BY <1>1
  <2> QED  BY <2>1
<1>3. m * q = m * k + m + m * j /\ m * j \in Nat
  BY <1>2
<1> QED  BY <1>1, <1>3

LEMMA QuotientBelow ==
  ASSUME NEW a \in Nat, NEW m \in Nat \ {0}, NEW q \in Nat, a < m * q
  PROVE  a \div m < q
<1>1. a \div m \in Nat /\ m * (a \div m) <= a
  BY Division
<1>2. m * (a \div m) < m * q
  BY <1>1
<1> QED  BY <1>1, <1>2, FactorBelow

-----------------------------------------------------------------------------
(* Limbs and their bytes *)

LEMMA ByteRangeOf ==
  ASSUME NEW k \in Nat
  PROVE  \E r \in [0 .. k -> Nat] : /\ r[0] = 1 /\ ByteRange(k) = r[k]
                                    /\ \A i \in 1 .. k : r[i] = ByteBase * r[i - 1]
<1> DEFINE Step(r) == [i \in 0 .. k |-> IF i = 0 THEN 1 ELSE ByteBase * r[i - 1]]
           c == CHOOSE r : r = Step(r)
           g == [i \in 1 .. k |-> [s \in Nat |-> ByteBase * s]]
<1>1. 1 \in Nat /\ Fits(k, Nat, g) /\ \A i \in 1 .. k : \A s \in Nat : g[i][s] = ByteBase * s
  BY LimbAssumption DEF Fits
<1> HIDE DEF g
<1>2. PICK f \in [0 .. k -> Nat] : Run(k, 1, g, f)
  BY <1>1, Recursion DEF Runs
<1>3. \A i \in 1 .. k : f[i - 1] \in Nat
  OBVIOUS
<1>4. f[0] = 1 /\ \A i \in 1 .. k : f[i] = ByteBase * f[i - 1]
  BY <1>1, <1>2, <1>3 DEF Run
<1>5. f = Step(f)
  BY <1>4
<1>6. c = Step(c)
  BY <1>5
<1>7. ByteRange(k) = c[k]
  BY DEF ByteRange
<1> HIDE DEF c
<1> DEFINE e == Step(c)
<1>8. e = [i \in 0 .. k |-> e[i]] /\ e[0] = 1 /\ \A i \in 1 .. k : e[i] = ByteBase * c[i - 1]
  <2>1. \A i \in 0 .. k : e[i] = IF i = 0 THEN 1 ELSE ByteBase * c[i - 1]
    OBVIOUS
  <2>2. e = [i \in 0 .. k |-> e[i]]
    OBVIOUS
  <2> HIDE DEF e
  <2> QED  BY <2>1, <2>2
<1> HIDE DEF e
<1>9. c = [i \in 0 .. k |-> c[i]] /\ c[0] = 1 /\ \A i \in 1 .. k : c[i] = ByteBase * c[i - 1]
  BY <1>6, <1>8 DEF e
<1>10. \A i \in 0 .. k : c[i] \in Nat
  <2>1. c[0] \in Nat /\ Follows(k, Nat, g, c)
    BY <1>1, <1>9 DEF Follows
  <2> QED  BY <1>1, <2>1, RunTyped
<1> QED  BY <1>7, <1>9, <1>10

LEMMA ByteRangeStep ==
  /\ ByteRange(0) = 1
  /\ \A k \in Nat : ByteRange(k) \in Nat /\ ByteRange(k + 1) = ByteBase * ByteRange(k)
<1>1. ByteRange(0) = 1
  BY ByteRangeOf
<1>2. ASSUME NEW k \in Nat PROVE ByteRange(k) \in Nat /\ ByteRange(k + 1) = ByteBase * ByteRange(k)
  <2>1. PICK r \in [0 .. k -> Nat] : /\ r[0] = 1 /\ ByteRange(k) = r[k]
                                     /\ \A i \in 1 .. k : r[i] = ByteBase * r[i - 1]
    BY ByteRangeOf
  <2>2. PICK s \in [0 .. k + 1 -> Nat] : /\ s[0] = 1 /\ ByteRange(k + 1) = s[k + 1]
                                         /\ \A i \in 1 .. k + 1 : s[i] = ByteBase * s[i - 1]
    <3>1. k + 1 \in Nat
      OBVIOUS
    <3> QED  BY <3>1, ByteRangeOf
  <2> DEFINE Q == {i \in 0 .. k : r[i] = s[i]}
  <2>3. 0 \in Q
    BY <2>1, <2>2
  <2>4. \A i \in 1 .. k : i - 1 \in Q => i \in Q
    BY <2>1, <2>2
  <2> HIDE DEF Q
  <2>5. k \in Q
    <3>1. \A i \in 0 .. k : i \in Q
      BY <2>3, <2>4, SetInduction
    <3> QED  BY <3>1
  <2>6. s[k + 1] = ByteBase * s[k]
    <3>1. k + 1 \in 1 .. k + 1 /\ (k + 1) - 1 = k
      OBVIOUS
    <3> QED  BY <2>2, <3>1
  <2> QED  BY <2>1, <2>2, <2>5, <2>6 DEF Q
<1> QED  BY <1>1, <1>2

\* The values of a limb are those of its bytes, whose ranges divide them.
LEMMA ByteRangeDivides ==
  /\ Radix \in Nat /\ Radix >= 2
  /\ \A k \in 0 .. LimbBytes : /\ ByteRange(k) \in Nat \ {0}
                               /\ \E q \in Nat : Radix = ByteRange(k) * q
<1> DEFINE L == LimbBytes
           P == {k \in 0 .. L : ByteRange(k) >= 1 /\ (k > 0 => ByteRange(k) >= 2)}
           D == {j \in 0 .. L : \E q \in Nat : Radix = ByteRange(L - j) * q}
<1>1. L \in Nat /\ L >= 1 /\ ByteBase \in Nat /\ ByteBase >= 2
  BY LimbAssumption
<1>2. ASSUME NEW k \in 1 .. L, k - 1 \in P PROVE k \in P
  <2>1. k - 1 \in Nat /\ ByteRange(k - 1) \in Nat /\ ByteRange(k) = ByteBase * ByteRange(k - 1)
    <3>1. k - 1 \in Nat /\ (k - 1) + 1 = k
      OBVIOUS
    <3> QED  BY <3>1, ByteRangeStep
  <2>2. ByteBase * ByteRange(k - 1) >= ByteBase
    BY <1>1, <1>2, <2>1
  <2> QED  BY <1>1, <2>1, <2>2
<1>3. 0 \in P
  BY <1>1, ByteRangeStep
<1> HIDE DEF P
<1>4. \A k \in 0 .. L : k \in P
  BY <1>1, <1>2, <1>3, SetInduction
<1>5. Radix \in Nat /\ Radix >= 2
  BY <1>1, <1>4, ByteRangeStep DEF P, Radix
<1>6. 0 \in D
  <2>1. Radix = ByteRange(L - 0) * 1
    BY <1>1, <1>5 DEF Radix
  <2> QED  BY <1>1, <2>1
<1>7. ASSUME NEW j \in 1 .. L, j - 1 \in D PROVE j \in D
  <2>1. PICK q \in Nat : Radix = ByteRange(L - (j - 1)) * q
    BY <1>7
  <2>2. L - j \in Nat /\ (L - j) + 1 = L - (j - 1)
    BY <1>1
  <2>3. ByteRange(L - (j - 1)) = ByteBase * ByteRange(L - j) /\ ByteRange(L - j) \in Nat
    BY <2>2, ByteRangeStep
  <2>4. Radix = ByteRange(L - j) * (ByteBase * q) /\ ByteBase * q \in Nat
    BY <1>1, <2>1, <2>3
  <2> QED  BY <2>4
<1> HIDE DEF D
<1>8. \A j \in 0 .. L : j \in D
  BY <1>1, <1>6, <1>7, SetInduction
<1>9. ASSUME NEW k \in 0 .. L PROVE \E q \in Nat : Radix = ByteRange(k) * q
  <2>1. L - k \in 0 .. L /\ L - (L - k) = k
    BY <1>1
  <2> QED  BY <1>8, <2>1 DEF D
<1>10. \A k \in 0 .. L : ByteRange(k) \in Nat \ {0}
  BY <1>1, <1>4, ByteRangeStep DEF P
<1> QED  BY <1>5, <1>9, <1>10

LEMMA LimbsTyped == Limb \subseteq Nat /\ 0 \in Limb /\ 1 \in Limb /\ \A l \in Limb : l < Radix
BY ByteRangeDivides DEF Limb

\* A limb of which some bytes are taken from another one is a limb.
LEMMA BytesOverTyped ==
  ASSUME NEW limb \in Limb, NEW src \in Limb, NEW c \in 0 .. LimbBytes
  PROVE  BytesOver(limb, src, c) \in Limb
<1> DEFINE m == ByteRange(c)
<1>1. m \in Nat \ {0} /\ limb \in Nat /\ src \in Nat /\ limb < Radix /\ Radix \in Nat
  BY ByteRangeDivides, LimbsTyped
<1>2. PICK q \in Nat : Radix = m * q
  BY ByteRangeDivides
<1> HIDE DEF m
<1>3. limb \div m \in Nat /\ limb = m * (limb \div m) + (limb % m) /\ limb % m \in 0 .. m - 1 /\ src % m \in 0 .. m - 1
  BY <1>1, Division
<1> DEFINE k == limb \div m
<1>4. k \in Nat /\ m * k \in Nat /\ m * k = limb - (limb % m) /\ m * k < m * q
  BY <1>1, <1>2, <1>3
<1> HIDE DEF k
<1>5. m * k + m <= m * q
  BY <1>1, <1>2, <1>4, FactorBelow
<1>6. (limb - (limb % m)) + (src % m) \in 0 .. Radix - 1
  BY <1>1, <1>2, <1>3, <1>4, <1>5
<1> QED  BY <1>6 DEF BytesOver, Limb, m

LEMMA BytesInTyped ==
  ASSUME NEW i \in Nat, NEW k \in Nat
  PROVE  BytesIn(i, k) \in 0 .. LimbBytes
<1>1. k - (i - 1) * LimbBytes \in Int /\ LimbBytes \in Nat
  BY LimbAssumption
<1> QED  BY <1>1 DEF BytesIn

-----------------------------------------------------------------------------
(* What the passes over the limbs run through *)

LEMMA DigitTyped ==
  ASSUME NEW d \in Seq(Limb)
  PROVE  /\ Len(d) \in Nat /\ DOMAIN d = 1 .. Len(d)
         /\ \A i \in 1 .. Len(d) : d[i] \in Limb /\ d[i] \in Nat /\ d[i] < Radix
         /\ \A i \in 1 .. Len(d) : Len(d) + 1 - i \in 1 .. Len(d)
<1>1. \A i \in 1 .. Len(d) : d[i] \in Limb
  OBVIOUS
<1>2. \A l \in Limb : l \in Nat /\ l < Radix
  BY LimbsTyped
<1>3. Len(d) \in Nat /\ DOMAIN d = 1 .. Len(d)
  OBVIOUS
<1>4. \A i \in 1 .. Len(d) : Len(d) + 1 - i \in 1 .. Len(d)
  BY <1>3
<1> QED  BY <1>1, <1>2, <1>3, <1>4

\* A limb, a product of two limbs and a carry make a limb and a carry.
LEMMA DoubleLimb ==
  ASSUME NEW r \in Limb, NEW a \in Limb, NEW b \in Limb, NEW c \in Limb
  PROVE  LET t == r + a * b + c
         IN  /\ t \in Nat /\ t % Radix \in Limb /\ t \div Radix \in Limb
             /\ t = Radix * (t \div Radix) + (t % Radix)
<1> DEFINE t == r + a * b + c
           m == Radix - 1
<1>1. /\ Radix \in Nat \ {0} /\ m \in Nat /\ Radix = m + 1
      /\ r \in 0 .. m /\ a \in 0 .. m /\ b \in 0 .. m /\ c \in 0 .. m
  BY ByteRangeDivides DEF Limb
<1> HIDE DEF m
<1>2. a * b \in Nat /\ a * b <= m * m
  <2>1. a * b <= m * b
    BY <1>1
  <2>2. m * b <= m * m
    BY <1>1
  <2>3. a * b \in Nat /\ m * b \in Nat /\ m * m \in Nat
    BY <1>1
  <2> QED  BY <2>1, <2>2, <2>3
<1>3. Radix * Radix = m * m + 2 * m + 1
  BY <1>1
<1>4. t \in Nat /\ t < Radix * Radix
  BY <1>1, <1>2, <1>3
<1> HIDE DEF t
<1>5. t \div Radix < Radix /\ t \div Radix \in Nat
  BY <1>1, <1>4, QuotientBelow, Division
<1>6. t % Radix \in 0 .. Radix - 1 /\ t = Radix * (t \div Radix) + (t % Radix)
  BY <1>1, <1>4, Division
<1> QED  BY <1>1, <1>4, <1>5, <1>6 DEF t, Limb

\* What Upper says of the limbs of a number: its value, from the top.
LEMMA UpperOf ==
  ASSUME NEW d \in Seq(Limb)
  PROVE  /\ Upper(d)[0] = 0 /\ \A i \in 0 .. Len(d) : Upper(d)[i] \in Nat
         /\ \A i \in 1 .. Len(d) : Upper(d)[i] = d[Len(d) + 1 - i] + Radix * Upper(d)[i - 1]
<1> DEFINE Step(r) == [i \in 0 .. Len(d) |-> IF i = 0 THEN 0 ELSE d[Len(d) + 1 - i] + Radix * r[i - 1]]
           c == CHOOSE r : r = Step(r)
           g == [i \in 1 .. Len(d) |-> [s \in Nat |-> d[Len(d) + 1 - i] + Radix * s]]
<1>n. Len(d) \in Nat /\ 0 \in Nat
  BY DigitTyped
<1>0. ASSUME NEW i \in 1 .. Len(d), NEW s \in Nat PROVE d[Len(d) + 1 - i] + Radix * s \in Nat
  BY <1>n, DigitTyped, ByteRangeDivides
<1>1. Fits(Len(d), Nat, g) /\ \A i \in 1 .. Len(d) : \A s \in Nat : g[i][s] = d[Len(d) + 1 - i] + Radix * s
  BY <1>0 DEF Fits
<1> HIDE DEF g
<1>2. PICK f \in [0 .. Len(d) -> Nat] : Run(Len(d), 0, g, f)
  BY <1>n, <1>1, Recursion DEF Runs
<1>3. \A i \in 1 .. Len(d) : f[i - 1] \in Nat
  BY <1>n
<1>4. f[0] = 0 /\ \A i \in 1 .. Len(d) : f[i] = d[Len(d) + 1 - i] + Radix * f[i - 1]
  BY <1>1, <1>2, <1>3 DEF Run
<1>5. f = Step(f)
  BY <1>4
<1>6. c = Step(c)
  BY <1>5
<1>7. Upper(d) = c
  BY DEF Upper
<1> HIDE DEF c
<1> DEFINE e == Step(c)
<1>8. e[0] = 0 /\ \A i \in 1 .. Len(d) : e[i] = d[Len(d) + 1 - i] + Radix * c[i - 1]
  <2>1. \A i \in 0 .. Len(d) : e[i] = IF i = 0 THEN 0 ELSE d[Len(d) + 1 - i] + Radix * c[i - 1]
    OBVIOUS
  <2> HIDE DEF e
  <2> QED  BY <1>n, <2>1
<1> HIDE DEF e
<1>9. c[0] = 0 /\ \A i \in 1 .. Len(d) : c[i] = d[Len(d) + 1 - i] + Radix * c[i - 1]
  BY <1>6, <1>8 DEF e
<1>10. \A i \in 0 .. Len(d) : c[i] \in Nat
  <2>1. c[0] \in Nat /\ Follows(Len(d), Nat, g, c)
    BY <1>n, <1>1, <1>9 DEF Follows
  <2> QED  BY <1>n, <1>1, <2>1, RunTyped
<1> QED  BY <1>7, <1>9, <1>10

\* The carries of a product by a word are limbs.
LEMMA CarriesOf ==
  ASSUME NEW d \in Seq(Limb), NEW v \in Limb
  PROVE  /\ Carries(d, v)[0] = 0 /\ \A i \in 0 .. Len(d) : Carries(d, v)[i] \in Limb
         /\ \A i \in 1 .. Len(d) : Carries(d, v)[i] = (d[i] * v + Carries(d, v)[i - 1]) \div Radix
<1> DEFINE Step(r) == [i \in 0 .. Len(d) |-> IF i = 0 THEN 0 ELSE (d[i] * v + r[i - 1]) \div Radix]
           c == CHOOSE r : r = Step(r)
           g == [i \in 1 .. Len(d) |-> [s \in Limb |-> (d[i] * v + s) \div Radix]]
<1>n. Len(d) \in Nat /\ 0 \in Limb
  BY DigitTyped, LimbsTyped
<1>0. ASSUME NEW i \in 1 .. Len(d), NEW s \in Limb PROVE (d[i] * v + s) \div Radix \in Limb
  <2>1. d[i] \in Limb /\ 0 \in Limb /\ d[i] * v \in Nat
    BY DigitTyped, LimbsTyped
  <2>2. (0 + d[i] * v + s) \div Radix \in Limb
    BY <2>1, DoubleLimb
  <2>3. 0 + d[i] * v + s = d[i] * v + s
    BY <2>1, LimbsTyped
  <2> QED  BY <2>2, <2>3
<1>1. Fits(Len(d), Limb, g) /\ \A i \in 1 .. Len(d) : \A s \in Limb : g[i][s] = (d[i] * v + s) \div Radix
  BY <1>0 DEF Fits
<1> HIDE DEF g
<1>2. PICK f \in [0 .. Len(d) -> Limb] : Run(Len(d), 0, g, f)
  BY <1>n, <1>1, Recursion DEF Runs
<1>3. \A i \in 1 .. Len(d) : f[i - 1] \in Limb
  BY <1>n
<1>4. f[0] = 0 /\ \A i \in 1 .. Len(d) : f[i] = (d[i] * v + f[i - 1]) \div Radix
  BY <1>1, <1>2, <1>3 DEF Run
<1>5. f = Step(f)
  BY <1>4
<1>6. c = Step(c)
  BY <1>5
<1>7. Carries(d, v) = c
  BY DEF Carries
<1> HIDE DEF c
<1> DEFINE e == Step(c)
<1>8. e[0] = 0 /\ \A i \in 1 .. Len(d) : e[i] = (d[i] * v + c[i - 1]) \div Radix
  <2>1. \A i \in 0 .. Len(d) : e[i] = IF i = 0 THEN 0 ELSE (d[i] * v + c[i - 1]) \div Radix
    OBVIOUS
  <2> HIDE DEF e
  <2> QED  BY <1>n, <2>1
<1> HIDE DEF e
<1>9. c[0] = 0 /\ \A i \in 1 .. Len(d) : c[i] = (d[i] * v + c[i - 1]) \div Radix
  BY <1>6, <1>8 DEF e
<1>10. \A i \in 0 .. Len(d) : c[i] \in Limb
  <2>1. c[0] \in Limb /\ Follows(Len(d), Limb, g, c)
    BY <1>n, <1>1, <1>9 DEF Follows
  <2> QED  BY <1>n, <1>1, <2>1, RunTyped
<1> QED  BY <1>7, <1>9, <1>10

\* The remainders of a division by a word are less than the word.
LEMMA RemaindersOf ==
  ASSUME NEW d \in Seq(Limb), NEW v \in Limb \ {0}
  PROVE  /\ Remainders(d, v)[0] = 0 /\ \A i \in 0 .. Len(d) : Remainders(d, v)[i] \in 0 .. v - 1
         /\ \A i \in 1 .. Len(d) : Remainders(d, v)[i] = (Remainders(d, v)[i - 1] * Radix + d[Len(d) + 1 - i]) % v
<1> DEFINE Step(r) == [i \in 0 .. Len(d) |-> IF i = 0 THEN 0 ELSE (r[i - 1] * Radix + d[Len(d) + 1 - i]) % v]
           c == CHOOSE r : r = Step(r)
           g == [i \in 1 .. Len(d) |-> [s \in 0 .. v - 1 |-> (s * Radix + d[Len(d) + 1 - i]) % v]]
<1>n. Len(d) \in Nat /\ 0 \in 0 .. v - 1
  BY DigitTyped, LimbsTyped
<1>0. ASSUME NEW i \in 1 .. Len(d), NEW s \in 0 .. v - 1 PROVE (s * Radix + d[Len(d) + 1 - i]) % v \in 0 .. v - 1
  <2>1. v \in Nat \ {0} /\ s * Radix + d[Len(d) + 1 - i] \in Nat
    <3>1. v \in Nat \ {0} /\ s \in Nat /\ Radix \in Nat /\ d[Len(d) + 1 - i] \in Nat
      BY <1>n, DigitTyped, LimbsTyped, ByteRangeDivides
    <3>2. s * Radix \in Nat
      BY <3>1
    <3> QED  BY <3>1, <3>2
  <2> QED  BY <2>1, Division
<1>1. Fits(Len(d), 0 .. v - 1, g) /\ \A i \in 1 .. Len(d) : \A s \in 0 .. v - 1 : g[i][s] = (s * Radix + d[Len(d) + 1 - i]) % v
  BY <1>0 DEF Fits
<1> HIDE DEF g
<1>2. PICK f \in [0 .. Len(d) -> 0 .. v - 1] : Run(Len(d), 0, g, f)
  BY <1>n, <1>1, Recursion DEF Runs
<1>3. \A i \in 1 .. Len(d) : f[i - 1] \in 0 .. v - 1
  BY <1>n
<1>4. f[0] = 0 /\ \A i \in 1 .. Len(d) : f[i] = (f[i - 1] * Radix + d[Len(d) + 1 - i]) % v
  BY <1>1, <1>2, <1>3 DEF Run
<1>5. f = Step(f)
  BY <1>4
<1>6. c = Step(c)
  BY <1>5
<1>7. Remainders(d, v) = c
  BY DEF Remainders
<1> HIDE DEF c
<1> DEFINE e == Step(c)
<1>8. e[0] = 0 /\ \A i \in 1 .. Len(d) : e[i] = (c[i - 1] * Radix + d[Len(d) + 1 - i]) % v
  <2>1. \A i \in 0 .. Len(d) : e[i] = IF i = 0 THEN 0 ELSE (c[i - 1] * Radix + d[Len(d) + 1 - i]) % v
    OBVIOUS
  <2> HIDE DEF e
  <2> QED  BY <1>n, <2>1
<1> HIDE DEF e
<1>9. c[0] = 0 /\ \A i \in 1 .. Len(d) : c[i] = (c[i - 1] * Radix + d[Len(d) + 1 - i]) % v
  BY <1>6, <1>8 DEF e
<1>10. \A i \in 0 .. Len(d) : c[i] \in 0 .. v - 1
  <2>1. c[0] \in 0 .. v - 1 /\ Follows(Len(d), 0 .. v - 1, g, c)
    BY <1>n, <1>1, <1>9 DEF Follows
  <2> QED  BY <1>n, <1>1, <2>1, RunTyped
<1> QED  BY <1>7, <1>9, <1>10

LEMMA LimbAtTyped ==
  ASSUME NEW d \in Seq(Limb), NEW i \in Int
  PROVE  LimbAt(d, i) \in Limb
BY DigitTyped, LimbsTyped DEF LimbAt

Accumulated == [limbs : Seq(Limb), carry : Limb]

\* One limb of a row: a limb of the sum, and the carry to the next.
LEMMA RowLimbOf ==
  ASSUME NEW b \in Seq(Limb), NEW j \in Nat, NEW limb \in Limb, NEW k \in Nat, NEW r \in Limb,
         NEW s \in Accumulated
  PROVE  LET term == RowTerm(j, limb, b, k)
             t    == r + term + s.carry
             o    == RowLimb(s, r, term)
         IN  /\ o \in Accumulated /\ o.limbs = Append(s.limbs, t % Radix)
             /\ term \in Nat /\ t = Radix * o.carry + (t % Radix) /\ t % Radix \in Limb
<1> DEFINE term == RowTerm(j, limb, b, k)
           t    == r + term + s.carry
           o    == RowLimb(s, r, term)
<1>1. s.limbs \in Seq(Limb) /\ s.carry \in Limb
  BY DEF Accumulated
<1>2. PICK l1 \in Limb, l2 \in Limb : term = l1 * l2
  <2>1. CASE k < j
    <3>1. term = 0 * 0 /\ 0 \in Limb
      BY <2>1, LimbsTyped DEF RowTerm
    <3> QED  BY <3>1
  <2>2. CASE ~ (k < j)
    <3>1. term = limb * LimbAt(b, k - j + 1)
      BY <2>2 DEF RowTerm
    <3>2. LimbAt(b, k - j + 1) \in Limb
      BY LimbAtTyped
    <3> QED  BY <3>1, <3>2
  <2> QED  BY <2>1, <2>2
<1>3. term \in Nat
  <2>1. l1 \in Nat /\ l2 \in Nat
    BY LimbsTyped
  <2>2. l1 * l2 \in Nat
    BY <2>1
  <2> QED  BY <1>2, <2>2
<1> HIDE DEF term
<1>4. /\ t % Radix \in Limb /\ t \div Radix \in Limb
      /\ t = Radix * (t \div Radix) + (t % Radix)
  BY <1>1, <1>2, DoubleLimb
<1>5. o = [limbs |-> Append(s.limbs, t % Radix), carry |-> t \div Radix]
  BY DEF RowLimb
<1> HIDE DEF o, t
<1>6. o.limbs = Append(s.limbs, t % Radix) /\ o.carry = t \div Radix
  BY <1>5
<1>7. Append(s.limbs, t % Radix) \in Seq(Limb)
  BY <1>1, <1>4
<1>8. o \in Accumulated
  BY <1>4, <1>5, <1>7 DEF Accumulated
<1> QED  BY <1>3, <1>4, <1>6, <1>8 DEF o, t, term

\* A row goes through limbs and a carry.
LEMMA RowPassOf ==
  ASSUME NEW res \in Seq(Limb), NEW j \in Nat, NEW limb \in Limb, NEW b \in Seq(Limb)
  PROVE  /\ RowPass(res, j, limb, b)[0] = NoLimbs /\ \A i \in 0 .. Len(res) : RowPass(res, j, limb, b)[i] \in Accumulated
         /\ \A i \in 1 .. Len(res) : RowPass(res, j, limb, b)[i] = RowLimb(RowPass(res, j, limb, b)[i - 1], res[i], RowTerm(j, limb, b, i))
<1> DEFINE Step(r) == [i \in 0 .. Len(res) |-> IF i = 0 THEN NoLimbs ELSE RowLimb(r[i - 1], res[i], RowTerm(j, limb, b, i))]
           c == CHOOSE r : r = Step(r)
           g == [i \in 1 .. Len(res) |-> [s \in Accumulated |-> RowLimb(s, res[i], RowTerm(j, limb, b, i))]]
<1>n. Len(res) \in Nat /\ NoLimbs \in Accumulated
  BY DigitTyped, LimbsTyped DEF Accumulated, NoLimbs
<1>0. ASSUME NEW i \in 1 .. Len(res), NEW s \in Accumulated PROVE RowLimb(s, res[i], RowTerm(j, limb, b, i)) \in Accumulated
  <2>1. res[i] \in Limb /\ i \in Nat
    BY <1>n, DigitTyped
  <2> QED  BY <2>1, RowLimbOf
<1>1. Fits(Len(res), Accumulated, g) /\ \A i \in 1 .. Len(res) : \A s \in Accumulated : g[i][s] = RowLimb(s, res[i], RowTerm(j, limb, b, i))
  BY <1>0 DEF Fits
<1> HIDE DEF g
<1>2. PICK f \in [0 .. Len(res) -> Accumulated] : Run(Len(res), NoLimbs, g, f)
  BY <1>n, <1>1, Recursion DEF Runs
<1>3. \A i \in 1 .. Len(res) : f[i - 1] \in Accumulated
  BY <1>n
<1>4. f[0] = NoLimbs /\ \A i \in 1 .. Len(res) : f[i] = RowLimb(f[i - 1], res[i], RowTerm(j, limb, b, i))
  BY <1>1, <1>2, <1>3 DEF Run
<1>5. f = Step(f)
  BY <1>4
<1>6. c = Step(c)
  BY <1>5
<1>7. RowPass(res, j, limb, b) = c
  BY DEF RowPass
<1> HIDE DEF c
<1> DEFINE e == Step(c)
<1>8. e[0] = NoLimbs /\ \A i \in 1 .. Len(res) : e[i] = RowLimb(c[i - 1], res[i], RowTerm(j, limb, b, i))
  <2>1. \A i \in 0 .. Len(res) : e[i] = IF i = 0 THEN NoLimbs ELSE RowLimb(c[i - 1], res[i], RowTerm(j, limb, b, i))
    OBVIOUS
  <2> HIDE DEF e
  <2> QED  BY <1>n, <2>1
<1> HIDE DEF e
<1>9. c[0] = NoLimbs /\ \A i \in 1 .. Len(res) : c[i] = RowLimb(c[i - 1], res[i], RowTerm(j, limb, b, i))
  BY <1>6, <1>8 DEF e
<1>10. \A i \in 0 .. Len(res) : c[i] \in Accumulated
  <2>1. c[0] \in Accumulated /\ Follows(Len(res), Accumulated, g, c)
    BY <1>n, <1>1, <1>9 DEF Follows
  <2> QED  BY <1>n, <1>1, <2>1, RunTyped
<1> QED  BY <1>7, <1>9, <1>10

\* AddRow keeps the length, and adds limb by limb with a carry.
LEMMA AddRowOf ==
  ASSUME NEW res \in Seq(Limb), NEW j \in Nat, NEW limb \in Limb, NEW b \in Seq(Limb)
  PROVE  LET out   == AddRow(res, j, limb, b)
             c(k)  == RowPass(res, j, limb, b)[k].carry
         IN  /\ out \in Seq(Limb) /\ Len(out) = Len(res)
             /\ c(0) = 0 /\ \A k \in 0 .. Len(res) : c(k) \in Limb
             /\ \A k \in 1 .. Len(res) :
                  res[k] + RowTerm(j, limb, b, k) + c(k - 1) = Radix * c(k) + out[k]
<1> DEFINE n == Len(res)
           p == RowPass(res, j, limb, b)
           t(k) == res[k] + RowTerm(j, limb, b, k) + p[k - 1].carry
<1>1. n \in Nat /\ p[0] = NoLimbs /\ \A k \in 0 .. n : p[k] \in Accumulated
  BY RowPassOf
<1>2. ASSUME NEW k \in 1 .. n
      PROVE  /\ p[k].limbs = Append(p[k - 1].limbs, t(k) % Radix)
             /\ t(k) = Radix * p[k].carry + (t(k) % Radix)
  <2>1. p[k] = RowLimb(p[k - 1], res[k], RowTerm(j, limb, b, k))
    BY RowPassOf
  <2>2. p[k - 1] \in Accumulated /\ res[k] \in Limb /\ k \in Nat
    BY <1>1, DigitTyped
  <2> DEFINE o == RowLimb(p[k - 1], res[k], RowTerm(j, limb, b, k))
  <2> HIDE DEF p
  <2>3. o.limbs = Append(p[k - 1].limbs, t(k) % Radix) /\ t(k) = Radix * o.carry + (t(k) % Radix)
    <3>1. o.limbs = Append(p[k - 1].limbs, t(k) % Radix)
      BY DEF RowLimb
    <3>2. t(k) = Radix * o.carry + (t(k) % Radix)
      BY <2>2, RowLimbOf
    <3> QED  BY <3>1, <3>2
  <2> HIDE DEF o, t
  <2> QED  BY <2>1, <2>3 DEF o
<1>3. AddRow(res, j, limb, b) = p[n].limbs
  BY DEF AddRow
<1> HIDE DEF p, n, t
<1>4. \A k \in 0 .. n : p[k].limbs \in Seq(Limb) /\ p[k].carry \in Limb
  BY <1>1 DEF Accumulated
<1> DEFINE Q == {k \in 0 .. n : Len(p[k].limbs) = k /\ \A i \in 1 .. k : p[k].limbs[i] = t(i) % Radix}
<1>5. 0 \in Q
  BY <1>1 DEF NoLimbs
<1>6. ASSUME NEW k \in 1 .. n, k - 1 \in Q PROVE k \in Q
  <2>1. p[k].limbs = Append(p[k - 1].limbs, t(k) % Radix)
    BY <1>2
  <2>2. k - 1 \in 0 .. n /\ p[k - 1].limbs \in Seq(Limb) /\ Len(p[k - 1].limbs) = k - 1
    BY <1>1, <1>4, <1>6
  <2>3. Len(p[k].limbs) = k
    BY <2>1, <2>2
  <2>4. ASSUME NEW i \in 1 .. k PROVE p[k].limbs[i] = t(i) % Radix
    <3>1. CASE i = k
      BY <2>1, <2>2, <3>1
    <3>2. CASE i # k
      <4>1. i \in 1 .. k - 1
        BY <3>2
      <4>2. p[k].limbs[i] = p[k - 1].limbs[i]
        BY <2>1, <2>2, <4>1
      <4> QED  BY <1>6, <4>1, <4>2
    <3> QED  BY <3>1, <3>2
  <2> QED  BY <2>3, <2>4
<1> HIDE DEF Q
<1>7. n \in Q
  <2>1. \A k \in 0 .. n : k \in Q
    BY <1>1, <1>5, <1>6, SetInduction
  <2> QED  BY <1>1, <2>1
<1>8. p[n].limbs \in Seq(Limb) /\ Len(p[n].limbs) = n /\ p[0].carry = 0
  BY <1>1, <1>4, <1>7 DEF Q, NoLimbs
<1>9. \A k \in 1 .. n : t(k) = Radix * p[k].carry + p[n].limbs[k]
  BY <1>2, <1>7 DEF Q
<1> QED  BY <1>3, <1>4, <1>8, <1>9 DEF p, n, t

\* Arrays of n limbs.
Arrays(n) == {s \in Seq(Limb) : Len(s) = n}

LEMMA ZeroLimbsTyped ==
  ASSUME NEW n \in Nat
  PROVE  ZeroLimbs(n) \in Arrays(n)
<1>1. 0 \in Limb
  BY LimbsTyped
<1>2. ZeroLimbs(n) \in Seq(Limb) /\ Len(ZeroLimbs(n)) = n
  BY <1>1 DEF ZeroLimbs
<1> QED  BY <1>2 DEF Arrays

\* Every row has the length of both factors together.
LEMMA RowsOf ==
  ASSUME NEW a \in Seq(Limb), NEW b \in Seq(Limb)
  PROVE  /\ Rows(a, b)[0] = ZeroLimbs(Len(a) + Len(b)) /\ \A i \in 0 .. Len(a) : Rows(a, b)[i] \in Arrays(Len(a) + Len(b))
         /\ \A i \in 1 .. Len(a) : Rows(a, b)[i] = AddRow(Rows(a, b)[i - 1], i, a[i], b)
<1> DEFINE Step(r) == [i \in 0 .. Len(a) |-> IF i = 0 THEN ZeroLimbs(Len(a) + Len(b)) ELSE AddRow(r[i - 1], i, a[i], b)]
           c == CHOOSE r : r = Step(r)
           g == [i \in 1 .. Len(a) |-> [s \in Arrays(Len(a) + Len(b)) |-> AddRow(s, i, a[i], b)]]
<1>n. Len(a) \in Nat /\ ZeroLimbs(Len(a) + Len(b)) \in Arrays(Len(a) + Len(b))
  BY DigitTyped, ZeroLimbsTyped
<1>0. ASSUME NEW i \in 1 .. Len(a), NEW s \in Arrays(Len(a) + Len(b)) PROVE AddRow(s, i, a[i], b) \in Arrays(Len(a) + Len(b))
  <2>1. i \in Nat /\ a[i] \in Limb /\ s \in Seq(Limb) /\ Len(s) = Len(a) + Len(b)
    BY <1>n, DigitTyped DEF Arrays
  <2> QED  BY <2>1, AddRowOf DEF Arrays
<1>1. Fits(Len(a), Arrays(Len(a) + Len(b)), g) /\ \A i \in 1 .. Len(a) : \A s \in Arrays(Len(a) + Len(b)) : g[i][s] = AddRow(s, i, a[i], b)
  BY <1>0 DEF Fits
<1> HIDE DEF g
<1>2. PICK f \in [0 .. Len(a) -> Arrays(Len(a) + Len(b))] : Run(Len(a), ZeroLimbs(Len(a) + Len(b)), g, f)
  BY <1>n, <1>1, Recursion DEF Runs
<1>3. \A i \in 1 .. Len(a) : f[i - 1] \in Arrays(Len(a) + Len(b))
  BY <1>n
<1>4. f[0] = ZeroLimbs(Len(a) + Len(b)) /\ \A i \in 1 .. Len(a) : f[i] = AddRow(f[i - 1], i, a[i], b)
  BY <1>1, <1>2, <1>3 DEF Run
<1>5. f = Step(f)
  BY <1>4
<1>6. c = Step(c)
  BY <1>5
<1>7. Rows(a, b) = c
  BY DEF Rows
<1> HIDE DEF c
<1> DEFINE e == Step(c)
<1>8. e[0] = ZeroLimbs(Len(a) + Len(b)) /\ \A i \in 1 .. Len(a) : e[i] = AddRow(c[i - 1], i, a[i], b)
  <2>1. \A i \in 0 .. Len(a) : e[i] = IF i = 0 THEN ZeroLimbs(Len(a) + Len(b)) ELSE AddRow(c[i - 1], i, a[i], b)
    OBVIOUS
  <2> HIDE DEF e
  <2> QED  BY <1>n, <2>1
<1> HIDE DEF e
<1>9. c[0] = ZeroLimbs(Len(a) + Len(b)) /\ \A i \in 1 .. Len(a) : c[i] = AddRow(c[i - 1], i, a[i], b)
  BY <1>6, <1>8 DEF e
<1>10. \A i \in 0 .. Len(a) : c[i] \in Arrays(Len(a) + Len(b))
  <2>1. c[0] \in Arrays(Len(a) + Len(b)) /\ Follows(Len(a), Arrays(Len(a) + Len(b)), g, c)
    BY <1>n, <1>1, <1>9 DEF Follows
  <2> QED  BY <1>n, <1>1, <2>1, RunTyped
<1> QED  BY <1>7, <1>9, <1>10

-----------------------------------------------------------------------------
(* The value of an array of limbs, from one of them on *)

LEMMA DownInduction ==
  ASSUME NEW n \in Nat, NEW Q, n + 1 \in Q, \A i \in 1 .. n : i + 1 \in Q => i \in Q
  PROVE  \A i \in 1 .. n + 1 : i \in Q
<1> DEFINE P == {j \in 0 .. n : n + 1 - j \in Q}
<1>1. 0 \in P
  OBVIOUS
<1>2. ASSUME NEW j \in 1 .. n, j - 1 \in P PROVE j \in P
  <2>1. n + 1 - j \in 1 .. n /\ (n + 1 - j) + 1 = n + 1 - (j - 1)
    OBVIOUS
  <2>2. n + 1 - (j - 1) \in Q
    BY <1>2
  <2> QED  BY <2>1, <2>2
<1> HIDE DEF P
<1>3. \A j \in 0 .. n : j \in P
  BY <1>1, <1>2, SetInduction
<1>4. ASSUME NEW i \in 1 .. n + 1 PROVE i \in Q
  <2>1. n + 1 - i \in 0 .. n /\ n + 1 - (n + 1 - i) = i
    OBVIOUS
  <2> QED  BY <1>3, <2>1 DEF P
<1> QED  BY <1>4

\* What the limbs from i on stand for, in units of limb i.
From(d, i) == IF i <= Len(d) THEN Upper(d)[Len(d) + 1 - i] ELSE 0

LEMMA FromOf ==
  ASSUME NEW d \in Seq(Limb)
  PROVE  /\ Magnitude(d) = From(d, 1)
         /\ \A i \in Nat \ {0} : /\ From(d, i) \in Nat
                                 /\ From(d, i) = LimbAt(d, i) + Radix * From(d, i + 1)
                                 /\ i > Len(d) => From(d, i) = 0 /\ LimbAt(d, i) = 0
<1> DEFINE n == Len(d)
<1>1. n \in Nat /\ DOMAIN d = 1 .. n /\ Radix \in Nat
  BY DigitTyped, ByteRangeDivides
<1>2. /\ Upper(d)[0] = 0 /\ \A i \in 0 .. n : Upper(d)[i] \in Nat
      /\ \A i \in 1 .. n : Upper(d)[i] = d[n + 1 - i] + Radix * Upper(d)[i - 1]
  BY UpperOf
<1>3. Magnitude(d) = From(d, 1)
  <2>1. CASE n = 0
    BY <1>2, <2>1 DEF Magnitude, From
  <2>2. CASE n # 0
    <3>1. 1 <= n /\ n + 1 - 1 = n
      BY <1>1, <2>2
    <3> QED  BY <3>1 DEF Magnitude, From
  <2> QED  BY <2>1, <2>2
<1> HIDE DEF n
<1>4. ASSUME NEW i \in 1 .. n
      PROVE  From(d, i) \in Nat /\ From(d, i) = LimbAt(d, i) + Radix * From(d, i + 1)
  <2> DEFINE k == n + 1 - i
  <2>1. k \in 1 .. n /\ n + 1 - k = i /\ k - 1 = n + 1 - (i + 1)
    BY <1>1
  <2>2. From(d, i) = Upper(d)[k] /\ LimbAt(d, i) = d[i]
    BY <1>1 DEF From, LimbAt, n
  <2>3. From(d, i + 1) = Upper(d)[k - 1]
    <3>1. CASE i + 1 <= n
      BY <2>1, <3>1 DEF From, n
    <3>2. CASE ~ (i + 1 <= n)
      <4>1. k - 1 = 0
        BY <1>1, <3>2
      <4> QED  BY <1>2, <3>2, <4>1 DEF From, n
    <3> QED  BY <3>1, <3>2
  <2> HIDE DEF k
  <2>4. Upper(d)[k] = d[i] + Radix * Upper(d)[k - 1] /\ Upper(d)[k] \in Nat
    BY <1>1, <1>2, <2>1
  <2> QED  BY <2>2, <2>3, <2>4
<1>5. ASSUME NEW i \in Nat \ {0}, i > n
      PROVE  From(d, i) = 0 /\ LimbAt(d, i) = 0 /\ From(d, i + 1) = 0
  BY <1>1, <1>5 DEF From, LimbAt, n
<1>6. ASSUME NEW i \in Nat \ {0}
      PROVE  From(d, i) \in Nat /\ From(d, i) = LimbAt(d, i) + Radix * From(d, i + 1)
  <2>1. CASE i \in 1 .. n
    BY <1>4, <2>1
  <2>2. CASE i > n
    <3>1. Radix * 0 = 0
      BY <1>1
    <3> QED  BY <1>5, <2>2, <3>1
  <2> QED  BY <1>1, <2>1, <2>2
<1> QED  BY <1>3, <1>5, <1>6 DEF n

\* Trim drops the limbs above the highest one that is not zero.
LEMMA TrimOf ==
  ASSUME NEW d \in Seq(Limb)
  PROVE  /\ Trim(d) \in Seq(Limb) /\ Len(Trim(d)) \in 0 .. Len(d)
         /\ Trim(d) # <<>> => Trim(d)[Len(Trim(d))] # 0
         /\ \A i \in 1 .. Len(Trim(d)) : Trim(d)[i] = d[i]
         /\ \A i \in Nat \ {0} : LimbAt(Trim(d), i) = LimbAt(d, i)
<1> DEFINE n == Len(d)
           Top(k) == (k > 0 => d[k] # 0) /\ \A j \in k + 1 .. n : d[j] = 0
           S == {k \in 0 .. n : \A j \in k + 1 .. n : d[j] = 0}
           top == CHOOSE k \in 0 .. n : Top(k)
<1>1. n \in Nat /\ DOMAIN d = 1 .. n /\ \A i \in 1 .. n : d[i] \in Limb
  BY DigitTyped
<1>2. Trim(d) = SubSeq(d, 1, top)
  BY DEF Trim
<1>3. \E k \in 0 .. n : Top(k)
  <2>1. S \subseteq Nat /\ n \in S
    BY <1>1
  <2> HIDE DEF S
  <2>2. PICK m \in S : \A k \in S : m <= k
    BY <2>1, LeastNumber
  <2>3. m \in 0 .. n /\ \A j \in m + 1 .. n : d[j] = 0
    BY <2>2 DEF S
  <2>4. ASSUME m > 0, d[m] = 0 PROVE FALSE
    <3>1. m - 1 \in 0 .. n /\ ~ (m <= m - 1)
      BY <1>1, <2>3, <2>4
    <3>2. \A j \in (m - 1) + 1 .. n : d[j] = 0
      BY <1>1, <2>3, <2>4
    <3>3. m - 1 \in S
      BY <3>1, <3>2 DEF S
    <3> QED  BY <2>2, <3>1, <3>3
  <2> QED  BY <2>3, <2>4
<1>4. top \in 0 .. n /\ Top(top)
  BY <1>3
<1> HIDE DEF top, S, n
<1>5. SubSeq(d, 1, top) \in Seq(Limb) /\ Len(SubSeq(d, 1, top)) = top
  BY <1>1, <1>4 DEF n
<1>6. \A i \in 1 .. top : SubSeq(d, 1, top)[i] = d[i]
  BY <1>1, <1>4 DEF n
<1> DEFINE t == Trim(d)
<1>7. t \in Seq(Limb) /\ Len(t) = top /\ \A i \in 1 .. top : t[i] = d[i]
  BY <1>2, <1>5, <1>6
<1> HIDE DEF t
<1>8. t # <<>> => t[Len(t)] # 0
  <2>1. ASSUME t # <<>> PROVE top > 0
    BY <1>4, <1>7, <2>1
  <2> QED  BY <1>1, <1>4, <1>7, <2>1
<1>9. ASSUME NEW i \in Nat \ {0} PROVE LimbAt(t, i) = LimbAt(d, i)
  <2>0. DOMAIN t = 1 .. top
    BY <1>7
  <2>1. CASE i <= top
    BY <1>1, <1>4, <1>7, <2>0, <2>1 DEF LimbAt
  <2>2. CASE i > top
    BY <1>1, <1>4, <2>0, <2>2 DEF LimbAt
  <2> QED  BY <1>1, <1>4, <2>1, <2>2
<1> QED  BY <1>4, <1>7, <1>8, <1>9 DEF t, n

\* Two arrays with the same limbs, up to zeros above, have one value.
LEMMA SameValue ==
  ASSUME NEW d \in Seq(Limb), NEW e \in Seq(Limb),
         \A i \in Nat \ {0} : LimbAt(d, i) = LimbAt(e, i)
  PROVE  Magnitude(d) = Magnitude(e)
<1> DEFINE n == Larger(Len(d), Len(e))
           Q == {i \in 1 .. n + 1 : From(d, i) = From(e, i)}
<1>1. n \in Nat /\ n >= Len(d) /\ n >= Len(e)
  BY DigitTyped DEF Larger
<1> HIDE DEF n
<1>2. n + 1 \in Q
  <2>1. n + 1 \in Nat \ {0} /\ n + 1 > Len(d) /\ n + 1 > Len(e)
    BY <1>1, DigitTyped
  <2>2. From(d, n + 1) = 0 /\ From(e, n + 1) = 0
    BY <2>1, FromOf
  <2> QED  BY <1>1, <2>2
<1>3. ASSUME NEW i \in 1 .. n, i + 1 \in Q PROVE i \in Q
  <2>1. i \in Nat \ {0}
    OBVIOUS
  <2>2. From(d, i) = LimbAt(d, i) + Radix * From(d, i + 1)
    BY <2>1, FromOf
  <2>3. From(e, i) = LimbAt(e, i) + Radix * From(e, i + 1)
    BY <2>1, FromOf
  <2> QED  BY <1>1, <1>3, <2>1, <2>2, <2>3
<1> HIDE DEF Q
<1>4. 1 \in Q
  <2>1. \A i \in 1 .. n + 1 : i \in Q
    BY <1>1, <1>2, <1>3, DownInduction
  <2> QED  BY <1>1, <2>1
<1> QED  BY <1>4, FromOf DEF Q

LEMMA TrimKeepsValue ==
  ASSUME NEW d \in Seq(Limb)
  PROVE  Magnitude(Trim(d)) = Magnitude(d)
<1>1. Trim(d) \in Seq(Limb) /\ \A i \in Nat \ {0} : LimbAt(Trim(d), i) = LimbAt(d, i)
  BY TrimOf
<1> QED  BY <1>1, SameValue

-----------------------------------------------------------------------------
(* The kernels: what each of them computes *)

\* The limbs of a product by a word, with the last carry on top, be it zero.
WordLimbs(d, v) ==
  Append([i \in 1 .. Len(d) |-> (d[i] * v + Carries(d, v)[i - 1]) % Radix], Carries(d, v)[Len(d)])

LEMMA WordLimbsOf ==
  ASSUME NEW d \in Seq(Limb), NEW v \in Limb
  PROVE  /\ WordLimbs(d, v) \in Seq(Limb) /\ Len(WordLimbs(d, v)) = Len(d) + 1
         /\ Magnitude(WordLimbs(d, v)) = v * Magnitude(d)
<1> DEFINE n == Len(d)
           c == Carries(d, v)
           w == WordLimbs(d, v)
           u == [i \in 1 .. n |-> (d[i] * v + c[i - 1]) % Radix]
<1>1. n \in Nat /\ Radix \in Nat /\ v \in Nat
  BY DigitTyped, ByteRangeDivides, LimbsTyped
<1>2. c[0] = 0 /\ \A i \in 0 .. n : c[i] \in Limb /\ c[i] \in Nat
  <2>1. c[0] = 0 /\ \A i \in 0 .. n : c[i] \in Limb
    BY CarriesOf
  <2> HIDE DEF c
  <2> QED  BY <2>1, LimbsTyped
<1>3. ASSUME NEW i \in 1 .. n
      PROVE  /\ u[i] \in Limb /\ d[i] * v + c[i - 1] = Radix * c[i] + u[i]
  <2>1. c[i] = (d[i] * v + c[i - 1]) \div Radix
    BY CarriesOf
  <2>2. u[i] = (d[i] * v + c[i - 1]) % Radix
    OBVIOUS
  <2>3. i - 1 \in 0 .. n /\ d[i] \in Limb /\ d[i] \in Nat /\ 0 \in Limb
    BY <1>1, DigitTyped, LimbsTyped
  <2> HIDE DEF c, u
  <2>4. d[i] * v \in Nat /\ c[i - 1] \in Limb /\ c[i - 1] \in Nat
    BY <1>1, <1>2, <2>3
  <2> DEFINE t == 0 + d[i] * v + c[i - 1]
  <2>5. t % Radix \in Limb /\ t = Radix * (t \div Radix) + (t % Radix)
    BY <2>3, <2>4, DoubleLimb
  <2>6. t = d[i] * v + c[i - 1]
    BY <2>4
  <2> QED  BY <2>1, <2>2, <2>5, <2>6
<1>4. w = Append(u, c[n])
  BY DEF WordLimbs
<1> HIDE DEF n, c, w, u
<1>5. u \in Seq(Limb) /\ Len(u) = n
  <2>1. u \in [1 .. n -> Limb]
    <3>1. u = [i \in 1 .. n |-> u[i]]
      BY DEF u
    <3> QED  BY <1>3, <3>1
  <2> QED  BY <1>1, <2>1
<1>6. /\ w \in Seq(Limb) /\ Len(w) = n + 1 /\ w[n + 1] = c[n]
      /\ \A i \in 1 .. n : w[i] = u[i]
  BY <1>1, <1>2, <1>4, <1>5
<1> DEFINE Q == {i \in 1 .. n + 1 : From(w, i) = v * From(d, i) + c[i - 1]}
<1>7. n + 1 \in Q
  <2>1. n + 1 \in Nat \ {0} /\ n + 2 \in Nat \ {0} /\ n + 2 = (n + 1) + 1 /\ n + 1 > Len(d) /\ n + 2 > Len(w)
    BY <1>1, <1>6 DEF n
  <2>2. From(d, n + 1) = 0 /\ From(w, n + 2) = 0 /\ From(w, n + 1) = LimbAt(w, n + 1) + Radix * From(w, n + 2)
    BY <1>6, <2>1, FromOf
  <2>3. LimbAt(w, n + 1) = c[n] /\ c[n] \in Nat /\ (n + 1) - 1 = n
    BY <1>1, <1>2, <1>6 DEF LimbAt
  <2>4. Radix * 0 = 0 /\ v * 0 = 0
    BY <1>1
  <2> QED  BY <1>1, <2>2, <2>3, <2>4
<1>8. ASSUME NEW i \in 1 .. n, i + 1 \in Q PROVE i \in Q
  <2> DEFINE D == From(d, i + 1)
             W == From(w, i + 1)
             e == d[i]
             a == c[i - 1]
             b == c[i]
             k == w[i]
  <2>1. i \in Nat \ {0} /\ i + 1 \in Nat \ {0} /\ (i + 1) - 1 = i /\ i - 1 \in 0 .. n
    BY <1>1
  <2>2. From(w, i) = LimbAt(w, i) + Radix * W /\ From(d, i) = LimbAt(d, i) + Radix * D /\ D \in Nat /\ W \in Nat
    BY <1>6, <2>1, FromOf
  <2>3. LimbAt(w, i) = k /\ LimbAt(d, i) = e /\ e \in Nat /\ k \in Nat
    BY <1>1, <1>6, <1>3, DigitTyped, LimbsTyped DEF LimbAt, n
  <2>4. W = v * D + b
    BY <1>8, <2>1
  <2>5. e * v + a = Radix * b + k /\ a \in Nat /\ b \in Nat
    BY <1>2, <1>3, <1>6, <2>1
  <2> HIDE DEF D, W, e, a, b, k
  <2>6. k + Radix * W = v * (e + Radix * D) + a
    <3> DEFINE p == v * (Radix * D)
               q == Radix * b
               r == e * v
    <3>1. Radix * W = p + q
      BY <1>1, <2>2, <2>4, <2>5
    <3>2. v * (e + Radix * D) = r + p
      BY <1>1, <2>2, <2>3
    <3>3. p \in Nat /\ q \in Nat /\ r \in Nat /\ r + a = q + k
      BY <1>1, <2>2, <2>3, <2>5
    <3> HIDE DEF p, q, r
    <3> QED  BY <2>3, <2>5, <3>1, <3>2, <3>3
  <2>7. From(w, i) = v * From(d, i) + c[i - 1]
    BY <2>2, <2>3, <2>6 DEF a
  <2> QED  BY <1>1, <2>7
<1> HIDE DEF Q
<1>9. 1 \in Q
  <2>1. \A i \in 1 .. n + 1 : i \in Q
    BY <1>1, <1>7, <1>8, DownInduction
  <2> QED  BY <1>1, <2>1
<1>10. Magnitude(w) = v * Magnitude(d)
  <2>1. Magnitude(w) = From(w, 1) /\ Magnitude(d) = From(d, 1) /\ From(d, 1) \in Nat
    BY <1>6, FromOf
  <2>2. From(w, 1) = v * From(d, 1) + c[0] /\ v * From(d, 1) \in Nat
    BY <1>1, <1>9, <2>1 DEF Q
  <2> QED  BY <1>2, <2>1, <2>2
<1> QED  BY <1>6, <1>10 DEF w, n

\* The product by a word fits one limb more, and is the product.
LEMMA MulWordOf ==
  ASSUME NEW d \in Seq(Limb), NEW v \in Limb
  PROVE  /\ MulWord(d, v) \in Seq(Limb) /\ Len(MulWord(d, v)) <= Len(d) + 1
         /\ Magnitude(MulWord(d, v)) = v * Magnitude(d)
<1> DEFINE n == Len(d)
           c == Carries(d, v)
           w == WordLimbs(d, v)
           u == [i \in 1 .. n |-> (d[i] * v + c[i - 1]) % Radix]
           all == IF c[n] = 0 THEN u ELSE Append(u, c[n])
<1>1. w \in Seq(Limb) /\ Len(w) = n + 1 /\ Magnitude(w) = v * Magnitude(d) /\ n \in Nat
  BY WordLimbsOf, DigitTyped
<1>2. w = Append(u, c[n])
  BY DEF WordLimbs
<1>3. MulWord(d, v) = IF IsPowerOf2(v) THEN Trim(all) ELSE all
  BY DEF MulWord
<1>u. DOMAIN u = 1 .. n
  OBVIOUS
<1> HIDE DEF n, c, w, u
<1>4. u \in Seq(Limb) /\ Len(u) = n /\ \A i \in 1 .. n : w[i] = u[i]
  <2>1. ASSUME NEW i \in 1 .. n PROVE u[i] \in Limb /\ w[i] = u[i]
    <3>1. Append(u, c[n])[i] = u[i]
      <4>1. u = [j \in 1 .. n |-> u[j]]
        BY DEF u
      <4>2. u \in Seq({u[j] : j \in 1 .. n}) /\ Len(u) = n
        BY <1>1, <4>1, SMTT(60)
      <4> QED  BY <1>1, <4>2
    <3>2. w[i] \in Limb
      BY <1>1
    <3> QED  BY <1>2, <3>1, <3>2
  <2>2. u = [j \in 1 .. n |-> u[j]]
    BY DEF u
  <2> QED  BY <1>1, <2>1, <2>2
<1>5. all \in Seq(Limb) /\ Len(all) <= n + 1 /\ Magnitude(all) = v * Magnitude(d)
  <2>1. CASE c[n] # 0
    <3>1. all = w
      BY <1>2, <2>1
    <3>2. Len(all) <= n + 1
      BY <1>1, <3>1
    <3> QED  BY <1>1, <3>1, <3>2
  <2>2. CASE c[n] = 0
    <3>1. all = u
      BY <2>2
    <3>2. w[n + 1] = 0
      BY <1>1, <1>2, <1>4, <2>2
    <3>3. ASSUME NEW i \in Nat \ {0} PROVE LimbAt(u, i) = LimbAt(w, i)
      <4>1. DOMAIN u = 1 .. n /\ DOMAIN w = 1 .. n + 1
        BY <1>1, <1>4
      <4>2. CASE i \in 1 .. n
        BY <1>1, <1>4, <4>1, <4>2 DEF LimbAt
      <4>3. CASE i = n + 1
        BY <1>1, <3>2, <4>1, <4>3 DEF LimbAt
      <4>4. CASE i > n + 1
        BY <1>1, <4>1, <4>4 DEF LimbAt
      <4> QED  BY <1>1, <4>2, <4>3, <4>4
    <3>4. Magnitude(u) = Magnitude(w)
      BY <1>1, <1>4, <3>3, SameValue
    <3> QED  BY <1>1, <1>4, <3>1, <3>4
  <2> QED  BY <2>1, <2>2
<1> HIDE DEF all
<1>6. Trim(all) \in Seq(Limb) /\ Len(Trim(all)) <= n + 1 /\ Magnitude(Trim(all)) = v * Magnitude(d)
  <2>1. Trim(all) \in Seq(Limb) /\ Len(Trim(all)) \in 0 .. Len(all) /\ Magnitude(Trim(all)) = Magnitude(all)
    BY <1>5, TrimOf, TrimKeepsValue
  <2>2. Len(all) \in Nat
    BY <1>5, DigitTyped
  <2> QED  BY <1>1, <1>5, <2>1, <2>2
<1> QED  BY <1>3, <1>5, <1>6 DEF n

\* Division by a word: the quotient and the remainder of the value.
LEMMA DivModWordOf ==
  ASSUME NEW d \in Seq(Limb), NEW v \in Limb \ {0}
  PROVE  LET o == DivModWord(d, v)
         IN  /\ o.quot \in Seq(Limb) /\ Len(o.quot) <= Len(d) /\ o.rem \in 0 .. v - 1
             /\ Magnitude(d) = v * Magnitude(o.quot) + o.rem
<1> DEFINE n == Len(d)
           r == Remainders(d, v)
           q == [i \in 1 .. n |-> (r[n - i] * Radix + d[i]) \div v]
           o == DivModWord(d, v)
<1>1. n \in Nat /\ Radix \in Nat \ {0} /\ v \in Nat \ {0} /\ v < Radix
  BY DigitTyped, ByteRangeDivides, LimbsTyped
<1>2. o = IF v = 1 \/ d = <<>> THEN [quot |-> d, rem |-> 0] ELSE [quot |-> Trim(q), rem |-> r[n]]
  BY DEF DivModWord
<1>3. /\ r[0] = 0 /\ \A k \in 0 .. n : r[k] \in 0 .. v - 1
      /\ \A k \in 1 .. n : r[k] = (r[k - 1] * Radix + d[n + 1 - k]) % v
  BY RemaindersOf
<1> HIDE DEF r, o
<1>4. ASSUME NEW i \in 1 .. n
      PROVE  q[i] \in Limb /\ r[n - i] * Radix + d[i] = v * q[i] + r[n + 1 - i]
  <2> DEFINE a == r[n - i] * Radix + d[i]
  <2>1. /\ n - i \in 0 .. n /\ n + 1 - i \in 1 .. n /\ (n + 1 - i) - 1 = n - i
        /\ n + 1 - (n + 1 - i) = i /\ d[i] \in Nat /\ d[i] < Radix
    BY <1>1, DigitTyped
  <2>2. q[i] = a \div v /\ r[n + 1 - i] = a % v
    BY <1>3, <2>1
  <2> DEFINE s == r[n - i]
             e == d[i]
  <2>3. s \in 0 .. v - 1
    BY <1>3, <2>1
  <2> HIDE DEF s, e, q
  <2>4. s * Radix + e \in Nat /\ s * Radix + e < v * Radix
    <3>1. PICK k \in Nat : v = s + 1 + k
      <4>1. v - s - 1 \in Nat /\ v = s + 1 + (v - s - 1)
        BY <1>1, <2>3
      <4> QED  BY <4>1
    <3>2. v * Radix = s * Radix + Radix + k * Radix /\ k * Radix \in Nat /\ s * Radix \in Nat
      BY <1>1, <2>3, <3>1
    <3>3. e \in Nat /\ e < Radix
      BY <2>1 DEF e
    <3> QED  BY <1>1, <3>2, <3>3
  <2>5. a \in Nat /\ a < v * Radix
    BY <2>4 DEF s, e
  <2> HIDE DEF a
  <2>6. a \div v \in Nat /\ a \div v < Radix /\ a = v * (a \div v) + (a % v)
    BY <1>1, <2>5, Division, QuotientBelow
  <2>7. q[i] \in Limb
    BY <1>1, <2>2, <2>6 DEF Limb
  <2>8. a = v * q[i] + r[n + 1 - i]
    BY <2>2, <2>6
  <2> QED  BY <2>7, <2>8 DEF a
<1>q. q = [i \in 1 .. n |-> q[i]]
  OBVIOUS
<1> HIDE DEF q
<1>5. q \in Seq(Limb) /\ Len(q) = n
  BY <1>1, <1>4, <1>q
<1> DEFINE Q == {i \in 1 .. n + 1 : From(d, i) = v * From(q, i) + r[n + 1 - i]}
<1>6. n + 1 \in Q
  <2>1. n + 1 \in Nat \ {0} /\ n + 1 > Len(d) /\ n + 1 > Len(q) /\ n + 1 - (n + 1) = 0
    BY <1>1, <1>5
  <2>2. From(d, n + 1) = 0 /\ From(q, n + 1) = 0
    BY <1>5, <2>1, FromOf
  <2>3. v * 0 = 0
    BY <1>1
  <2> QED  BY <1>1, <1>3, <2>1, <2>2, <2>3
<1>7. ASSUME NEW i \in 1 .. n, i + 1 \in Q PROVE i \in Q
  <2> DEFINE D == From(d, i + 1)
             W == From(q, i + 1)
             e == d[i]
             k == q[i]
             a == r[n - i]
             b == r[n + 1 - i]
  <2>1. i \in Nat \ {0} /\ i + 1 \in Nat \ {0} /\ n + 1 - (i + 1) = n - i /\ n - i \in 0 .. n /\ n + 1 - i \in 0 .. n
    BY <1>1
  <2>2. From(q, i) = LimbAt(q, i) + Radix * W /\ From(d, i) = LimbAt(d, i) + Radix * D /\ D \in Nat /\ W \in Nat
    BY <1>5, <2>1, FromOf
  <2>3. LimbAt(q, i) = k /\ LimbAt(d, i) = e /\ e \in Nat /\ k \in Nat
    BY <1>1, <1>4, <1>5, DigitTyped, LimbsTyped DEF LimbAt
  <2>4. D = v * W + a
    BY <1>7, <2>1
  <2>5. a * Radix + e = v * k + b /\ a \in Nat /\ b \in Nat
    BY <1>3, <1>4, <2>1
  <2> HIDE DEF D, W, e, k, a, b
  <2>6. e + Radix * D = v * (k + Radix * W) + b
    <3> DEFINE p == v * (Radix * W)
               s == a * Radix
               t == v * k
    <3>1. Radix * D = p + s
      BY <1>1, <2>2, <2>4, <2>5
    <3>2. v * (k + Radix * W) = t + p
      BY <1>1, <2>2, <2>3
    <3>3. p \in Nat /\ s \in Nat /\ t \in Nat /\ s + e = t + b
      BY <1>1, <2>2, <2>3, <2>5
    <3> HIDE DEF p, s, t
    <3> QED  BY <2>3, <2>5, <3>1, <3>2, <3>3
  <2>7. From(d, i) = v * From(q, i) + r[n + 1 - i]
    BY <2>2, <2>3, <2>6 DEF b
  <2> QED  BY <1>1, <2>7
<1> HIDE DEF Q
<1>8. Magnitude(d) = v * Magnitude(q) + r[n]
  <2>1. \A i \in 1 .. n + 1 : i \in Q
    BY <1>1, <1>6, <1>7, DownInduction
  <2>2. 1 \in Q /\ n + 1 - 1 = n
    BY <1>1, <2>1
  <2>3. Magnitude(q) = From(q, 1) /\ Magnitude(d) = From(d, 1)
    BY <1>5, FromOf
  <2> QED  BY <2>2, <2>3 DEF Q
<1>9. CASE v = 1 \/ d = <<>>
  <2>1. o.quot = d /\ o.rem = 0
    BY <1>2, <1>9
  <2>2. Magnitude(d) = From(d, 1) /\ From(d, 1) \in Nat /\ (1 > Len(d) => From(d, 1) = 0)
    BY FromOf
  <2>3. Magnitude(d) = v * Magnitude(d) + 0
    BY <1>1, <1>9, <2>2
  <2> QED  BY <1>1, <2>1, <2>3 DEF o, n
<1>10. CASE ~ (v = 1 \/ d = <<>>)
  <2>1. o.quot = Trim(q) /\ o.rem = r[n]
    BY <1>2, <1>10
  <2>2. Trim(q) \in Seq(Limb) /\ Len(Trim(q)) \in 0 .. Len(q) /\ Magnitude(Trim(q)) = Magnitude(q)
    BY <1>5, TrimOf, TrimKeepsValue
  <2>3. r[n] \in 0 .. v - 1 /\ Len(Trim(q)) <= n
    BY <1>1, <1>3, <1>5, <2>2
  <2> QED  BY <1>8, <2>1, <2>2, <2>3 DEF o, n
<1> QED  BY <1>9, <1>10

\* Limbs that add up to those of f, one by one, are numbers that add up to f.
LEMMA SumValue ==
  ASSUME NEW d \in Seq(Limb), NEW e \in Seq(Limb), NEW f \in Seq(Limb),
         \A i \in Nat \ {0} : LimbAt(f, i) = LimbAt(d, i) + LimbAt(e, i)
  PROVE  Magnitude(f) = Magnitude(d) + Magnitude(e)
<1> DEFINE n == Larger(Larger(Len(d), Len(e)), Len(f))
           Q == {i \in 1 .. n + 1 : From(f, i) = From(d, i) + From(e, i)}
<1>1. n \in Nat /\ n >= Len(d) /\ n >= Len(e) /\ n >= Len(f) /\ Radix \in Nat
  BY DigitTyped, ByteRangeDivides DEF Larger
<1> HIDE DEF n
<1>2. n + 1 \in Q
  <2>1. n + 1 \in Nat \ {0} /\ n + 1 > Len(d) /\ n + 1 > Len(e) /\ n + 1 > Len(f)
    BY <1>1, DigitTyped
  <2>2. From(d, n + 1) = 0 /\ From(e, n + 1) = 0 /\ From(f, n + 1) = 0
    BY <2>1, FromOf
  <2> QED  BY <1>1, <2>2
<1>3. ASSUME NEW i \in 1 .. n, i + 1 \in Q PROVE i \in Q
  <2> DEFINE D == From(d, i + 1)
             E == From(e, i + 1)
             F == From(f, i + 1)
  <2>1. i \in Nat \ {0} /\ i + 1 \in Nat \ {0}
    OBVIOUS
  <2>2. /\ From(d, i) = LimbAt(d, i) + Radix * D /\ From(e, i) = LimbAt(e, i) + Radix * E
        /\ From(f, i) = LimbAt(f, i) + Radix * F /\ D \in Nat /\ E \in Nat
    BY <2>1, FromOf
  <2>3. F = D + E /\ LimbAt(f, i) = LimbAt(d, i) + LimbAt(e, i)
    BY <1>3, <2>1
  <2>4. LimbAt(d, i) \in Nat /\ LimbAt(e, i) \in Nat
    <3>1. LimbAt(d, i) \in Limb /\ LimbAt(e, i) \in Limb
      BY <2>1, LimbAtTyped
    <3> QED  BY <3>1, LimbsTyped
  <2> HIDE DEF D, E, F
  <2>5. Radix * F = Radix * D + Radix * E /\ Radix * D \in Nat /\ Radix * E \in Nat
    BY <1>1, <2>2, <2>3
  <2>6. From(f, i) = From(d, i) + From(e, i)
    BY <2>2, <2>3, <2>4, <2>5
  <2> QED  BY <1>1, <2>6
<1> HIDE DEF Q
<1>4. 1 \in Q
  <2>1. \A i \in 1 .. n + 1 : i \in Q
    BY <1>1, <1>2, <1>3, DownInduction
  <2> QED  BY <1>1, <2>1
<1> QED  BY <1>4, FromOf DEF Q

LEMMA WordValue ==
  /\ <<>> \in Seq(Limb) /\ Len(<<>>) = 0 /\ Magnitude(<<>>) = 0
  /\ \A v \in Limb : <<v>> \in Seq(Limb) /\ Len(<<v>>) = 1 /\ Magnitude(<<v>>) = v
<1>1. <<>> \in Seq(Limb) /\ Len(<<>>) = 0
  OBVIOUS
<1>2. Magnitude(<<>>) = 0
  BY <1>1, UpperOf DEF Magnitude
<1>3. ASSUME NEW v \in Limb PROVE <<v>> \in Seq(Limb) /\ Len(<<v>>) = 1 /\ Magnitude(<<v>>) = v
  <2> DEFINE d == <<v>>
  <2>1. d \in Seq(Limb) /\ Len(d) = 1 /\ d[1] = v /\ v \in Nat /\ Radix \in Nat
    BY LimbsTyped, ByteRangeDivides
  <2> HIDE DEF d
  <2>2. From(d, 1) = LimbAt(d, 1) + Radix * From(d, 2) /\ Magnitude(d) = From(d, 1)
    <3>1. 1 \in Nat \ {0} /\ 1 + 1 = 2
      OBVIOUS
    <3> QED  BY <2>1, <3>1, FromOf
  <2>3. From(d, 2) = 0
    <3>1. 2 \in Nat \ {0} /\ 2 > Len(d)
      BY <2>1
    <3> QED  BY <2>1, <3>1, FromOf
  <2>4. LimbAt(d, 1) = v
    BY <2>1 DEF LimbAt
  <2>5. Radix * 0 = 0
    BY <2>1
  <2>6. Magnitude(d) = v
    BY <2>1, <2>2, <2>3, <2>4, <2>5
  <2> QED  BY <2>1, <2>6 DEF d
<1> QED  BY <1>1, <1>2, <1>3

\* A sum has the longer operand's length; where no limb carries, it is the sum.
LEMMA MagAddOf ==
  ASSUME NEW a \in Seq(Limb), NEW b \in Seq(Limb)
  PROVE  /\ MagAdd(a, b) \in Seq(Limb) /\ Len(MagAdd(a, b)) = Larger(Len(a), Len(b))
         /\ (\A i \in Nat \ {0} : LimbAt(a, i) + LimbAt(b, i) < Radix)
              => Magnitude(MagAdd(a, b)) = Magnitude(a) + Magnitude(b)
<1> DEFINE n == Larger(Len(a), Len(b))
           s == MagAdd(a, b)
<1>1. n \in Nat /\ n >= Len(a) /\ n >= Len(b) /\ Radix \in Nat \ {0}
  BY DigitTyped, ByteRangeDivides DEF Larger
<1>2. s = [i \in 1 .. n |-> (LimbAt(a, i) + LimbAt(b, i)) % Radix]
  BY DEF MagAdd
<1> HIDE DEF n, s
<1>3. ASSUME NEW i \in Nat \ {0} PROVE LimbAt(a, i) \in Nat /\ LimbAt(b, i) \in Nat
  <2>1. LimbAt(a, i) \in Limb /\ LimbAt(b, i) \in Limb
    BY LimbAtTyped
  <2> QED  BY <2>1, LimbsTyped
<1>4. ASSUME NEW i \in 1 .. n PROVE (LimbAt(a, i) + LimbAt(b, i)) % Radix \in Limb
  <2>1. i \in Nat \ {0} /\ LimbAt(a, i) + LimbAt(b, i) \in Nat
    BY <1>1, <1>3
  <2> QED  BY <1>1, <2>1, Division DEF Limb
<1>5. s \in Seq(Limb) /\ Len(s) = n
  BY <1>1, <1>2, <1>4
<1>6. ASSUME \A i \in Nat \ {0} : LimbAt(a, i) + LimbAt(b, i) < Radix
      PROVE  Magnitude(s) = Magnitude(a) + Magnitude(b)
  <2>1. ASSUME NEW i \in Nat \ {0} PROVE LimbAt(s, i) = LimbAt(a, i) + LimbAt(b, i)
    <3>0. DOMAIN s = 1 .. n
      BY <1>2
    <3>1. CASE i \in 1 .. n
      <4>1. LimbAt(a, i) + LimbAt(b, i) \in 0 .. Radix - 1
        BY <1>1, <1>3, <1>6, SMTT(60)
      <4>2. (LimbAt(a, i) + LimbAt(b, i)) % Radix = LimbAt(a, i) + LimbAt(b, i)
        BY <1>1, <4>1, SMTT(60)
      <4> QED  BY <1>2, <3>0, <3>1, <4>2 DEF LimbAt
    <3>2. CASE i > n
      <4>1. i > Len(a) /\ i > Len(b)
        BY <1>1, <3>2, DigitTyped
      <4>2. LimbAt(a, i) = 0 /\ LimbAt(b, i) = 0
        BY <4>1, FromOf
      <4> QED  BY <1>1, <3>0, <3>2, <4>2 DEF LimbAt
    <3> QED  BY <1>1, <3>1, <3>2
  <2> QED  BY <1>5, <2>1, SumValue
<1> QED  BY <1>5, <1>6 DEF n, s

\* A difference has the first operand's length; where no limb borrows, it is the
\* difference.
LEMMA MagSubOf ==
  ASSUME NEW a \in Seq(Limb), NEW b \in Seq(Limb)
  PROVE  /\ MagSub(a, b) \in Seq(Limb) /\ Len(MagSub(a, b)) = Len(a)
         /\ (\A i \in Nat \ {0} : LimbAt(a, i) >= LimbAt(b, i))
              => Magnitude(a) = Magnitude(MagSub(a, b)) + Magnitude(b)
<1> DEFINE n == Len(a)
           s == MagSub(a, b)
<1>1. n \in Nat /\ Radix \in Nat \ {0} /\ DOMAIN a = 1 .. n
  BY DigitTyped, ByteRangeDivides
<1>2. s = [i \in 1 .. n |-> (a[i] - LimbAt(b, i)) % Radix]
  BY DEF MagSub
<1> HIDE DEF n, s
<1>3. ASSUME NEW i \in Nat \ {0} PROVE LimbAt(a, i) \in 0 .. Radix - 1 /\ LimbAt(b, i) \in 0 .. Radix - 1
  <2>1. LimbAt(a, i) \in Limb /\ LimbAt(b, i) \in Limb
    BY LimbAtTyped
  <2> QED  BY <2>1 DEF Limb
<1>a. \A i \in 1 .. n : a[i] = LimbAt(a, i) /\ i \in Nat \ {0}
  BY <1>1 DEF LimbAt
<1>4. ASSUME NEW i \in 1 .. n PROVE (a[i] - LimbAt(b, i)) % Radix \in Limb
  <2>1. a[i] - LimbAt(b, i) \in Int
    BY <1>1, <1>3, <1>a
  <2> QED  BY <1>1, <2>1 DEF Limb
<1>5. s \in Seq(Limb) /\ Len(s) = n
  BY <1>1, <1>2, <1>4
<1>6. ASSUME \A i \in Nat \ {0} : LimbAt(a, i) >= LimbAt(b, i)
      PROVE  Magnitude(a) = Magnitude(s) + Magnitude(b)
  <2>1. ASSUME NEW i \in Nat \ {0} PROVE LimbAt(a, i) = LimbAt(s, i) + LimbAt(b, i)
    <3>0. DOMAIN s = 1 .. n
      BY <1>2
    <3>1. CASE i \in 1 .. n
      <4>1. LimbAt(a, i) - LimbAt(b, i) \in 0 .. Radix - 1
        BY <1>1, <1>3, <1>6
      <4>2. (LimbAt(a, i) - LimbAt(b, i)) % Radix = LimbAt(a, i) - LimbAt(b, i)
        BY <1>1, <4>1
      <4>3. LimbAt(s, i) = LimbAt(a, i) - LimbAt(b, i)
        BY <1>2, <1>a, <3>0, <3>1, <4>2 DEF LimbAt
      <4> QED  BY <1>1, <1>3, <4>3
    <3>2. CASE i > n
      <4>1. LimbAt(a, i) = 0
        BY <3>2, FromOf DEF n
      <4>2. LimbAt(b, i) = 0
        BY <1>1, <1>3, <1>6, <4>1
      <4> QED  BY <1>1, <3>0, <3>2, <4>1, <4>2 DEF LimbAt
    <3> QED  BY <1>1, <3>1, <3>2
  <2> QED  BY <1>5, <2>1, SumValue
<1> QED  BY <1>5, <1>6 DEF n, s

\* The comparison orders the lengths, and finds equal arrays only.
LEMMA MagCompOf ==
  ASSUME NEW a \in Seq(Limb), NEW b \in Seq(Limb)
  PROVE  /\ MagComp(a, b) \in {-1, 0, 1}
         /\ MagComp(a, b) = 0 => a = b
         /\ MagComp(a, b) >= 0 => Len(a) >= Len(b)
         /\ MagComp(a, b) <= 0 => Len(b) >= Len(a)
<1> DEFINE differ == {i \in 1 .. Len(a) : a[i] # b[i]}
           top == CHOOSE i \in differ : \A j \in differ : j <= i
<1>1. Len(a) \in Nat /\ Len(b) \in Nat
  BY DigitTyped
<1>2. CASE Len(a) # Len(b)
  <2>1. MagComp(a, b) = IF Len(a) > Len(b) THEN 1 ELSE -1
    BY <1>2 DEF MagComp
  <2> QED  BY <1>1, <1>2, <2>1
<1>3. CASE Len(a) = Len(b) /\ differ # {}
  <2>1. MagComp(a, b) = IF a[top] > b[top] THEN 1 ELSE -1
    BY <1>3 DEF MagComp
  <2> HIDE DEF top
  <2> QED  BY <1>1, <1>3, <2>1
<1>4. CASE Len(a) = Len(b) /\ differ = {}
  <2>1. MagComp(a, b) = 0
    BY <1>4 DEF MagComp
  <2>2. a = b
    BY <1>1, <1>4
  <2> QED  BY <1>1, <1>4, <2>1, <2>2
<1> QED  BY <1>2, <1>3, <1>4

\* The copy that counts bytes leaves limbs.
LEMMA MemCopyTyped ==
  ASSUME NEW dst \in Seq(Limb), NEW src \in Seq(Limb), NEW k \in Nat
  PROVE  MemCopy(dst, src, k) \in Seq(Limb) /\ Len(MemCopy(dst, src, k)) = Len(dst)
<1>1. Len(dst) \in Nat /\ DOMAIN dst = 1 .. Len(dst)
  BY DigitTyped
<1>2. ASSUME NEW i \in 1 .. Len(dst) PROVE BytesOver(dst[i], LimbAt(src, i), BytesIn(i, k)) \in Limb
  <2>1. i \in Int /\ i \in Nat /\ dst[i] \in Limb
    BY <1>1, DigitTyped
  <2>2. LimbAt(src, i) \in Limb
    BY <2>1, LimbAtTyped
  <2>3. BytesIn(i, k) \in 0 .. LimbBytes
    BY <2>1, BytesInTyped
  <2> QED  BY <2>1, <2>2, <2>3, BytesOverTyped
<1>3. MemCopy(dst, src, k) = [i \in 1 .. Len(dst) |-> BytesOver(dst[i], LimbAt(src, i), BytesIn(i, k))]
  BY <1>1 DEF MemCopy
<1> QED  BY <1>1, <1>2, <1>3

-----------------------------------------------------------------------------
(* The schoolbook product *)

\* A row leaves the limbs below its first alone, and adds the product of its limb.
LEMMA AddRowValue ==
  ASSUME NEW res \in Seq(Limb), NEW j \in Nat \ {0}, NEW limb \in Limb, NEW b \in Seq(Limb),
         Len(res) >= j + Len(b), \A k \in Nat \ {0} : k >= j + Len(b) => LimbAt(res, k) = 0
  PROVE  LET out == AddRow(res, j, limb, b)
         IN  /\ out \in Seq(Limb) /\ Len(out) = Len(res)
             /\ \A k \in Nat \ {0} : k < j => LimbAt(out, k) = LimbAt(res, k)
             /\ \A k \in Nat \ {0} : k > j + Len(b) => LimbAt(out, k) = 0
             /\ From(out, j) = From(res, j) + limb * Magnitude(b)
<1> DEFINE n    == Len(res)
           m    == Len(b)
           out  == AddRow(res, j, limb, b)
           c(k) == RowPass(res, j, limb, b)[k].carry
           u(k) == RowTerm(j, limb, b, k)
<1>1. /\ n \in Nat /\ m \in Nat /\ Radix \in Nat \ {0} /\ limb \in Nat /\ DOMAIN res = 1 .. n
      /\ n >= j + m
  BY DigitTyped, ByteRangeDivides, LimbsTyped
<1>2. /\ out \in Seq(Limb) /\ Len(out) = n /\ c(0) = 0 /\ \A k \in 0 .. n : c(k) \in Limb
      /\ \A k \in 1 .. n : res[k] + u(k) + c(k - 1) = Radix * c(k) + out[k]
  BY AddRowOf
<1>3. \A k \in Nat \ {0} : k < j => u(k) = 0
  BY DEF RowTerm
<1>4. \A k \in Nat \ {0} : k >= j => u(k) = limb * LimbAt(b, k - j + 1)
  BY DEF RowTerm
<1>5. ASSUME NEW k \in Nat, k >= j + m PROVE u(k) = 0
  <2>1. LimbAt(b, k - j + 1) = 0
    <3>1. ~ (k - j + 1 \in 1 .. m) /\ DOMAIN b = 1 .. m
      BY <1>1, <1>5, DigitTyped
    <3> QED  BY <3>1 DEF LimbAt
  <2>2. limb * 0 = 0
    BY <1>1
  <2> QED  BY <1>1, <1>4, <1>5, <2>1, <2>2
<1> HIDE DEF n, m, out, c, u
<1>6. \A k \in 1 .. n : /\ res[k] \in Nat /\ res[k] < Radix /\ LimbAt(res, k) = res[k]
                        /\ out[k] \in Nat /\ out[k] < Radix /\ LimbAt(out, k) = out[k]
  <2>1. DOMAIN out = 1 .. n /\ \A k \in 1 .. n : out[k] \in Nat /\ out[k] < Radix
    BY <1>2, DigitTyped
  <2>2. \A k \in 1 .. n : res[k] \in Nat /\ res[k] < Radix
    BY DigitTyped DEF n
  <2> QED  BY <1>1, <2>1, <2>2 DEF LimbAt
<1>7. \A k \in 0 .. n : c(k) \in Nat /\ c(k) < Radix
  BY <1>2, LimbsTyped
\* A limb and a carry smaller than the radix are not split again.
<1>8. ASSUME NEW t \in Nat, NEW e \in Nat, NEW f \in Nat, t < Radix, t = Radix * e + f
      PROVE  e = 0 /\ f = t
  <2>1. CASE e = 0
    <3>1. Radix * 0 = 0
      BY <1>1
    <3> QED  BY <1>8, <2>1, <3>1
  <2>2. CASE e # 0
    <3>1. Radix * e >= Radix
      <4>1. e - 1 \in Nat /\ Radix * e = Radix + Radix * (e - 1) /\ Radix * (e - 1) \in Nat
        BY <1>1, <2>2
      <4> QED  BY <1>1, <4>1
    <3>2. Radix * e \in Nat
      BY <1>1
    <3> QED  BY <1>1, <1>8, <3>1, <3>2
  <2> QED  BY <2>1, <2>2
<1>9. \A k \in 0 .. j - 1 : c(k) = 0 /\ (k > 0 => out[k] = res[k])
  <2> DEFINE Q == {k \in 0 .. j - 1 : c(k) = 0 /\ (k > 0 => out[k] = res[k])}
  <2>1. 0 \in Q
    BY <1>2
  <2>2. ASSUME NEW k \in 1 .. j - 1, k - 1 \in Q PROVE k \in Q
    <3>1. k \in 1 .. n /\ k \in Nat \ {0} /\ k < j /\ k \in 0 .. n
      BY <1>1
    <3>2. res[k] + u(k) + c(k - 1) = Radix * c(k) + out[k]
      BY <1>2, <3>1
    <3>3. u(k) = 0 /\ c(k - 1) = 0
      BY <1>3, <2>2, <3>1
    <3>4. res[k] = Radix * c(k) + out[k]
      BY <1>6, <3>1, <3>2, <3>3
    <3>5. c(k) = 0 /\ out[k] = res[k]
      BY <1>6, <1>7, <1>8, <3>1, <3>4
    <3> QED  BY <3>5
  <2> HIDE DEF Q
  <2>3. \A k \in 0 .. j - 1 : k \in Q
    <3>1. j - 1 \in Nat
      OBVIOUS
    <3> QED  BY <2>1, <2>2, <3>1, SetInduction
  <2> QED  BY <2>3 DEF Q
<1>10. \A k \in Nat \ {0} : k < j => LimbAt(out, k) = LimbAt(res, k)
  <2>1. ASSUME NEW k \in Nat \ {0}, k < j PROVE LimbAt(out, k) = LimbAt(res, k)
    <3>1. k \in 1 .. n /\ k \in 0 .. j - 1 /\ k > 0
      BY <1>1, <2>1
    <3> QED  BY <1>6, <1>9, <3>1
  <2> QED  BY <2>1
\* The carry stops one limb above the row.
<1>11. \A k \in 1 .. n : k >= j + m => res[k] = 0 /\ u(k) = 0 /\ c(k - 1) = Radix * c(k) + out[k]
  <2>1. ASSUME NEW k \in 1 .. n, k >= j + m
        PROVE  res[k] = 0 /\ u(k) = 0 /\ c(k - 1) = Radix * c(k) + out[k]
    <3>1. k \in Nat \ {0} /\ k - 1 \in 0 .. n
      BY <1>1
    <3>2. res[k] = 0
      BY <1>6, <2>1, <3>1 DEF m
    <3>3. u(k) = 0
      BY <1>5, <2>1, <3>1
    <3>4. res[k] + u(k) + c(k - 1) = Radix * c(k) + out[k]
      BY <1>2
    <3> QED  BY <1>7, <3>1, <3>2, <3>3, <3>4
  <2> QED  BY <2>1
<1>12. ASSUME NEW k \in 1 .. n, k >= j + m PROVE c(k) = 0 /\ out[k] = c(k - 1)
  <2>1. k - 1 \in 0 .. n /\ k \in 0 .. n
    BY <1>1
  <2>2. c(k - 1) = Radix * c(k) + out[k]
    BY <1>11, <1>12
  <2> QED  BY <1>6, <1>7, <1>8, <2>1, <2>2
<1>13. ASSUME NEW k \in Nat \ {0}, k > j + m PROVE LimbAt(out, k) = 0
  <2>1. CASE k \in 1 .. n
    <3>1. k - 1 \in 1 .. n /\ k - 1 >= j + m /\ k >= j + m
      BY <1>1, <1>13, <2>1
    <3>2. out[k] = c(k - 1) /\ c(k - 1) = 0
      BY <1>12, <2>1, <3>1
    <3> QED  BY <1>6, <2>1, <3>2
  <2>2. CASE k > n
    BY <1>2, <2>2, FromOf
  <2> QED  BY <1>1, <2>1, <2>2
\* From the top down to limb j, the row adds its products and the carry from below.
<1> DEFINE Q == {i \in 1 .. m + 1 :
                   From(out, j + i - 1) = From(res, j + i - 1) + limb * From(b, i) + c(j + i - 2)}
<1>14. m + 1 \in Q
  <2>1. j + m \in 1 .. n /\ j + m \in Nat \ {0} /\ j + m + 1 \in Nat \ {0} /\ j + (m + 1) - 1 = j + m
        /\ j + (m + 1) - 2 = j + m - 1 /\ j + m - 1 \in 0 .. n
    BY <1>1
  <2>2. out[j + m] = c(j + m - 1) /\ res[j + m] = 0
    BY <1>1, <1>11, <1>12, <2>1
  <2>3. From(out, j + m) = LimbAt(out, j + m) + Radix * From(out, j + m + 1)
    BY <1>2, <2>1, FromOf
  <2>4. \A k \in Nat \ {0} : k > j + m => LimbAt(out, k) = 0 /\ LimbAt(res, k) = 0
    <3>1. \A k \in Nat \ {0} : k > j + m => LimbAt(res, k) = 0
      BY <1>1 DEF m
    <3> QED  BY <1>13, <3>1
  <2>5. From(out, j + m + 1) = 0 /\ From(res, j + m) = 0
    <3> DEFINE P == {i \in 1 .. n + 1 : i > j + m => From(out, i) = 0 /\ From(res, i) = 0}
    <3>1. n + 1 \in P
      <4>1. n + 1 \in Nat \ {0} /\ n + 1 > Len(out) /\ n + 1 > Len(res)
        BY <1>1, <1>2 DEF n
      <4>2. From(out, n + 1) = 0 /\ From(res, n + 1) = 0
        BY <1>2, <4>1, FromOf
      <4> QED  BY <1>1, <4>2
    <3>2. ASSUME NEW i \in 1 .. n, i + 1 \in P PROVE i \in P
      <4>1. ASSUME i > j + m PROVE From(out, i) = 0 /\ From(res, i) = 0
        <5>1. i \in Nat \ {0} /\ i + 1 > j + m
          BY <1>1, <4>1
        <5>2. LimbAt(out, i) = 0 /\ LimbAt(res, i) = 0 /\ From(out, i + 1) = 0 /\ From(res, i + 1) = 0
          BY <2>4, <3>2, <4>1, <5>1
        <5>3. From(out, i) = LimbAt(out, i) + Radix * From(out, i + 1)
              /\ From(res, i) = LimbAt(res, i) + Radix * From(res, i + 1)
          BY <1>2, <5>1, FromOf
        <5>4. Radix * 0 = 0
          BY <1>1
        <5> QED  BY <5>2, <5>3, <5>4
      <4> QED  BY <1>1, <4>1
    <3> HIDE DEF P
    <3>3. \A i \in 1 .. n + 1 : i \in P
      BY <1>1, <3>1, <3>2, DownInduction
    <3>4. j + m + 1 \in 1 .. n + 1 /\ j + m + 1 > j + m
      BY <1>1
    <3>5. From(out, j + m + 1) = 0 /\ From(res, j + m + 1) = 0
      BY <3>3, <3>4 DEF P
    <3>6. From(res, j + m) = LimbAt(res, j + m) + Radix * From(res, j + m + 1) /\ LimbAt(res, j + m) = 0
      BY <1>6, <2>1, <2>2, FromOf
    <3>7. Radix * 0 = 0
      BY <1>1
    <3> QED  BY <3>5, <3>6, <3>7
  <2>6. From(b, m + 1) = 0
    <3>1. m + 1 \in Nat \ {0} /\ m + 1 > Len(b)
      BY <1>1 DEF m
    <3> QED  BY <3>1, FromOf
  <2>7. Radix * 0 = 0 /\ limb * 0 = 0
    BY <1>1
  <2>8. From(out, j + m) = c(j + m - 1)
    BY <1>6, <1>7, <2>1, <2>2, <2>3, <2>5, <2>7
  <2>9. From(out, j + m) = From(res, j + m) + limb * From(b, m + 1) + c(j + m - 1)
    BY <1>7, <2>1, <2>5, <2>6, <2>7, <2>8
  <2> QED  BY <1>1, <2>1, <2>9
<1>15. ASSUME NEW i \in 1 .. m, i + 1 \in Q PROVE i \in Q
  <2> DEFINE k == j + i - 1
             O == From(out, k + 1)
             R == From(res, k + 1)
             B == From(b, i + 1)
             e == b[i]
             r == res[k]
             o == out[k]
             a == c(k - 1)
             d == c(k)
  <2>1. k \in 1 .. n /\ k \in Nat \ {0} /\ k + 1 \in Nat \ {0} /\ k = j + i - 1 /\ k + 1 = j + (i + 1) - 1
        /\ k = j + (i + 1) - 2 /\ k - 1 = j + i - 2 /\ k - 1 \in 0 .. n /\ k \in 0 .. n /\ k >= j
        /\ k - j + 1 = i /\ i \in Nat \ {0} /\ i + 1 \in Nat \ {0}
    BY <1>1
  <2> HIDE DEF k
  <2>2. /\ From(out, k) = LimbAt(out, k) + Radix * O /\ From(res, k) = LimbAt(res, k) + Radix * R
        /\ From(b, i) = LimbAt(b, i) + Radix * B /\ O \in Nat /\ R \in Nat /\ B \in Nat
    BY <1>2, <2>1, FromOf
  <2>3. O = R + limb * B + d
    BY <1>15, <2>1
  <2>4. LimbAt(b, i) = e /\ e \in Nat /\ LimbAt(out, k) = o /\ LimbAt(res, k) = r /\ o \in Nat /\ r \in Nat
    <3>1. LimbAt(b, i) = e /\ e \in Nat
      BY DigitTyped DEF LimbAt, m
    <3> QED  BY <1>6, <2>1, <3>1
  <2>5. u(k) = limb * e
    BY <1>4, <2>1, <2>4
  <2>6. r + limb * e + a = Radix * d + o /\ a \in Nat /\ d \in Nat
    BY <1>2, <1>7, <2>1, <2>5
  <2> HIDE DEF O, R, B, e, r, o, a, d
  <2>7. o + Radix * O = r + Radix * R + limb * (e + Radix * B) + a
    <3> DEFINE p == limb * (Radix * B)
               q == Radix * d
               s == limb * e
               t == Radix * R
               y == Radix * O
               z == limb * (e + Radix * B)
    <3>1. y = t + p + q
      <4>1. limb * B \in Nat
        BY <1>1, <2>2
      <4>2. Radix * (R + limb * B + d) = Radix * R + Radix * (limb * B) + Radix * d
        BY <1>1, <2>2, <2>6, <4>1
      <4>3. Radix * (limb * B) = limb * (Radix * B)
        BY <1>1, <2>2
      <4> QED  BY <2>3, <4>2, <4>3
    <3>2. z = s + p
      BY <1>1, <2>2, <2>4
    <3>3. p \in Nat /\ q \in Nat /\ s \in Nat /\ t \in Nat /\ r + s + a = q + o
      BY <1>1, <2>2, <2>4, <2>6
    <3> HIDE DEF p, q, s, t, y, z
    <3>4. o + y = r + t + z + a
      BY <2>4, <2>6, <3>1, <3>2, <3>3
    <3> QED  BY <3>4 DEF t, y, z
  <2>8. From(out, k) = From(res, k) + limb * From(b, i) + c(k - 1)
    BY <2>2, <2>4, <2>7 DEF a
  <2> QED  BY <1>1, <2>1, <2>8
<1> HIDE DEF Q
<1>16. From(out, j) = From(res, j) + limb * Magnitude(b)
  <2>1. \A i \in 1 .. m + 1 : i \in Q
    BY <1>1, <1>14, <1>15, DownInduction
  <2>2. 1 \in Q /\ j + 1 - 1 = j /\ j + 1 - 2 = j - 1 /\ j - 1 \in 0 .. j - 1
    BY <1>1, <2>1
  <2>3. From(out, j) = From(res, j) + limb * From(b, 1) + c(j - 1)
    BY <2>2 DEF Q
  <2>4. c(j - 1) = 0 /\ From(b, 1) = Magnitude(b) /\ From(res, j) \in Nat /\ From(b, 1) \in Nat
    <3>1. c(j - 1) = 0
      BY <1>9, <2>2
    <3>2. From(b, 1) = Magnitude(b) /\ From(b, 1) \in Nat
      BY FromOf
    <3>3. From(res, j) \in Nat
      BY FromOf
    <3> QED  BY <3>1, <3>2, <3>3
  <2>5. limb * From(b, 1) \in Nat
    BY <1>1, <2>4
  <2> QED  BY <2>3, <2>4, <2>5
<1> QED  BY <1>2, <1>10, <1>13, <1>16 DEF out, n, m

\* The product fits the lengths of both factors, and is the product.
LEMMA SchoolbookOf ==
  ASSUME NEW a \in Seq(Limb), NEW b \in Seq(Limb)
  PROVE  /\ Schoolbook(a, b) \in Seq(Limb) /\ Len(Schoolbook(a, b)) <= Len(a) + Len(b)
         /\ Magnitude(Schoolbook(a, b)) = Magnitude(a) * Magnitude(b)
<1> DEFINE n == Len(a)
           m == Len(b)
           M == Magnitude(b)
           r == Rows(a, b)
<1>1. n \in Nat /\ m \in Nat /\ Radix \in Nat /\ M \in Nat /\ \A i \in 1 .. n : a[i] \in Limb /\ a[i] \in Nat
  <2>1. M = From(b, 1) /\ From(b, 1) \in Nat
    BY FromOf
  <2> QED  BY <2>1, DigitTyped, ByteRangeDivides
<1>2. /\ r[0] = ZeroLimbs(n + m) /\ \A i \in 0 .. n : r[i] \in Seq(Limb) /\ Len(r[i]) = n + m
      /\ \A i \in 1 .. n : r[i] = AddRow(r[i - 1], i, a[i], b)
  BY RowsOf DEF Arrays
<1>3. Schoolbook(a, b) = Trim(r[n])
  BY DEF Schoolbook
<1> HIDE DEF n, r
<1>4. \A k \in Nat \ {0} : LimbAt(r[0], k) = 0
  BY <1>1, <1>2 DEF LimbAt, ZeroLimbs
<1> DEFINE Z == {i \in 0 .. n : \A k \in Nat \ {0} : k > i + m => LimbAt(r[i], k) = 0}
           Step(i) == /\ \A k \in Nat \ {0} : k < i => LimbAt(r[i], k) = LimbAt(r[i - 1], k)
                      /\ \A k \in Nat \ {0} : k > i + m => LimbAt(r[i], k) = 0
                      /\ From(r[i], i) = From(r[i - 1], i) + a[i] * M
<1>5. ASSUME NEW i \in 1 .. n, i - 1 \in Z PROVE Step(i)
  <2>1. /\ i \in Nat \ {0} /\ i - 1 \in 0 .. n /\ r[i - 1] \in Seq(Limb) /\ a[i] \in Limb
        /\ Len(r[i - 1]) >= i + m /\ r[i] = AddRow(r[i - 1], i, a[i], b)
    BY <1>1, <1>2
  <2>2. \A k \in Nat \ {0} : k > (i - 1) + m => LimbAt(r[i - 1], k) = 0
    BY <1>5
  <2>3. \A k \in Nat \ {0} : k >= i + m => LimbAt(r[i - 1], k) = 0
    BY <1>1, <2>2
  <2> QED  BY <2>1, <2>3, AddRowValue, SMTT(60)
<1>6. 0 \in Z
  BY <1>1, <1>4
<1>7. \A i \in 1 .. n : i - 1 \in Z => i \in Z
  BY <1>5
<1> HIDE DEF Z, Step
<1>8. \A i \in 0 .. n : i \in Z
  BY <1>1, <1>6, <1>7, SetInduction
<1>9. \A i \in 1 .. n : Step(i)
  <2>1. \A i \in 1 .. n : i - 1 \in 0 .. n
    BY <1>1
  <2> QED  BY <1>5, <1>8, <2>1
\* No later row touches limb i.
<1>10. ASSUME NEW i \in 1 .. n PROVE LimbAt(r[n], i) = LimbAt(r[i], i)
  <2> DEFINE P == {l \in 0 .. n : l >= i => LimbAt(r[l], i) = LimbAt(r[i], i)}
  <2>1. 0 \in P
    BY <1>1
  <2>2. ASSUME NEW l \in 1 .. n, l - 1 \in P PROVE l \in P
    <3>1. CASE l <= i
      BY <3>1
    <3>2. CASE l > i
      <4>1. LimbAt(r[l], i) = LimbAt(r[l - 1], i)
        <5>1. i \in Nat \ {0} /\ i < l
          BY <3>2
        <5> QED  BY <1>9, <5>1 DEF Step
      <4>2. l - 1 >= i
        BY <3>2
      <4> QED  BY <2>2, <4>1, <4>2
    <3> QED  BY <3>1, <3>2
  <2> HIDE DEF P
  <2>3. \A l \in 0 .. n : l \in P
    BY <1>1, <2>1, <2>2, SetInduction
  <2>4. n \in P /\ n >= i
    BY <1>1, <2>3
  <2> QED  BY <2>4 DEF P
<1> DEFINE Q == {i \in 1 .. n + 1 : From(r[n], i) = From(r[i - 1], i) + From(a, i) * M}
<1>11. n + 1 \in Q
  <2>1. n + 1 \in Nat \ {0} /\ n + 1 > Len(a) /\ (n + 1) - 1 = n /\ n \in 0 .. n /\ r[n] \in Seq(Limb)
    BY <1>1, <1>2 DEF n
  <2>2. From(a, n + 1) = 0
    BY <2>1, FromOf
  <2>3. From(r[n], n + 1) \in Nat
    BY <2>1, FromOf
  <2>4. 0 * M = 0
    BY <1>1
  <2> QED  BY <1>1, <2>1, <2>2, <2>3, <2>4
<1>12. ASSUME NEW i \in 1 .. n, i + 1 \in Q PROVE i \in Q
  <2> DEFINE N == From(r[n], i + 1)
             R == From(r[i], i + 1)
             O == From(r[i - 1], i)
             A == From(a, i + 1)
             e == a[i]
             l == LimbAt(r[i], i)
  <2>1. i \in Nat \ {0} /\ i + 1 \in Nat \ {0} /\ (i + 1) - 1 = i /\ i \in 0 .. n /\ i - 1 \in 0 .. n /\ n \in 0 .. n
    BY <1>1
  <2>2. r[n] \in Seq(Limb) /\ r[i] \in Seq(Limb) /\ r[i - 1] \in Seq(Limb)
    BY <1>2, <2>1
  <2>3. From(r[n], i) = l + Radix * N /\ N \in Nat
    BY <1>10, <2>1, <2>2, FromOf, ZenonT(60)
  <2>4. From(r[i], i) = l + Radix * R /\ R \in Nat
    BY <2>1, <2>2, FromOf
  <2>5. From(a, i) = e + Radix * A /\ A \in Nat /\ e \in Nat
    <3>1. From(a, i) = LimbAt(a, i) + Radix * A /\ A \in Nat
      BY <2>1, FromOf
    <3>2. LimbAt(a, i) = e /\ e \in Nat
      BY <1>1, DigitTyped DEF LimbAt, n
    <3> QED  BY <3>1, <3>2
  <2>6. l + Radix * R = O + e * M
    BY <1>9, <2>4 DEF Step
  <2>7. N = R + A * M
    BY <1>12, <2>1
  <2>8. O \in Nat /\ l \in Nat
    <3>1. O \in Nat
      BY <2>1, <2>2, FromOf
    <3>2. l \in Limb
      BY <2>1, <2>2, LimbAtTyped
    <3> QED  BY <3>1, <3>2, LimbsTyped
  <2> HIDE DEF N, R, O, A, e, l, M
  <2>9. l + Radix * N = O + (e + Radix * A) * M
    <3> DEFINE p == Radix * (A * M)
               s == e * M
               t == Radix * R
               y == Radix * N
               z == (e + Radix * A) * M
    <3>1. y = t + p
      <4>1. A * M \in Nat
        BY <1>1, <2>5
      <4> QED  BY <1>1, <2>4, <2>7, <4>1
    <3>2. z = s + p
      BY <1>1, <2>5
    <3>3. p \in Nat /\ s \in Nat /\ t \in Nat /\ l + t = O + s
      BY <1>1, <2>4, <2>5, <2>6
    <3> HIDE DEF p, s, t, y, z
    <3>4. l + y = O + z
      BY <2>8, <3>1, <3>2, <3>3
    <3> QED  BY <3>4 DEF y, z
  <2>10. From(r[n], i) = From(r[i - 1], i) + From(a, i) * M
    BY <2>3, <2>5, <2>9 DEF O
  <2> QED  BY <1>1, <2>10
<1> HIDE DEF Q
<1>13. Magnitude(r[n]) = Magnitude(a) * M
  <2>1. \A i \in 1 .. n + 1 : i \in Q
    BY <1>1, <1>11, <1>12, DownInduction
  <2>2. 1 \in Q /\ 1 - 1 = 0 /\ 0 \in 0 .. n /\ n \in 0 .. n
    BY <1>1, <2>1
  <2>3. r[n] \in Seq(Limb) /\ r[0] \in Seq(Limb)
    BY <1>2, <2>2
  <2>4. /\ Magnitude(r[n]) = From(r[n], 1) /\ Magnitude(r[0]) = From(r[0], 1)
        /\ Magnitude(a) = From(a, 1) /\ From(a, 1) \in Nat
    <3>1. Magnitude(r[n]) = From(r[n], 1)
      BY <2>3, FromOf
    <3>2. Magnitude(r[0]) = From(r[0], 1)
      BY <2>3, FromOf
    <3>3. Magnitude(a) = From(a, 1) /\ From(a, 1) \in Nat
      BY FromOf
    <3> QED  BY <3>1, <3>2, <3>3
  <2>5. Magnitude(r[0]) = 0
    <3>1. \A k \in Nat \ {0} : LimbAt(<<>>, k) = 0
      BY DEF LimbAt
    <3>2. <<>> \in Seq(Limb) /\ Magnitude(<<>>) = 0
      BY WordValue
    <3>3. \A k \in Nat \ {0} : LimbAt(r[0], k) = LimbAt(<<>>, k)
      BY <1>4, <3>1
    <3>4. Magnitude(r[0]) = Magnitude(<<>>)
      BY <2>3, <3>2, <3>3, SameValue
    <3> QED  BY <3>2, <3>4
  <2>6. From(r[n], 1) = From(r[0], 1) + From(a, 1) * M
    BY <2>2 DEF Q
  <2>7. From(a, 1) * M \in Nat
    BY <1>1, <2>4
  <2> QED  BY <2>4, <2>5, <2>6, <2>7
<1>14. Trim(r[n]) \in Seq(Limb) /\ Len(Trim(r[n])) <= n + m /\ Magnitude(Trim(r[n])) = Magnitude(r[n])
  <2>1. n \in 0 .. n
    BY <1>1
  <2>2. r[n] \in Seq(Limb) /\ Len(r[n]) = n + m
    BY <1>2, <2>1
  <2>3. Trim(r[n]) \in Seq(Limb) /\ Len(Trim(r[n])) \in 0 .. Len(r[n])
    BY <2>2, TrimOf
  <2>4. Magnitude(Trim(r[n])) = Magnitude(r[n])
    BY <2>2, TrimKeepsValue
  <2> QED  BY <1>1, <2>2, <2>3, <2>4
<1> QED  BY <1>3, <1>13, <1>14 DEF n, m
=============================================================================
