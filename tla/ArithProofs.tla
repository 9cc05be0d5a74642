------------------------------ MODULE ArithProofs ------------------------------
(***************************************************************************)
(* Proofs about the single-word arithmetic of WordArith: sums, differences, *)
(* products, quotients, inverses, modular products, comparisons and scans   *)
(* are what their names say, in the kit that uses the compiler's types, in  *)
(* the portable one and in the one that takes the same time for all words,  *)
(* for every even width of a word and all words of it.  A word is a number  *)
(* below a power of two; its bits are the remainders of its halvings, and   *)
(* FromBits puts them together again.  From there each function has a       *)
(* lemma, each loop an invariant of the record of its call.                 *)
(***************************************************************************)
EXTENDS WordProofs

-----------------------------------------------------------------------------
(* Words: powers of two *)

\* The powers up to k are those of the recursion.
LEMMA PowersOf2 ==
  ASSUME NEW k \in Nat
  PROVE  \E f \in [0 .. k -> Nat] :
           /\ PowerOf2(k) = f[k] /\ f[0] = 1
           /\ \A i \in 1 .. k : f[i] = 2 * f[i - 1]
<1> DEFINE Unrolled(r) == [i \in 0 .. k |-> IF i = 0 THEN 1 ELSE 2 * r[i - 1]]
           c == CHOOSE r : r = Unrolled(r)
           g == [i \in 1 .. k |-> [s \in Nat |-> 2 * s]]
<1>1. Fits(k, Nat, g) /\ \A i \in 1 .. k : \A s \in Nat : g[i][s] = 2 * s
  BY DEF Fits
<1> HIDE DEF g
<1>2. PICK f \in [0 .. k -> Nat] : Run(k, 1, g, f)
  BY <1>1, Recursion DEF Runs
<1>3. \A i \in 1 .. k : f[i - 1] \in Nat
  OBVIOUS
<1>4. f[0] = 1 /\ \A i \in 1 .. k : f[i] = 2 * f[i - 1]
  BY <1>1, <1>2, <1>3 DEF Run
<1>e. f = Unrolled(f)
  BY <1>4
<1>5. c = Unrolled(c)
  BY <1>e
<1>6. PowerOf2(k) = c[k]
  BY DEF PowerOf2
<1> HIDE DEF c
<1> DEFINE e == Unrolled(c)
<1>7. DOMAIN e = 0 .. k /\ e = [i \in DOMAIN e |-> e[i]]
      /\ e[0] = 1 /\ \A i \in 1 .. k : e[i] = 2 * c[i - 1]
  <2>1. \A i \in 0 .. k : e[i] = IF i = 0 THEN 1 ELSE 2 * c[i - 1]
    OBVIOUS
  <2>2. DOMAIN e = 0 .. k /\ e = [i \in DOMAIN e |-> e[i]]
    OBVIOUS
  <2> HIDE DEF e
  <2> QED  BY <2>1, <2>2
<1> HIDE DEF e
<1>8. DOMAIN c = 0 .. k /\ c = [i \in DOMAIN c |-> c[i]]
      /\ c[0] = 1 /\ \A i \in 1 .. k : c[i] = 2 * c[i - 1]
  BY <1>5, <1>7 DEF e
<1>9. \A i \in 0 .. k : c[i] \in Nat
  <2>1. c[0] \in Nat /\ Follows(k, Nat, g, c)
    BY <1>1, <1>8 DEF Follows
  <2> QED  BY <1>1, <2>1, RunTyped
<1>10. c \in [0 .. k -> Nat]
  BY <1>8, <1>9
<1> QED  BY <1>6, <1>8, <1>10

\* A power, by one bit more.
LEMMA PowerOf2Of ==
  /\ PowerOf2(0) = 1
  /\ \A k \in Nat : PowerOf2(k) \in Nat /\ PowerOf2(k + 1) = 2 * PowerOf2(k)
<1>1. PowerOf2(0) = 1
  BY PowersOf2
<1>2. ASSUME NEW k \in Nat
      PROVE  PowerOf2(k) \in Nat /\ PowerOf2(k + 1) = 2 * PowerOf2(k)
  <2>1. PICK r \in [0 .. k -> Nat] :
          PowerOf2(k) = r[k] /\ r[0] = 1 /\ \A i \in 1 .. k : r[i] = 2 * r[i - 1]
    BY PowersOf2
  <2>2. k + 1 \in Nat
    OBVIOUS
  <2>3. PICK s \in [0 .. k + 1 -> Nat] :
          /\ PowerOf2(k + 1) = s[k + 1] /\ s[0] = 1
          /\ \A i \in 1 .. k + 1 : s[i] = 2 * s[i - 1]
    BY <2>2, PowersOf2
  <2> DEFINE Q == {i \in 0 .. k : r[i] = s[i]}
  <2>4. 0 \in Q
    BY <2>1, <2>3
  <2>5. ASSUME NEW i \in 1 .. k, i - 1 \in Q PROVE i \in Q
    <3>1. r[i - 1] = s[i - 1] /\ i \in 0 .. k /\ i \in 1 .. k + 1
      BY <2>5
    <3>2. r[i] = 2 * r[i - 1] /\ s[i] = 2 * s[i - 1]
      BY <2>1, <2>3, <3>1
    <3> QED  BY <3>1, <3>2
  <2> HIDE DEF Q
  <2>6. \A i \in 0 .. k : i \in Q
    BY <2>4, <2>5, SetInduction
  <2>7. s[k + 1] = 2 * s[k]
    <3>1. k + 1 \in 1 .. k + 1 /\ (k + 1) - 1 = k
      OBVIOUS
    <3> QED  BY <2>3, <3>1
  <2>8. r[k] = s[k]
    BY <2>6 DEF Q
  <2> QED  BY <2>1, <2>3, <2>7, <2>8
<1> QED  BY <1>1, <1>2

LEMMA PowerOf2Positive ==
  ASSUME NEW k \in Nat
  PROVE  PowerOf2(k) \in Nat \ {0}
<1> DEFINE Q == {i \in 0 .. k : PowerOf2(i) >= 1}
<1>1. 0 \in Q
  BY PowerOf2Of
<1>2. ASSUME NEW i \in 1 .. k, i - 1 \in Q PROVE i \in Q
  <2>1. i - 1 \in Nat /\ (i - 1) + 1 = i
    OBVIOUS
  <2>2. PowerOf2(i - 1) \in Nat /\ PowerOf2(i) = 2 * PowerOf2(i - 1)
    BY <2>1, PowerOf2Of
  <2> QED  BY <1>2, <2>2
<1> HIDE DEF Q
<1>3. \A i \in 0 .. k : i \in Q
  BY <1>1, <1>2, SetInduction
<1> QED  BY <1>3, PowerOf2Of DEF Q

\* The power of a sum is the product of the powers.
LEMMA PowerOf2Add ==
  ASSUME NEW a \in Nat, NEW b \in Nat
  PROVE  PowerOf2(a + b) = PowerOf2(a) * PowerOf2(b)
<1> DEFINE Q == {i \in 0 .. b : PowerOf2(a + i) = PowerOf2(a) * PowerOf2(i)}
           w == PowerOf2(a)
<1>0. w \in Nat /\ PowerOf2(0) = 1
  BY PowerOf2Of
<1>1. 0 \in Q
  BY <1>0
<1>2. ASSUME NEW i \in 1 .. b, i - 1 \in Q PROVE i \in Q
  <2>1. i - 1 \in Nat /\ (i - 1) + 1 = i /\ a + (i - 1) \in Nat /\ (a + (i - 1)) + 1 = a + i
    OBVIOUS
  <2> DEFINE v == PowerOf2(i - 1)
  <2>2. v \in Nat /\ PowerOf2(i) = 2 * v
    BY <2>1, PowerOf2Of
  <2>3. PowerOf2(a + i) = 2 * PowerOf2(a + (i - 1))
    <3>1. PowerOf2((a + (i - 1)) + 1) = 2 * PowerOf2(a + (i - 1))
      BY <2>1, PowerOf2Of
    <3> QED  BY <2>1, <3>1
  <2>4. PowerOf2(a + (i - 1)) = w * v
    BY <1>2
  <2> HIDE DEF w, v
  <2>5. 2 * (w * v) = w * (2 * v)
    BY <1>0, <2>2
  <2> QED  BY <2>2, <2>3, <2>4, <2>5 DEF w
<1> HIDE DEF Q
<1>3. \A i \in 0 .. b : i \in Q
  BY <1>1, <1>2, SetInduction
<1> QED  BY <1>3 DEF Q

LEMMA PowersSmall ==
  /\ PowerOf2(0) = 1 /\ PowerOf2(1) = 2 /\ PowerOf2(2) = 4 /\ PowerOf2(3) = 8 /\ PowerOf2(4) = 16
  /\ PowerOf2(5) = 32 /\ PowerOf2(6) = 64 /\ PowerOf2(7) = 128 /\ PowerOf2(8) = 256
<1>1. PowerOf2(0 + 1) = 2 * PowerOf2(0) /\ PowerOf2(1 + 1) = 2 * PowerOf2(1)
      /\ PowerOf2(2 + 1) = 2 * PowerOf2(2) /\ PowerOf2(3 + 1) = 2 * PowerOf2(3)
      /\ PowerOf2(4 + 1) = 2 * PowerOf2(4) /\ PowerOf2(5 + 1) = 2 * PowerOf2(5)
      /\ PowerOf2(6 + 1) = 2 * PowerOf2(6) /\ PowerOf2(7 + 1) = 2 * PowerOf2(7)
  BY PowerOf2Of
<1> QED  BY <1>1, PowerOf2Of

-----------------------------------------------------------------------------
(* Words: bits and what they stand for *)

\* The sums of bits up to n are those of the recursion.
LEMMA SumsOfBits ==
  ASSUME NEW b, NEW n \in Nat, \A i \in 0 .. n - 1 : b[i] \in Nat
  PROVE  \E f \in [0 .. n -> Nat] :
           /\ FromBits(b, n) = f[n] /\ f[0] = 0
           /\ \A i \in 1 .. n : f[i] = f[i - 1] + b[i - 1] * PowerOf2(i - 1)
<1> DEFINE Unrolled(r) == [i \in 0 .. n |-> IF i = 0 THEN 0 ELSE r[i - 1] + b[i - 1] * PowerOf2(i - 1)]
           c == CHOOSE r : r = Unrolled(r)
           p == [i \in 1 .. n |-> b[i - 1] * PowerOf2(i - 1)]
           g == [i \in 1 .. n |-> [s \in Nat |-> s + p[i]]]
<1>p. \A i \in 1 .. n : p[i] = b[i - 1] * PowerOf2(i - 1) /\ p[i] \in Nat
  <2>1. ASSUME NEW i \in 1 .. n PROVE b[i - 1] * PowerOf2(i - 1) \in Nat
    <3> DEFINE a == b[i - 1]  w == PowerOf2(i - 1)
    <3>0. i - 1 \in 0 .. n - 1 /\ i - 1 \in Nat
      OBVIOUS
    <3>1. a \in Nat /\ w \in Nat
      BY <3>0, PowerOf2Of
    <3> HIDE DEF a, w
    <3>2. a * w \in Nat
      BY <3>1
    <3> QED  BY <3>2 DEF a, w
  <2> QED  BY <2>1
<1> HIDE DEF p
<1>1. Fits(n, Nat, g) /\ \A i \in 1 .. n : \A s \in Nat : g[i][s] = s + p[i]
  BY <1>p DEF Fits
<1> HIDE DEF g
<1>2. PICK f \in [0 .. n -> Nat] : Run(n, 0, g, f)
  BY <1>1, Recursion DEF Runs
<1>3. \A i \in 1 .. n : f[i - 1] \in Nat
  OBVIOUS
<1>4. f[0] = 0 /\ \A i \in 1 .. n : f[i] = f[i - 1] + p[i]
  BY <1>1, <1>2, <1>3 DEF Run
<1>5. f = Unrolled(f)
  BY <1>4, <1>p
<1>6. c = Unrolled(c)
  BY <1>5
<1>7. FromBits(b, n) = c[n]
  BY DEF FromBits
<1> HIDE DEF c
<1> DEFINE e == Unrolled(c)
<1>8. DOMAIN e = 0 .. n /\ e = [i \in DOMAIN e |-> e[i]]
      /\ e[0] = 0 /\ \A i \in 1 .. n : e[i] = c[i - 1] + p[i]
  <2>1. \A i \in 0 .. n : e[i] = IF i = 0 THEN 0 ELSE c[i - 1] + b[i - 1] * PowerOf2(i - 1)
    OBVIOUS
  <2>2. DOMAIN e = 0 .. n /\ e = [i \in DOMAIN e |-> e[i]]
    OBVIOUS
  <2> HIDE DEF e
  <2> QED  BY <1>p, <2>1, <2>2
<1> HIDE DEF e
<1>9. DOMAIN c = 0 .. n /\ c = [i \in DOMAIN c |-> c[i]]
      /\ c[0] = 0 /\ \A i \in 1 .. n : c[i] = c[i - 1] + p[i]
  BY <1>6, <1>8 DEF e
<1>10. \A i \in 0 .. n : c[i] \in Nat
  <2>1. c[0] \in Nat /\ Follows(n, Nat, g, c)
    BY <1>1, <1>9 DEF Follows
  <2> QED  BY <1>1, <2>1, RunTyped
<1>11. c \in [0 .. n -> Nat]
  BY <1>9, <1>10
<1> QED  BY <1>7, <1>9, <1>11, <1>p

\* One bit more.
LEMMA FromBitsOf ==
  ASSUME NEW b, NEW n \in Nat, \A i \in 0 .. n : b[i] \in Nat
  PROVE  /\ FromBits(b, 0) = 0 /\ FromBits(b, n) \in Nat
         /\ FromBits(b, n + 1) = FromBits(b, n) + b[n] * PowerOf2(n)
<1>1. FromBits(b, 0) = 0
  BY SumsOfBits
<1>2. PICK r \in [0 .. n -> Nat] :
        /\ FromBits(b, n) = r[n] /\ r[0] = 0
        /\ \A i \in 1 .. n : r[i] = r[i - 1] + b[i - 1] * PowerOf2(i - 1)
  <2>1. \A i \in 0 .. n - 1 : b[i] \in Nat
    OBVIOUS
  <2> QED  BY <2>1, SumsOfBits
<1>3. PICK s \in [0 .. n + 1 -> Nat] :
        /\ FromBits(b, n + 1) = s[n + 1] /\ s[0] = 0
        /\ \A i \in 1 .. n + 1 : s[i] = s[i - 1] + b[i - 1] * PowerOf2(i - 1)
  <2>1. n + 1 \in Nat /\ \A i \in 0 .. (n + 1) - 1 : b[i] \in Nat
    OBVIOUS
  <2> QED  BY <2>1, SumsOfBits
<1> DEFINE Q == {i \in 0 .. n : r[i] = s[i]}
<1>4. 0 \in Q
  BY <1>2, <1>3
<1>5. ASSUME NEW i \in 1 .. n, i - 1 \in Q PROVE i \in Q
  <2>1. r[i - 1] = s[i - 1] /\ i \in 0 .. n /\ i \in 1 .. n + 1
    BY <1>5
  <2>2. r[i] = r[i - 1] + b[i - 1] * PowerOf2(i - 1) /\ s[i] = s[i - 1] + b[i - 1] * PowerOf2(i - 1)
    BY <1>2, <1>3, <2>1
  <2> QED  BY <2>1, <2>2
<1> HIDE DEF Q
<1>6. \A i \in 0 .. n : i \in Q
  BY <1>4, <1>5, SetInduction
<1>7. s[n + 1] = s[n] + b[n] * PowerOf2(n)
  <2>1. n + 1 \in 1 .. n + 1 /\ (n + 1) - 1 = n
    OBVIOUS
  <2> QED  BY <1>3, <2>1
<1>8. r[n] = s[n]
  BY <1>6 DEF Q
<1> QED  BY <1>1, <1>2, <1>3, <1>7, <1>8

\* Bits: a function on 0 .. n - 1, or on more.
AreBits(b, n) == \A i \in 0 .. n - 1 : b[i] \in {0, 1}

\* The number of n bits, as a step of an induction on n.
LEMMA FromBitsStep ==
  ASSUME NEW b, NEW n \in Nat, AreBits(b, n), NEW i \in 1 .. n
  PROVE  /\ i - 1 \in Nat /\ b[i - 1] \in {0, 1}
         /\ FromBits(b, i - 1) \in Nat /\ PowerOf2(i - 1) \in Nat /\ PowerOf2(i) = 2 * PowerOf2(i - 1)
         /\ FromBits(b, i) = FromBits(b, i - 1) + (IF b[i - 1] = 1 THEN PowerOf2(i - 1) ELSE 0)
<1>1. i - 1 \in Nat /\ (i - 1) + 1 = i /\ \A j \in 0 .. i - 1 : b[j] \in {0, 1} /\ b[j] \in Nat
  BY DEF AreBits
<1>2. /\ PowerOf2(i - 1) \in Nat /\ PowerOf2((i - 1) + 1) = 2 * PowerOf2(i - 1)
      /\ FromBits(b, i - 1) \in Nat
      /\ FromBits(b, (i - 1) + 1) = FromBits(b, i - 1) + b[i - 1] * PowerOf2(i - 1)
  BY <1>1, PowerOf2Of, FromBitsOf
<1>3. b[i - 1] \in {0, 1}
  BY <1>1
<1>4. b[i - 1] * PowerOf2(i - 1) = IF b[i - 1] = 1 THEN PowerOf2(i - 1) ELSE 0
  BY <1>2, <1>3
<1> QED  BY <1>1, <1>2, <1>3, <1>4

LEMMA FromBitsNone == \A b : FromBits(b, 0) = 0
BY SumsOfBits

\* n bits make less than 2 to the n.
LEMMA FromBitsBelow ==
  ASSUME NEW b, NEW n \in Nat, AreBits(b, n)
  PROVE  FromBits(b, n) \in Nat /\ FromBits(b, n) < PowerOf2(n)
<1> DEFINE Q == {i \in 0 .. n : FromBits(b, i) \in Nat /\ FromBits(b, i) < PowerOf2(i)}
<1>1. 0 \in Q
  BY FromBitsNone, PowerOf2Of
<1>2. ASSUME NEW i \in 1 .. n, i - 1 \in Q PROVE i \in Q
  BY <1>2, FromBitsStep
<1> HIDE DEF Q
<1>3. \A i \in 0 .. n : i \in Q
  BY <1>1, <1>2, SetInduction
<1> QED  BY <1>3 DEF Q

LEMMA FromBitsSame ==
  ASSUME NEW b, NEW c, NEW n \in Nat, AreBits(b, n), \A i \in 0 .. n - 1 : c[i] = b[i]
  PROVE  FromBits(b, n) = FromBits(c, n)
<1> DEFINE Q == {i \in 0 .. n : FromBits(b, i) = FromBits(c, i)}
<1>0. AreBits(c, n)
  BY DEF AreBits
<1>1. 0 \in Q
  BY FromBitsNone
<1>2. ASSUME NEW i \in 1 .. n, i - 1 \in Q PROVE i \in Q
  <2>1. c[i - 1] = b[i - 1]
    OBVIOUS
  <2> QED  BY <1>0, <1>2, <2>1, FromBitsStep
<1> HIDE DEF Q
<1>3. \A i \in 0 .. n : i \in Q
  BY <1>1, <1>2, SetInduction
<1> QED  BY <1>3 DEF Q

\* The bits from k on, c, count as much as their number times 2 to the k.
LEMMA FromBitsSplit ==
  ASSUME NEW b, NEW k \in Nat, NEW n \in Nat, AreBits(b, k + n),
         NEW c, \A i \in 0 .. n - 1 : c[i] = b[k + i]
  PROVE  /\ AreBits(c, n) /\ FromBits(b, k) \in Nat /\ FromBits(c, n) \in Nat
         /\ FromBits(b, k + n) = FromBits(b, k) + PowerOf2(k) * FromBits(c, n)
<1> DEFINE Q == {i \in 0 .. n : FromBits(b, k + i) = FromBits(b, k) + PowerOf2(k) * FromBits(c, i)}
           w == PowerOf2(k)
           z == FromBits(b, k)
<1>0. AreBits(c, n) /\ AreBits(b, k)
  <2>1. \A i \in 0 .. n - 1 : k + i \in 0 .. (k + n) - 1
    OBVIOUS
  <2> QED  BY <2>1 DEF AreBits
<1>00. w \in Nat /\ z \in Nat /\ FromBits(c, n) \in Nat
  BY <1>0, PowerOf2Of, FromBitsBelow
<1>1. 0 \in Q
  <2>1. FromBits(b, k + 0) = z /\ w * 0 = 0
    BY <1>00
  <2> QED  BY <1>00, <2>1, FromBitsNone
<1>2. ASSUME NEW i \in 1 .. n, i - 1 \in Q PROVE i \in Q
  <2> DEFINE p == PowerOf2(i - 1)  y == FromBits(c, i - 1)
  <2>1. k + i \in 1 .. k + n /\ (k + i) - 1 = k + (i - 1) /\ i - 1 \in Nat /\ i - 1 \in 0 .. n - 1
    OBVIOUS
  <2>2. c[i - 1] = b[(k + i) - 1]
    BY <2>1
  <2>3. /\ b[(k + i) - 1] \in {0, 1}
        /\ FromBits(b, k + i) = FromBits(b, k + (i - 1)) + (IF b[(k + i) - 1] = 1 THEN PowerOf2(k + (i - 1)) ELSE 0)
    <3>1. k + n \in Nat
      OBVIOUS
    <3>2. /\ b[(k + i) - 1] \in {0, 1}
          /\ FromBits(b, k + i) = FromBits(b, (k + i) - 1) + (IF b[(k + i) - 1] = 1 THEN PowerOf2((k + i) - 1) ELSE 0)
      BY <2>1, <3>1, FromBitsStep
    <3> QED  BY <2>1, <3>2
  <2>4. /\ y \in Nat /\ p \in Nat /\ FromBits(c, i) = y + (IF c[i - 1] = 1 THEN p ELSE 0)
    BY <1>0, FromBitsStep
  <2>5. PowerOf2(k + (i - 1)) = w * p
    BY <2>1, PowerOf2Add
  <2>6. FromBits(b, k + (i - 1)) = z + w * y
    BY <1>2
  <2> HIDE DEF w, p, y, z
  <2>7. CASE c[i - 1] = 1
    <3>1. w * (y + p) = w * y + w * p /\ w * y \in Nat /\ w * p \in Nat
      BY <1>00, <2>4
    <3>2. FromBits(b, k + i) = (z + w * y) + w * p /\ FromBits(c, i) = y + p
      BY <2>2, <2>3, <2>4, <2>5, <2>6, <2>7
    <3> QED  BY <1>00, <3>1, <3>2 DEF w, z
  <2>8. CASE c[i - 1] # 1
    <3>1. FromBits(b, k + i) = (z + w * y) + 0 /\ FromBits(c, i) = y + 0 /\ w * y \in Nat
      BY <1>00, <2>2, <2>3, <2>4, <2>5, <2>6, <2>8
    <3> QED  BY <1>00, <2>4, <3>1 DEF w, z
  <2> QED  BY <2>7, <2>8
<1> HIDE DEF Q
<1>3. \A i \in 0 .. n : i \in Q
  BY <1>1, <1>2, SetInduction
<1> QED  BY <1>0, <1>00, <1>3 DEF Q

LEMMA BitIn ==
  ASSUME NEW x \in Nat, NEW i \in Nat
  PROVE  Bit(x, i) \in {0, 1}
<1> DEFINE w == PowerOf2(i)
<1>1. w \in Nat \ {0}
  BY PowerOf2Positive
<1> HIDE DEF w
<1>2. x \div w \in Nat
  BY <1>1, Division
<1> DEFINE q == x \div w
<1> HIDE DEF q
<1>3. q % 2 \in {0, 1}
  BY <1>2 DEF q
<1> QED  BY <1>3 DEF Bit, q, w

\* A number taken apart at bit i.
LEMMA BitOf ==
  ASSUME NEW x \in Nat, NEW i \in Nat, NEW r \in Nat, NEW d \in {0, 1}, NEW q \in Nat,
         r < PowerOf2(i), x = r + PowerOf2(i) * (d + 2 * q)
  PROVE  Bit(x, i) = d
<1> DEFINE w == PowerOf2(i)  e == d + 2 * q
<1>1. w \in Nat \ {0} /\ e \in Nat
  BY PowerOf2Positive
<1>2. e % 2 = d
  OBVIOUS
<1>3. r < w /\ x = r + w * e
  OBVIOUS
<1> HIDE DEF w, e
<1>4. w * e = e * w /\ e * w \in Nat
  BY <1>1
<1>5. e * w <= x /\ x < e * w + w
  BY <1>1, <1>3, <1>4
<1>6. x \div w = e
  BY <1>1, <1>5, DivisionUnique
<1> QED  BY <1>2, <1>6 DEF Bit, w

\* The bits below i, and those above.
Apart(x, i, r, q) ==
  /\ r < PowerOf2(i) /\ x = r + PowerOf2(i) * (Bit(x, i) + 2 * q)
  /\ r = x % PowerOf2(i) /\ x \div PowerOf2(i) = Bit(x, i) + 2 * q

LEMMA TakenApart ==
  ASSUME NEW x \in Nat, NEW i \in Nat
  PROVE  \E r, q \in Nat : Apart(x, i, r, q)
<1> DEFINE w == PowerOf2(i)  e == x \div w  r == x % w  q == e \div 2
<1>1. w \in Nat \ {0}
  BY PowerOf2Positive
<1> HIDE DEF w
<1>2. e \in Nat /\ r \in Nat /\ r < w /\ x = e * w + r
  BY <1>1
<1> HIDE DEF e, r
<1>3. q \in Nat /\ e = (e % 2) + 2 * q
  BY <1>2
<1>4. e % 2 = Bit(x, i)
  BY DEF Bit, e, w
<1> HIDE DEF q
<1>5. e * w = w * e
  BY <1>1, <1>2
<1>6. e = Bit(x, i) + 2 * q
  BY <1>3, <1>4
<1>7. x = r + w * e
  BY <1>1, <1>2, <1>5
<1>8. x = r + w * (Bit(x, i) + 2 * q)
  BY <1>6, <1>7, Zenon
<1>9. Apart(x, i, r, q)
  BY <1>2, <1>6, <1>8, Zenon DEF Apart, w, r, e
<1> QED  BY <1>2, <1>3, <1>9

\* A low part below 2 to the k leaves the bits of what is above.
LEMMA BitAbove ==
  ASSUME NEW k \in Nat, NEW c \in Nat, c < PowerOf2(k), NEW u \in Nat, NEW i \in Nat
  PROVE  Bit(c + PowerOf2(k) * u, k + i) = Bit(u, i)
<1> DEFINE w == PowerOf2(k)  v == PowerOf2(i)  b == Bit(u, i)
<1>p. PICK r \in Nat, q \in Nat : Apart(u, i, r, q)
  BY TakenApart
<1>1. r < v /\ u = r + v * (b + 2 * q)
  BY <1>p, Zenon DEF Apart
<1>2. w \in Nat \ {0} /\ v \in Nat \ {0} /\ PowerOf2(k + i) = w * v /\ b \in {0, 1}
  BY PowerOf2Positive, PowerOf2Add, BitIn
<1>c. c < w
  OBVIOUS
<1> DEFINE x == c + w * u  s == c + w * r
<1> HIDE DEF w, v, b
<1>3. s \in Nat /\ x \in Nat
  BY <1>2
<1>4. s < w * v
  <2>1. w * (r + 1) <= w * v /\ w * (r + 1) = w * r + w /\ w * r \in Nat /\ w * v \in Nat
    <3>1. r + 1 <= v /\ r + 1 \in Nat
      BY <1>1, <1>2
    <3> QED  BY <1>2, <3>1, Products
  <2> QED  BY <1>2, <1>c, <2>1
<1>5. x = s + (w * v) * (b + 2 * q)
  <2> DEFINE e == b + 2 * q
  <2>1. e \in Nat /\ u = r + v * e
    BY <1>1, <1>2
  <2> HIDE DEF e
  <2>2. w * (r + v * e) = w * r + (w * v) * e
    BY <1>2, <2>1
  <2>3. w * r \in Nat /\ (w * v) * e \in Nat
    BY <1>2, <2>1
  <2> QED  BY <2>1, <2>2, <2>3 DEF e
<1> HIDE DEF x, s
<1>6. s < PowerOf2(k + i) /\ x = s + PowerOf2(k + i) * (b + 2 * q) /\ k + i \in Nat
  BY <1>2, <1>4, <1>5
<1>7. Bit(x, k + i) = b
  BY <1>2, <1>3, <1>6, BitOf
<1> QED  BY <1>7 DEF x, b, w

\* The bits below k are those of the low part.
LEMMA BitBelow ==
  ASSUME NEW k \in Nat, NEW c \in Nat, NEW u \in Nat, NEW i \in 0 .. k - 1
  PROVE  Bit(c + PowerOf2(k) * u, i) = Bit(c, i)
<1> DEFINE v == PowerOf2(i)  b == Bit(c, i)  m == PowerOf2(k - (i + 1))  w == PowerOf2(k)
<1>0. i \in Nat /\ k - (i + 1) \in Nat /\ (i + 1) + (k - (i + 1)) = k /\ i + 1 \in Nat
  OBVIOUS
<1>p. PICK r \in Nat, q \in Nat : Apart(c, i, r, q)
  BY <1>0, TakenApart
<1>1. r < v /\ c = r + v * (b + 2 * q)
  BY <1>p, Zenon DEF Apart
<1>2. v \in Nat \ {0} /\ m \in Nat \ {0} /\ b \in {0, 1} /\ PowerOf2(i + 1) = 2 * v
  BY <1>0, PowerOf2Positive, PowerOf2Of, BitIn
<1>3. w = (2 * v) * m
  <2>1. PowerOf2((i + 1) + (k - (i + 1))) = PowerOf2(i + 1) * m
    BY <1>0, PowerOf2Add
  <2> QED  BY <1>0, <1>2, <2>1
<1> HIDE DEF v, b, m, w
<1> DEFINE x == c + w * u
<1>4. x = r + v * (b + 2 * (q + m * u)) /\ q + m * u \in Nat /\ x \in Nat
  <2>1. w * u = v * (2 * (m * u)) /\ m * u \in Nat
    BY <1>2, <1>3
  <2> DEFINE y == m * u
  <2> HIDE DEF y
  <2>2. y \in Nat /\ w * u = v * (2 * y)
    BY <2>1 DEF y
  <2>3. v * (b + 2 * (q + y)) = v * (b + 2 * q) + v * (2 * y) /\ v * (b + 2 * q) \in Nat /\ v * (2 * y) \in Nat
    <3> DEFINE e == b + 2 * q  f == 2 * y
    <3>1. e \in Nat /\ f \in Nat /\ b + 2 * (q + y) = e + f
      BY <1>2, <2>2
    <3> HIDE DEF e, f
    <3>2. v * (e + f) = v * e + v * f /\ v * e \in Nat /\ v * f \in Nat
      BY <1>2, <3>1
    <3> QED  BY <3>1, <3>2 DEF e, f
  <2> QED  BY <1>1, <2>2, <2>3 DEF y
<1> HIDE DEF x
<1> DEFINE t == q + m * u
<1>5. t \in Nat /\ x \in Nat /\ r < PowerOf2(i) /\ x = r + PowerOf2(i) * (b + 2 * t)
  BY <1>1, <1>4 DEF v
<1> HIDE DEF t
<1>6. Bit(x, i) = b
  BY <1>0, <1>2, <1>5, BitOf
<1> QED  BY <1>6 DEF x, b, w

\* The bits of what is left after a shift down.
LEMMA BitShifted ==
  ASSUME NEW x \in Nat, NEW k \in Nat, NEW i \in Nat
  PROVE  Bit(x \div PowerOf2(k), i) = Bit(x, k + i)
<1> DEFINE w == PowerOf2(k)  u == x \div w  c == x % w
<1>1. w \in Nat \ {0}
  BY PowerOf2Positive
<1> HIDE DEF w
<1>2. u \in Nat /\ c \in Nat /\ c < w /\ x = c + w * u
  BY <1>1
<1> HIDE DEF u, c
<1>3. Bit(c + w * u, k + i) = Bit(u, i)
  BY <1>2, BitAbove DEF w
<1> QED  BY <1>2, <1>3 DEF u, w

\* The n lowest bits of a number are the remainder by 2 to the n.
LEMMA BitsOfNumber ==
  ASSUME NEW x \in Nat, NEW n \in Nat, NEW b, \A i \in 0 .. n - 1 : b[i] = Bit(x, i)
  PROVE  AreBits(b, n) /\ FromBits(b, n) = x % PowerOf2(n)
<1> DEFINE Q == {i \in 0 .. n : FromBits(b, i) = x % PowerOf2(i)}
<1>0. AreBits(b, n)
  BY BitIn DEF AreBits
<1>1. 0 \in Q
  <2>1. x % 1 = 0
    OBVIOUS
  <2> QED  BY <2>1, FromBitsNone, PowerOf2Of
<1>2. ASSUME NEW i \in 1 .. n, i - 1 \in Q PROVE i \in Q
  <2> DEFINE w == PowerOf2(i - 1)  d == Bit(x, i - 1)
  <2>1. i - 1 \in Nat /\ b[i - 1] = d
    OBVIOUS
  <2>p. PICK r \in Nat, q \in Nat : Apart(x, i - 1, r, q)
    BY <2>1, TakenApart
  <2>2. r < w /\ x = r + w * (d + 2 * q) /\ r = x % w
    BY <2>p, Zenon DEF Apart
  <2>3. /\ d \in {0, 1} /\ w \in Nat /\ PowerOf2(i) = 2 * w
        /\ FromBits(b, i) = FromBits(b, i - 1) + (IF d = 1 THEN w ELSE 0)
    BY <1>0, <2>1, FromBitsStep
  <2>4. FromBits(b, i - 1) = r
    BY <1>2, <2>2
  <2>5. PowerOf2(i) \in Nat \ {0}
    BY PowerOf2Positive
  <2> HIDE DEF w, d
  <2> DEFINE s == r + (IF d = 1 THEN w ELSE 0)
  <2>6. s \in Nat /\ s < 2 * w
    BY <2>2, <2>3
  <2>7. x = q * (2 * w) + s
    <3>1. CASE d = 1
      <4>1. w * (1 + 2 * q) = w + q * (2 * w) /\ q * (2 * w) \in Nat
        BY <2>3
      <4> QED  BY <2>2, <2>3, <3>1, <4>1
    <3>2. CASE d = 0
      <4>1. w * (0 + 2 * q) = q * (2 * w) /\ q * (2 * w) \in Nat
        BY <2>3
      <4> QED  BY <2>2, <2>3, <3>2, <4>1
    <3> QED  BY <2>3, <3>1, <3>2
  <2> HIDE DEF s
  <2>8. x % (2 * w) = s
    BY <2>3, <2>5, <2>6, <2>7, Remainder
  <2> QED  BY <2>3, <2>4, <2>8 DEF s
<1> HIDE DEF Q
<1>3. \A i \in 0 .. n : i \in Q
  BY <1>1, <1>2, SetInduction
<1> QED  BY <1>0, <1>3 DEF Q

LEMMA BelowRemains ==
  ASSUME NEW x \in Nat, NEW w \in Nat \ {0}, x < w
  PROVE  x % w = x /\ x \div w = 0
<1>1. x = 0 * w + x
  OBVIOUS
<1>2. x % w = x
  BY <1>1, Remainder
<1>3. 0 * w <= x /\ x < 0 * w + w
  OBVIOUS
<1> QED  BY <1>2, <1>3, DivisionUnique

\* A number and the bits it was made of.
LEMMA BitOfFromBits ==
  ASSUME NEW b, NEW n \in Nat, AreBits(b, n), NEW i \in 0 .. n - 1
  PROVE  Bit(FromBits(b, n), i) = b[i]
<1> DEFINE c == [j \in 0 .. (n - i) - 1 |-> b[i + j]]
           e == [j \in 0 .. (n - (i + 1)) - 1 |-> c[1 + j]]
           k == n - i
           l == n - (i + 1)
<1>0. i \in Nat /\ k \in Nat /\ l \in Nat /\ i + k = n /\ 1 + l = k /\ b[i] \in {0, 1}
  BY DEF AreBits
<1>a. AreBits(b, i + k) /\ AreBits(b, i) /\ \A j \in 0 .. k - 1 : c[j] = b[i + j]
  BY <1>0 DEF AreBits
<1>b. \A j \in 0 .. l - 1 : e[j] = c[1 + j]
  OBVIOUS
<1>c. c[0] = b[i]
  BY <1>0
<1> HIDE DEF c, e, k, l
<1>1. FromBits(b, n) = FromBits(b, i) + PowerOf2(i) * FromBits(c, k) /\ AreBits(c, k)
  BY <1>0, <1>a, FromBitsSplit
<1>2. FromBits(c, k) = FromBits(c, 1) + PowerOf2(1) * FromBits(e, l) /\ FromBits(e, l) \in Nat
  <2>1. AreBits(c, 1 + l)
    BY <1>0, <1>1
  <2>2. 1 \in Nat
    OBVIOUS
  <2>3. FromBits(c, 1 + l) = FromBits(c, 1) + PowerOf2(1) * FromBits(e, l) /\ FromBits(e, l) \in Nat
    BY <1>0, <1>b, <2>1, <2>2, FromBitsSplit
  <2> QED  BY <1>0, <2>3
<1>3. FromBits(c, 1) = b[i]
  <2>1. AreBits(c, 1)
    BY <1>0, <1>c DEF AreBits
  <2>2. 1 \in 1 .. 1 /\ 1 \in Nat /\ 1 - 1 = 0
    OBVIOUS
  <2>3. FromBits(c, 1) = FromBits(c, 0) + (IF c[0] = 1 THEN PowerOf2(0) ELSE 0)
    <3>1. FromBits(c, 1) = FromBits(c, 1 - 1) + (IF c[1 - 1] = 1 THEN PowerOf2(1 - 1) ELSE 0)
      BY <2>1, <2>2, FromBitsStep
    <3> QED  BY <3>1, <2>2
  <2> QED  BY <1>0, <1>c, <2>3, FromBitsNone, PowerOf2Of
<1>4. FromBits(b, i) \in Nat /\ FromBits(b, i) < PowerOf2(i) /\ FromBits(b, n) \in Nat
  BY <1>0, <1>a, FromBitsBelow
<1>5. FromBits(b, n) = FromBits(b, i) + PowerOf2(i) * (b[i] + 2 * FromBits(e, l))
  BY <1>1, <1>2, <1>3, PowersSmall
<1> QED  BY <1>0, <1>2, <1>4, <1>5, BitOf

-----------------------------------------------------------------------------
(* Words: wrapping round, and the top bit *)

\* Of integers, too, the remainder is the only one.
LEMMA IntegerRemainder ==
  ASSUME NEW n \in Int, NEW w \in Nat \ {0}, NEW q \in Int, NEW r \in Nat, r < w, n = q * w + r
  PROVE  n % w = r
<1> DEFINE p == n \div w  m == n % w
<1>1. p \in Int /\ m \in Nat /\ m < w /\ n = p * w + m
  OBVIOUS
<1> HIDE DEF p, m
<1>2. ASSUME NEW i \in Int, NEW j \in Int, i < j PROVE i * w + w <= j * w
  <2>1. PICK k \in Nat : j = i + 1 + k
    <3>1. j - i - 1 \in Nat /\ j = i + 1 + (j - i - 1)
      BY <1>2
    <3> QED  BY <3>1
  <2>2. j * w = i * w + w + k * w /\ k * w \in Nat /\ i * w \in Int
    BY <2>1
  <2> QED  BY <2>2
<1>3. p * w \in Int /\ q * w \in Int
  BY <1>1
<1>4. ~ (p < q) /\ ~ (q < p)
  <2>1. CASE p < q
    <3>1. p * w + w <= q * w
      BY <1>1, <1>2, <2>1
    <3> QED  BY <1>1, <1>3, <3>1
  <2>2. CASE q < p
    <3>1. q * w + w <= p * w
      BY <1>1, <1>2, <2>2
    <3> QED  BY <1>1, <1>3, <3>1
  <2> QED  BY <2>1, <2>2
<1>5. p = q
  BY <1>1, <1>4
<1> DEFINE z == q * w
<1>6. z \in Int /\ n = z + m /\ n = z + r
  BY <1>1, <1>3, <1>5
<1> HIDE DEF z
<1>7. m = r
  BY <1>1, <1>6
<1> QED  BY <1>7 DEF m

\* A word that ran over wraps round once.
LEMMA Wrapped ==
  ASSUME NEW w \in Nat \ {0}, NEW n \in Int, -w <= n, n < 2 * w
  PROVE  n % w = IF n < 0 THEN n + w ELSE IF n < w THEN n ELSE n - w
<1>1. CASE n < 0
  <2>1. n + w \in Nat /\ n + w < w /\ -1 \in Int /\ n = (-1) * w + (n + w)
    BY <1>1
  <2> QED  BY <1>1, <2>1, IntegerRemainder
<1>2. CASE ~ (n < 0) /\ n < w
  <2>1. n \in Nat /\ 0 \in Int /\ n = 0 * w + n
    BY <1>2
  <2> QED  BY <1>2, <2>1, IntegerRemainder
<1>3. CASE ~ (n < w)
  <2>1. n - w \in Nat /\ n - w < w /\ 1 \in Int /\ n = 1 * w + (n - w)
    BY <1>3
  <2>2. n % w = n - w
    BY <2>1, IntegerRemainder
  <2> QED  BY <1>3, <2>2
<1> QED  BY <1>1, <1>2, <1>3

TopBit == PowerOf2(W - 1)

LEMMA WordsOf ==
  /\ W \in Nat /\ W - 1 \in Nat /\ TopBit \in Nat \ {0}
  /\ Values = 2 * TopBit /\ Values \in Nat \ {0} /\ Words \subseteq Nat
  /\ \A x : x \in Words <=> x \in Nat /\ x < Values
<1>1. W \in Nat /\ W - 1 \in Nat /\ (W - 1) + 1 = W
  BY WordAssumption
<1>2. TopBit \in Nat \ {0} /\ PowerOf2((W - 1) + 1) = 2 * TopBit
  BY <1>1, PowerOf2Positive, PowerOf2Of DEF TopBit
<1>3. Values = 2 * TopBit
  BY <1>1, <1>2 DEF Values
<1>4. Values \in Nat \ {0}
  BY <1>2, <1>3
<1>5. \A x : x \in Words <=> x \in Nat /\ x < Values
  BY <1>4 DEF Words
<1> QED  BY <1>1, <1>2, <1>3, <1>4, <1>5

\* A remainder by the number of words is a word.
LEMMA WordRemainder ==
  ASSUME NEW n \in Int
  PROVE  n % Values \in Words
<1> DEFINE w == Values
<1>1. w \in Nat \ {0}
  BY WordsOf
<1> HIDE DEF w
<1>2. n % w \in Nat /\ n % w < w
  BY <1>1
<1> QED  BY <1>2, WordsOf DEF w

LEMMA WordWraps ==
  ASSUME NEW n \in Int, -Values <= n, n < 2 * Values
  PROVE  n % Values = IF n < 0 THEN n + Values ELSE IF n < Values THEN n ELSE n - Values
BY WordsOf, Wrapped

LEMMA MsbOf ==
  ASSUME NEW x \in Words
  PROVE  Msb(x) = IF x >= TopBit THEN 1 ELSE 0
<1>1. x \in Nat /\ W - 1 \in Nat /\ TopBit \in Nat \ {0} /\ x < 2 * TopBit
  BY WordsOf
<1>2. CASE x >= TopBit
  <2>1. x - TopBit \in Nat /\ x - TopBit < TopBit /\ x = (x - TopBit) + TopBit * (1 + 2 * 0)
    BY <1>1, <1>2
  <2>2. Bit(x, W - 1) = 1
    BY <1>1, <2>1, BitOf DEF TopBit
  <2> QED  BY <1>2, <2>2 DEF Msb
<1>3. CASE ~ (x >= TopBit)
  <2>1. x < TopBit /\ x = x + TopBit * (0 + 2 * 0)
    BY <1>1, <1>3
  <2>2. Bit(x, W - 1) = 0
    BY <1>1, <2>1, BitOf DEF TopBit
  <2> QED  BY <1>3, <2>2 DEF Msb
<1> QED  BY <1>2, <1>3

LEMMA SignedOf ==
  ASSUME NEW x \in Words
  PROVE  Signed(x) = IF x >= TopBit THEN x - Values ELSE x
BY MsbOf DEF Signed

-----------------------------------------------------------------------------
(* Words: the comparisons without a branch *)

LEMMA CrtLtOf ==
  ASSUME NEW x \in Words, NEW y \in Words
  PROVE  CrtLt(x, y) <=> x < y
<1>1. x \in Nat /\ y \in Nat /\ x < Values /\ y < Values /\ Values = 2 * TopBit /\ TopBit \in Nat
  BY WordsOf
<1>2. Msb(x) = (IF x >= TopBit THEN 1 ELSE 0) /\ Msb(y) = (IF y >= TopBit THEN 1 ELSE 0)
  BY MsbOf
<1>3. CASE Msb(x) # Msb(y)
  BY <1>1, <1>2, <1>3 DEF CrtLt
<1>4. CASE Msb(x) = Msb(y)
  <2> DEFINE d == (x - y) % Values
  <2>1. d = IF x - y < 0 THEN (x - y) + Values ELSE x - y
    <3>1. x - y \in Int /\ -Values <= x - y /\ x - y < 2 * Values /\ x - y < Values
      BY <1>1
    <3> QED  BY <3>1, WordWraps
  <2>2. d \in Words
    BY <1>1, WordRemainder
  <2> HIDE DEF d
  <2>3. Msb(d) = IF d >= TopBit THEN 1 ELSE 0
    BY <2>2, MsbOf
  <2>4. Msb(d) = 1 <=> x < y
    BY <1>1, <1>2, <1>4, <2>1, <2>3
  <2>5. CrtLt(x, y) <=> Msb(d) = 1
    BY <1>4 DEF CrtLt, d
  <2> QED  BY <2>4, <2>5
<1> QED  BY <1>3, <1>4

LEMMA CrtLtSignedOf ==
  ASSUME NEW x \in Words, NEW y \in Words
  PROVE  CrtLtSigned(x, y) <=> Signed(x) < Signed(y)
<1>1. x \in Nat /\ y \in Nat /\ x < Values /\ y < Values /\ Values = 2 * TopBit /\ TopBit \in Nat
  BY WordsOf
<1>2. Msb(x) = (IF x >= TopBit THEN 1 ELSE 0) /\ Msb(y) = (IF y >= TopBit THEN 1 ELSE 0)
  BY MsbOf
<1>3. Signed(x) = (IF x >= TopBit THEN x - Values ELSE x) /\ Signed(y) = (IF y >= TopBit THEN y - Values ELSE y)
  BY SignedOf
<1>4. CASE Msb(x) # Msb(y)
  <2>1. CrtLtSigned(x, y) <=> Msb(x) = 1 /\ Msb(y) = 0
    BY <1>4 DEF CrtLtSigned
  <2> QED  BY <1>1, <1>2, <1>3, <1>4, <2>1
<1>5. CASE Msb(x) = Msb(y)
  <2>1. CrtLtSigned(x, y) <=> CrtLt(x, y)
    BY <1>5 DEF CrtLtSigned, CrtLt
  <2>2. Signed(x) < Signed(y) <=> x < y
    BY <1>1, <1>2, <1>3, <1>5
  <2> QED  BY <2>1, <2>2, CrtLtOf
<1> QED  BY <1>4, <1>5

\* The exclusive or of two words is a word, zero when they are the same.
LEMMA XorOf ==
  ASSUME NEW x \in Words, NEW y \in Words
  PROVE  Xor(W, x, y) \in Words /\ (Xor(W, x, y) = 0 <=> x = y)
<1> DEFINE b == [i \in 0 .. W - 1 |-> (Bit(x, i) + Bit(y, i)) % 2]
<1>1. x \in Nat /\ y \in Nat /\ x < Values /\ y < Values /\ W \in Nat /\ Values \in Nat \ {0}
  BY WordsOf
<1>2. ASSUME NEW i \in 0 .. W - 1
      PROVE  /\ Bit(x, i) \in {0, 1} /\ Bit(y, i) \in {0, 1} /\ b[i] \in {0, 1}
             /\ b[i] = 0 <=> Bit(x, i) = Bit(y, i)
  <2>1. i \in Nat
    OBVIOUS
  <2>2. Bit(x, i) \in {0, 1} /\ Bit(y, i) \in {0, 1}
    BY <1>1, <2>1, BitIn
  <2>3. b[i] = (Bit(x, i) + Bit(y, i)) % 2
    OBVIOUS
  <2> HIDE DEF b
  <2> QED  BY <2>2, <2>3
<1>3. Xor(W, x, y) = FromBits(b, W)
  BY DEF Xor
<1>4. AreBits(b, W)
  BY <1>2 DEF AreBits
<1> HIDE DEF b
<1>5. FromBits(b, W) \in Words
  BY <1>1, <1>4, FromBitsBelow, WordsOf DEF Values
<1>6. ASSUME x = y PROVE FromBits(b, W) = 0
  <2> DEFINE Q == {n \in 0 .. W : FromBits(b, n) = 0}
  <2>1. 0 \in Q
    BY <1>1, FromBitsNone
  <2>2. ASSUME NEW n \in 1 .. W, n - 1 \in Q PROVE n \in Q
    <3>1. n - 1 \in 0 .. W - 1
      BY <1>1
    <3>2. b[n - 1] = 0
      BY <1>2, <1>6, <3>1
    <3> QED  BY <1>1, <1>4, <2>2, <3>2, FromBitsStep
  <2> HIDE DEF Q
  <2>3. \A n \in 0 .. W : n \in Q
    BY <1>1, <2>1, <2>2, SetInduction
  <2> QED  BY <1>1, <2>3 DEF Q
<1>7. ASSUME FromBits(b, W) = 0 PROVE x = y
  <2> DEFINE c == [i \in 0 .. W - 1 |-> Bit(x, i)]
             d == [i \in 0 .. W - 1 |-> Bit(y, i)]
  <2>1. ASSUME NEW i \in 0 .. W - 1 PROVE c[i] = d[i]
    <3>1. Bit(0, i) = 0
      <4>1. i \in Nat /\ 0 \in Nat /\ 0 < PowerOf2(i) /\ PowerOf2(i) \in Nat
        BY <1>1, PowerOf2Positive
      <4>2. 0 = 0 + PowerOf2(i) * (0 + 2 * 0)
        BY <4>1
      <4> QED  BY <4>1, <4>2, BitOf
    <3>2. b[i] = 0
      BY <1>1, <1>4, <1>7, <3>1, BitOfFromBits
    <3> QED  BY <1>2, <3>2
  <2>2. AreBits(c, W) /\ FromBits(c, W) = x % Values
    <3>1. \A i \in 0 .. W - 1 : c[i] = Bit(x, i)
      OBVIOUS
    <3> HIDE DEF c
    <3> QED  BY <1>1, <3>1, BitsOfNumber DEF Values
  <2>3. AreBits(d, W) /\ FromBits(d, W) = y % Values
    <3>1. \A i \in 0 .. W - 1 : d[i] = Bit(y, i)
      OBVIOUS
    <3> HIDE DEF d
    <3> QED  BY <1>1, <3>1, BitsOfNumber DEF Values
  <2> HIDE DEF c, d
  <2>4. FromBits(d, W) = FromBits(c, W)
    BY <1>1, <2>1, <2>3, FromBitsSame
  <2> QED  BY <1>1, <2>2, <2>3, <2>4, BelowRemains
<1> QED  BY <1>3, <1>5, <1>6, <1>7

LEMMA CrtNeqOf ==
  ASSUME NEW x \in Words, NEW y \in Words
  PROVE  CrtNeq(x, y) <=> x # y
<1> DEFINE d == Xor(W, x, y)
<1>1. d \in Words /\ (d = 0 <=> x = y)
  BY XorOf
<1>2. CrtNeq(x, y) <=> Msb(d) = 1 \/ Msb((-d) % Values) = 1
  BY DEF CrtNeq
<1> HIDE DEF d
<1>3. d \in Nat /\ d < Values /\ Values = 2 * TopBit /\ TopBit \in Nat \ {0}
  BY <1>1, WordsOf
<1> DEFINE e == (-d) % Values
<1>4. e = IF -d < 0 THEN Values - d ELSE 0
  <2>1. -d \in Int /\ -Values <= -d /\ -d < 2 * Values /\ -d < Values
    BY <1>3
  <2>2. e = IF -d < 0 THEN (-d) + Values ELSE -d
    BY <2>1, WordWraps
  <2> QED  BY <1>3, <2>2
<1>5. e \in Words
  BY <1>3, WordRemainder
<1> HIDE DEF e
<1>6. Msb(d) = (IF d >= TopBit THEN 1 ELSE 0) /\ Msb(e) = (IF e >= TopBit THEN 1 ELSE 0)
  BY <1>1, <1>5, MsbOf
<1>7. Msb(d) = 1 \/ Msb(e) = 1 <=> d # 0
  BY <1>3, <1>4, <1>6
<1> QED  BY <1>1, <1>2, <1>7 DEF e

\* The thirteen comparisons are those of the numbers.
LEMMA ComparedOf ==
  ASSUME NEW x \in Words, NEW y \in Words
  PROVE  Compared(x, y) =
           [lt |-> x < y, gt |-> x > y, leq |-> x <= y, geq |-> x >= y,
            lti |-> Signed(x) < Signed(y), gti |-> Signed(x) > Signed(y),
            leqi |-> Signed(x) <= Signed(y), geqi |-> Signed(x) >= Signed(y),
            eq |-> x = y, neq |-> x # y, neg |-> Signed(x) < 0, pos |-> Signed(x) >= 0]
<1>1. x \in Nat /\ y \in Nat /\ x < Values /\ y < Values /\ Values = 2 * TopBit /\ TopBit \in Nat \ {0}
  BY WordsOf
<1>2. Signed(x) = (IF x >= TopBit THEN x - Values ELSE x) /\ Signed(y) = (IF y >= TopBit THEN y - Values ELSE y)
      /\ Msb(x) = (IF x >= TopBit THEN 1 ELSE 0)
  BY SignedOf, MsbOf
<1>3. CrtLt(x, y) = (x < y) /\ CrtLt(y, x) = (x > y) /\ (~ CrtLt(y, x)) = (x <= y) /\ (~ CrtLt(x, y)) = (x >= y)
  <2>1. (CrtLt(x, y) <=> x < y) /\ (CrtLt(y, x) <=> y < x)
    BY CrtLtOf
  <2>2. CrtLt(x, y) \in BOOLEAN /\ CrtLt(y, x) \in BOOLEAN
    BY DEF CrtLt
  <2> QED  BY <1>1, <2>1, <2>2
<1>4. /\ CrtLtSigned(x, y) = (Signed(x) < Signed(y)) /\ CrtLtSigned(y, x) = (Signed(x) > Signed(y))
      /\ (~ CrtLtSigned(y, x)) = (Signed(x) <= Signed(y)) /\ (~ CrtLtSigned(x, y)) = (Signed(x) >= Signed(y))
  <2>1. (CrtLtSigned(x, y) <=> Signed(x) < Signed(y)) /\ (CrtLtSigned(y, x) <=> Signed(y) < Signed(x))
    BY CrtLtSignedOf
  <2>2. CrtLtSigned(x, y) \in BOOLEAN /\ CrtLtSigned(y, x) \in BOOLEAN
    BY DEF CrtLtSigned
  <2>3. Signed(x) \in Int /\ Signed(y) \in Int
    BY <1>1, <1>2
  <2> QED  BY <2>1, <2>2, <2>3
<1>5. CrtNeq(x, y) = (x # y) /\ (~ CrtNeq(x, y)) = (x = y)
  <2>1. CrtNeq(x, y) \in BOOLEAN
    BY DEF CrtNeq
  <2> QED  BY <2>1, CrtNeqOf
<1>6. (Msb(x) = 1) = (Signed(x) < 0) /\ (Msb(x) = 0) = (Signed(x) >= 0)
  BY <1>1, <1>2
<1> QED  BY <1>3, <1>4, <1>5, <1>6, Zenon DEF Compared

-----------------------------------------------------------------------------
(* Words: sum, difference and product with the high word *)

LEMMA LessInOf ==
  ASSUME NEW kit, NEW x \in Words, NEW y \in Words
  PROVE  LessIn(kit, x, y) <=> x < y
BY CrtLtOf DEF LessIn

\* A sum wraps round once.
LEMMA SumWraps ==
  ASSUME NEW x \in Nat, NEW y \in Nat, x + y < 2 * Values
  PROVE  (x + y) % Values = (IF x + y < Values THEN x + y ELSE (x + y) - Values) /\ (x + y) % Values \in Words
<1>1. PICK n \in Nat : n = x + y
  OBVIOUS
<1>2. n \in Int /\ -Values <= n /\ n < 2 * Values /\ ~ (n < 0)
  BY <1>1, WordsOf
<1>3. n % Values = (IF n < Values THEN n ELSE n - Values) /\ n % Values \in Words
  BY <1>2, WordWraps, WordRemainder
<1> QED  BY <1>1, <1>3, Zenon

LEMMA AddCarryOf ==
  ASSUME NEW kit, NEW a \in Words, NEW b \in Words, NEW carry \in {0, 1}
  PROVE  LET v == AddCarry(kit, a, b, carry) IN v.lo + Values * v.hi = a + b + carry
<1> DEFINE sum == (a + b) % Values  full == (sum + carry) % Values
<1>1. a \in Nat /\ b \in Nat /\ a < Values /\ b < Values /\ Values \in Nat \ {0} /\ Values >= 2
  BY WordsOf
<1>2. sum = (IF a + b < Values THEN a + b ELSE (a + b) - Values) /\ sum \in Words
  BY <1>1, SumWraps
<1> HIDE DEF sum
<1>3. sum \in Nat /\ sum < Values
  BY <1>2, WordsOf
<1>4. full = (IF sum + carry < Values THEN sum + carry ELSE (sum + carry) - Values) /\ full \in Words
  <2>1. carry \in Nat /\ sum + carry < 2 * Values
    BY <1>1, <1>3
  <2> QED  BY <1>3, <2>1, SumWraps
<1> HIDE DEF full
<1> DEFINE hi == IF kit = "builtin" THEN Flag(a + b >= Values \/ sum + carry >= Values)
                 ELSE Flag(LessIn(kit, sum, a) \/ LessIn(kit, full, sum))
<1>5. hi = IF a + b >= Values \/ sum + carry >= Values THEN 1 ELSE 0
  <2>1. LessIn(kit, sum, a) <=> a + b >= Values
    BY <1>1, <1>2, LessInOf
  <2>2. LessIn(kit, full, sum) <=> sum + carry >= Values
    BY <1>1, <1>2, <1>3, <1>4, LessInOf
  <2> QED  BY <2>1, <2>2 DEF Flag
<1>6. AddCarry(kit, a, b, carry) = [lo |-> full, hi |-> hi]
  BY DEF AddCarry, sum, full
<1> HIDE DEF hi
<1>7. full + Values * hi = a + b + carry
  <2>1. CASE hi = 1
    <3>1. Values * hi = Values
      BY <1>1, <2>1
    <3> QED  BY <1>1, <1>2, <1>3, <1>4, <1>5, <2>1, <3>1
  <2>2. CASE hi = 0
    <3>1. Values * hi = 0
      BY <1>1, <2>2
    <3> QED  BY <1>1, <1>2, <1>3, <1>4, <1>5, <2>2, <3>1
  <2> QED  BY <1>5, <2>1, <2>2
<1> QED  BY <1>6, <1>7

LEMMA SubBorrowOf ==
  ASSUME NEW kit, NEW a \in Words, NEW b \in Words, NEW borrow \in {0, 1}
  PROVE  LET v == SubBorrow(kit, a, b, borrow) IN v.lo - Values * v.hi = a - b - borrow
<1> DEFINE diff == (a - b) % Values  full == (diff - borrow) % Values
<1>1. a \in Nat /\ b \in Nat /\ a < Values /\ b < Values /\ Values \in Nat \ {0} /\ Values >= 2
  BY WordsOf
<1>2. diff = (IF a < b THEN a - b + Values ELSE a - b) /\ diff \in Words
  <2>1. a - b \in Int /\ -Values <= a - b /\ a - b < 2 * Values /\ a - b < Values /\ (a - b < 0 <=> a < b)
    BY <1>1
  <2> QED  BY <2>1, WordWraps, WordRemainder
<1> HIDE DEF diff
<1>3. diff \in Nat /\ diff < Values
  BY <1>2, WordsOf
<1>4. full = (IF diff < borrow THEN diff - borrow + Values ELSE diff - borrow) /\ full \in Words
  <2>1. /\ diff - borrow \in Int /\ -Values <= diff - borrow /\ diff - borrow < 2 * Values /\ diff - borrow < Values
        /\ diff - borrow < 0 <=> diff < borrow
    BY <1>1, <1>3
  <2> QED  BY <2>1, WordWraps, WordRemainder
<1> HIDE DEF full
<1> DEFINE hi == IF kit = "builtin" THEN Flag(a < b \/ diff < borrow)
                 ELSE Flag(LessIn(kit, a, diff) \/ LessIn(kit, diff, full))
<1>5. hi = IF a < b \/ diff < borrow THEN 1 ELSE 0
  <2>1. LessIn(kit, a, diff) <=> a < b
    BY <1>1, <1>2, LessInOf
  <2>2. LessIn(kit, diff, full) <=> diff < borrow
    BY <1>1, <1>2, <1>3, <1>4, LessInOf
  <2> QED  BY <2>1, <2>2 DEF Flag
<1>6. SubBorrow(kit, a, b, borrow) = [lo |-> full, hi |-> hi]
  BY DEF SubBorrow, diff, full
<1> HIDE DEF hi
<1>7. full - Values * hi = a - b - borrow
  <2>1. CASE hi = 1
    <3>1. Values * hi = Values
      BY <1>1, <2>1
    <3> QED  BY <1>1, <1>2, <1>3, <1>4, <1>5, <2>1, <3>1
  <2>2. CASE hi = 0
    <3>1. Values * hi = 0
      BY <1>1, <2>2
    <3> QED  BY <1>1, <1>2, <1>3, <1>4, <1>5, <2>2, <3>1
  <2> QED  BY <1>5, <2>1, <2>2
<1> QED  BY <1>6, <1>7

LEMMA HalfOf == Half \in Nat \ {0} /\ Values = Half * Half
<1>1. W \div 2 \in Nat /\ (W \div 2) + (W \div 2) = W
  BY WordAssumption
<1>2. Half \in Nat \ {0} /\ PowerOf2((W \div 2) + (W \div 2)) = Half * Half
  BY <1>1, PowerOf2Positive, PowerOf2Add DEF Half
<1> QED  BY <1>1, <1>2 DEF Values

\* A product of numbers below h and below k is less than h times k.
LEMMA ProductBelow ==
  ASSUME NEW h \in Nat, NEW k \in Nat, NEW x \in Nat, NEW y \in Nat, x < h, y < k
  PROVE  x * y \in Nat /\ x * y < h * k /\ h * k \in Nat
<1>1. x * y <= x * k /\ k * x <= k * h /\ x * y \in Nat /\ x * k \in Nat /\ k * h \in Nat
  BY Products
<1>2. k * x = x * k /\ k * h = h * k
  OBVIOUS
<1>3. x * k < h * k
  <2>1. PICK j \in Nat : h = x + 1 + j
    <3>1. h - x - 1 \in Nat /\ h = x + 1 + (h - x - 1)
      OBVIOUS
    <3> QED  BY <3>1
  <2>2. h * k = x * k + k + j * k /\ j * k \in Nat /\ k > 0
    BY <2>1
  <2> QED  BY <1>1, <2>2
<1> QED  BY <1>1, <1>2, <1>3

\* Four products of halves: first, the two in the middle, whose sum may carry, and last.
LEMMA FourProducts ==
  ASSUME NEW h \in Nat, NEW v \in Nat, v = h * h,
         NEW p \in Nat, NEW q \in Nat, NEW r \in Nat, NEW s \in Nat,
         NEW mid \in Nat, NEW m0 \in Nat, NEW m1 \in Nat, mid = m1 * h + m0,
         NEW c1 \in {0, 1}, mid + c1 * v = q * r + p * s,
         NEW res \in Nat, NEW c2 \in {0, 1}, res + c2 * v = q * s + m0 * h
  PROVE  res + v * (p * r + c2 + m1 + c1 * h) = (p * h + q) * (r * h + s)
<1> DEFINE pr == p * r  ps == p * s  qr == q * r  qs == q * s
<1>1. pr \in Nat /\ ps \in Nat /\ qr \in Nat /\ qs \in Nat
  OBVIOUS
<1>2. (p * h + q) * (r * h + s) = pr * v + (ps + qr) * h + qs
  <2>1. (p * h + q) * (r * h + s) = (p * r) * (h * h) + (p * s + q * r) * h + q * s
    OBVIOUS
  <2> QED  BY <2>1
<1> HIDE DEF pr, ps, qr, qs
<1>3. (qr + ps) * h = mid * h + (c1 * v) * h
  BY DEF qr, ps
<1>4. mid * h = m1 * v + m0 * h
  <2>1. (m1 * h + m0) * h = m1 * (h * h) + m0 * h
    OBVIOUS
  <2> QED  BY <2>1
<1>5. v * (pr + c2 + m1 + c1 * h) = pr * v + c2 * v + m1 * v + (c1 * v) * h
  <2> DEFINE d == c1 * h
  <2>1. d \in Nat /\ v * d = (c1 * v) * h
    OBVIOUS
  <2> HIDE DEF d
  <2>2. v * (pr + c2 + m1 + d) = pr * v + c2 * v + m1 * v + v * d
    BY <1>1, <2>1
  <2> QED  BY <2>1, <2>2 DEF d
<1>6. res + c2 * v = qs + m0 * h
  BY DEF qs
<1> DEFINE A == pr * v  B == c2 * v  C == m1 * v  D == (c1 * v) * h  E == m0 * h
<1>7. A \in Nat /\ B \in Nat /\ C \in Nat /\ D \in Nat /\ E \in Nat
  BY <1>1
<1>8. res + v * (pr + c2 + m1 + c1 * h) = A + (ps + qr) * h + qs
  <2>1. (ps + qr) * h = C + E + D
    <3>1. ps + qr = qr + ps
      BY <1>1
    <3> QED  BY <1>3, <1>4, <3>1
  <2>2. res + B = qs + E
    BY <1>6
  <2>3. v * (pr + c2 + m1 + c1 * h) = A + B + C + D
    BY <1>5
  <2> HIDE DEF A, B, C, D, E
  <2> QED  BY <1>1, <1>7, <2>1, <2>2, <2>3
<1> QED  BY <1>2, <1>8 DEF A, pr

\* The product by halves and by a double word.
LEMMA WideMulOf ==
  ASSUME NEW kit, NEW a \in Words, NEW b \in Words
  PROVE  LET v == WideMul(kit, a, b)
         IN  v.lo \in Words /\ v.hi \in Words /\ v.lo + Values * v.hi = a * b
<1>1. a \in Nat /\ b \in Nat /\ a < Values /\ b < Values /\ Values \in Nat \ {0}
  BY WordsOf
<1>2. a * b \in Nat /\ a * b < Values * Values
  BY <1>1, ProductBelow
<1>3. CASE kit = "builtin"
  <2> DEFINE n == a * b  w == Values
  <2>1. WideMul(kit, a, b) = [lo |-> n % w, hi |-> n \div w]
    BY <1>3 DEF WideMul
  <2> HIDE DEF n, w
  <2>2. n \in Nat /\ w \in Nat \ {0} /\ n < w * w
    BY <1>1, <1>2 DEF n, w
  <2>3. n % w \in Nat /\ n % w < w /\ n \div w \in Nat /\ n = w * (n \div w) + (n % w)
    BY <2>2
  <2>4. n \div w < w
    <3> DEFINE q == n \div w  r == n % w
    <3> HIDE DEF q, r
    <3>1. q \in Nat /\ r \in Nat /\ n = w * q + r
      BY <2>3 DEF q, r
    <3>2. ASSUME q >= w PROVE FALSE
      <4>1. w * w <= w * q /\ w * q \in Nat /\ w * w \in Nat
        BY <2>2, <3>1, <3>2, Products
      <4> QED  BY <2>2, <3>1, <4>1
    <3> QED  BY <2>2, <3>1, <3>2 DEF q
  <2> QED  BY <2>1, <2>2, <2>3, <2>4, WordsOf DEF n, w
<1>4. CASE kit # "builtin"
  <2> DEFINE h == Half  v == Values  p == a \div h  q == a % h  r == b \div h  s == b % h
             first == q * s  second == q * r  third == p * s
             mid == (second + third) % v  m0 == mid % h  m1 == mid \div h
             res == (first + m0 * h) % v
             hi == (p * r + Flag(LessIn(kit, res, first)) + m1 + Flag(LessIn(kit, mid, second)) * h)
  <2>1. WideMul(kit, a, b) = [lo |-> res, hi |-> hi % v]
    BY <1>4 DEF WideMul
  <2>2. h \in Nat \ {0} /\ v = h * h /\ v \in Nat \ {0} /\ a < v /\ b < v
    BY <1>1, HalfOf
  <2> HIDE DEF h, v
  <2>d. ASSUME NEW n \in Nat, n < v
        PROVE  n \div h \in Nat /\ n % h \in Nat /\ n % h < h /\ n = (n \div h) * h + (n % h) /\ n \div h < h
    <3> DEFINE x == n \div h  y == n % h
    <3>1. x \in Nat /\ y \in Nat /\ y < h /\ n = x * h + y
      BY <2>2, <2>d
    <3> HIDE DEF x, y
    <3>2. ASSUME x >= h PROVE FALSE
      <4>1. h * h <= h * x /\ h * x = x * h /\ x * h \in Nat
        BY <2>2, <3>1, <3>2, Products
      <4> QED  BY <2>2, <2>d, <3>1, <4>1
    <3> QED  BY <2>2, <3>1, <3>2 DEF x, y
  <2>3. p \in Nat /\ q \in Nat /\ r \in Nat /\ s \in Nat /\ p < h /\ q < h /\ r < h /\ s < h
        /\ a = p * h + q /\ b = r * h + s
    BY <1>1, <2>2, <2>d
  <2> HIDE DEF p, q, r, s
  <2>4. first \in Nat /\ first < v /\ second \in Nat /\ second < v /\ third \in Nat /\ third < v
    BY <2>2, <2>3, ProductBelow
  <2>f. first \in Words /\ second \in Words
    BY <2>4, WordsOf DEF v
  <2>s. second = q * r /\ third = p * s /\ first = q * s
    OBVIOUS
  <2> HIDE DEF first, second, third
  <2>5. mid \in Words /\ mid = IF second + third < v THEN second + third ELSE (second + third) - v
    <3>1. second + third < 2 * v
      BY <2>2, <2>4
    <3> QED  BY <2>4, <3>1, SumWraps DEF v
  <2> HIDE DEF mid
  <2>6. mid \in Nat /\ mid < v
    BY <2>5, WordsOf DEF v
  <2>7. m0 \in Nat /\ m1 \in Nat /\ m0 < h /\ mid = m1 * h + m0
    BY <2>6, <2>d
  <2> HIDE DEF m0, m1
  <2> DEFINE e == m0 * h
  <2>8. e \in Nat /\ e < v
    <3>1. (m0 + 1) * h = m0 * h + h /\ m0 * h \in Nat
      BY <2>2, <2>7
    <3>2. h * (m0 + 1) <= h * h /\ h * (m0 + 1) = (m0 + 1) * h
      BY <2>2, <2>7, Products
    <3> QED  BY <2>2, <3>1, <3>2
  <2>e. m0 * h = e
    OBVIOUS
  <2> HIDE DEF e
  <2>9. res \in Words /\ res = IF first + e < v THEN first + e ELSE (first + e) - v
    <3>1. first + e < 2 * v
      BY <2>2, <2>4, <2>8
    <3>2. res = (first + e) % v
      BY <2>e
    <3> HIDE DEF res
    <3> QED  BY <2>4, <2>8, <3>1, <3>2, SumWraps DEF v
  <2> HIDE DEF res
  <2>10. res \in Nat /\ res < v
    BY <2>9, WordsOf DEF v
  <2> DEFINE c1 == Flag(LessIn(kit, mid, second))  c2 == Flag(LessIn(kit, res, first))
  <2>11. c1 = (IF mid < second THEN 1 ELSE 0) /\ c2 = (IF res < first THEN 1 ELSE 0)
    BY <2>5, <2>9, <2>f, LessInOf DEF Flag
  <2>12. hi = p * r + c2 + m1 + c1 * h
    OBVIOUS
  <2> HIDE DEF c1, c2, hi
  <2>13. c1 \in {0, 1} /\ c2 \in {0, 1} /\ c1 * v = (IF mid < second THEN v ELSE 0)
         /\ c2 * v = (IF res < first THEN v ELSE 0)
    BY <2>2, <2>11
  <2>14. mid + c1 * v = second + third
    <3>1. mid < second <=> ~ (second + third < v)
      BY <2>2, <2>4, <2>5
    <3> QED  BY <2>2, <2>4, <2>5, <2>13, <3>1
  <2>15. res + c2 * v = first + e
    <3>1. res < first <=> ~ (first + e < v)
      BY <2>2, <2>4, <2>8, <2>9
    <3> QED  BY <2>2, <2>4, <2>8, <2>9, <2>13, <3>1
  <2>16. res + v * hi = a * b
    <3>1. mid + c1 * v = q * r + p * s /\ res + c2 * v = q * s + m0 * h
      BY <2>14, <2>15, <2>s, <2>e
    <3>2. h \in Nat /\ v \in Nat
      BY <2>2
    <3>3. res + v * (p * r + c2 + m1 + c1 * h) = (p * h + q) * (r * h + s)
      BY <2>2, <2>3, <2>6, <2>7, <2>10, <2>13, <3>1, <3>2, FourProducts
    <3> QED  BY <2>3, <2>12, <3>3
  <2>17. hi \in Nat
    <3>1. p * r \in Nat /\ c1 * h \in Nat
      BY <2>2, <2>3, <2>13
    <3> QED  BY <2>7, <2>12, <2>13, <3>1
  <2>18. hi < v
    <3>1. ASSUME hi >= v PROVE FALSE
      <4>1. v * v <= v * hi /\ v * hi \in Nat /\ v * v \in Nat
        BY <2>2, <2>17, <3>1, Products
      <4>2. a * b < v * v
        BY <1>2 DEF v
      <4> QED  BY <1>2, <2>10, <2>16, <4>1, <4>2
    <3> QED  BY <2>2, <2>17, <3>1
  <2>19. hi % v = hi
    BY <2>2, <2>17, <2>18, BelowRemains
  <2>20. hi \in Words
    BY <2>17, <2>18, WordsOf DEF v
  <2> QED  BY <2>1, <2>9, <2>16, <2>19, <2>20 DEF v
<1> QED  BY <1>3, <1>4

-----------------------------------------------------------------------------
(* Words: the wide quotient *)

\* A wide division, under way or ended.
DivRecord ==
  [op : {"div"}, status : {"running", "ok"}, kit : Kits, lo : Words, hi : Words, div : Words,
   i : 0 .. W, quot : Words, rem : Words, low : Words, over : {0, 1}]

\* After i passes: r is the part of the dividend that is not taken in yet.
Dividing(t, r) ==
  /\ r \in Nat /\ r < PowerOf2(W - t.i) /\ t.low = r * PowerOf2(t.i)
  /\ t.quot < PowerOf2(t.i) /\ t.rem < t.div
  /\ t.hi * Values + t.lo = (t.quot * t.div + t.rem) * PowerOf2(W - t.i) + r

Divided(t) == t.rem < t.div /\ t.quot * t.div + t.rem = t.hi * Values + t.lo

NoQuotient(t) == t.div = 0 \/ t.hi >= t.div

DivInv(t) ==
  /\ t \in DivRecord /\ (t.over = 1 <=> NoQuotient(t))
  /\ t.over = 1 /\ t.status # "running" => t.quot = MaxWord
  /\ t.over = 0 /\ t.status = "running" => \E r \in Nat : Dividing(t, r)
  /\ t.over = 0 /\ t.status # "running" => Divided(t)

LEMMA MaxWordOf == MaxWord \in Words /\ 0 \in Words /\ 1 \in Words /\ MadeUpLow \in Words
<1>1. Values \in Nat /\ Values >= 2
  BY WordsOf
<1>2. MadeUpLow \in Words
  BY WordRemainder DEF MadeUpLow
<1> QED  BY <1>1, <1>2, WordsOf DEF MaxWord

LEMMA DivBegins ==
  ASSUME NEW kit \in Kits, NEW lo \in Words, NEW hi \in Words, NEW div \in Words, ~ (div = 0 \/ hi >= div)
  PROVE  DivInv(DivTask(kit, lo, hi, div, "running", 0, hi, 0))
<1> DEFINE t == DivTask(kit, lo, hi, div, "running", 0, hi, 0)
<1>1. /\ t = [op |-> "div", status |-> "running", kit |-> kit, lo |-> lo, hi |-> hi, div |-> div,
              i |-> 0, quot |-> 0, rem |-> hi, low |-> lo, over |-> 0]
  BY DEF DivTask
<1>2. lo \in Nat /\ lo < Values /\ hi \in Nat /\ div \in Nat /\ Values \in Nat /\ W \in Nat /\ 0 \in 0 .. W
  BY WordsOf
<1> HIDE DEF t
<1>3. t \in DivRecord
  BY <1>1, <1>2, MaxWordOf DEF DivRecord
<1>4. Dividing(t, lo)
  <2>1. W - 0 = W /\ PowerOf2(0) = 1 /\ PowerOf2(W) = Values
    BY <1>2, PowersSmall DEF Values
  <2>2. lo = lo * 1 /\ hi < div /\ 0 * div = 0
    BY <1>2
  <2>3. hi * Values + lo = (0 * div + hi) * Values + lo
    BY <1>2, <2>2
  <2>4. /\ t.i = 0 /\ t.quot = 0 /\ t.rem = hi /\ t.low = lo /\ t.div = div /\ t.hi = hi /\ t.lo = lo
    BY <1>1
  <2> QED  BY <1>2, <2>1, <2>2, <2>3, <2>4 DEF Dividing
<1>5. t.over = 0 /\ t.div = div /\ t.hi = hi /\ t.status = "running"
  BY <1>1
<1> QED  BY <1>2, <1>3, <1>4, <1>5 DEF DivInv, NoQuotient, t

LEMMA CallDivideOf ==
  ASSUME CallDivide
  PROVE  DivInv(task')
<1>1. PICK kit \in Kits, lo \in WideWords, hi \in WideWords, div \in WideWords :
        task' = CASE kit = "constant" -> CrtDivTask(lo, hi, div)
                  [] kit # "constant" /\ (div = 0 \/ hi >= div) ->
                       DivTask(kit, lo, hi, div, "ok", MaxWord, HighLeft(hi, div), 1)
                  [] kit # "constant" /\ hi < div /\ (hi = 0 \/ kit = "builtin") ->
                       DivTask(kit, lo, hi, div, "ok", (hi * Values + lo) \div div,
                               (hi * Values + lo) % div, 0)
                  [] OTHER -> DivTask(kit, lo, hi, div, "running", 0, hi, 0)
  BY DEF CallDivide, Enter
<1>2. lo \in Words /\ hi \in Words /\ div \in Words
  BY WordAssumption DEF Words, Values
<1>3. lo \in Nat /\ lo < Values /\ hi \in Nat /\ hi < Values /\ div \in Nat /\ div < Values
      /\ Values \in Nat /\ W \in Nat /\ 0 \in 0 .. W
  BY <1>2, WordsOf
<1>4. CASE kit = "constant" /\ (div = 0 \/ ~ CrtLt(hi, div))
  <2> DEFINE t == [op |-> "div", status |-> "running", kit |-> "constant", lo |-> lo, hi |-> hi, div |-> div,
                   i |-> 0, quot |-> 0, rem |-> 1, low |-> MadeUpLow, over |-> 1]
  <2>1. task' = t
    BY <1>1, <1>4 DEF CrtDivTask, DivTask
  <2>2. div = 0 \/ hi >= div
    BY <1>2, <1>3, <1>4, CrtLtOf
  <2>3. t \in DivRecord
    BY <1>2, <1>3, MaxWordOf DEF DivRecord, Kits
  <2> QED  BY <2>1, <2>2, <2>3 DEF DivInv, NoQuotient
<1>5. CASE kit = "constant" /\ ~ (div = 0 \/ ~ CrtLt(hi, div))
  <2>1. task' = DivTask(kit, lo, hi, div, "running", 0, hi, 0)
    BY <1>1, <1>5 DEF CrtDivTask
  <2>2. ~ (div = 0 \/ hi >= div)
    BY <1>2, <1>3, <1>5, CrtLtOf
  <2> QED  BY <1>2, <2>1, <2>2, DivBegins
<1>6. CASE kit # "constant" /\ (div = 0 \/ hi >= div)
  <2> DEFINE rem == HighLeft(hi, div)
             t == [op |-> "div", status |-> "ok", kit |-> kit, lo |-> lo, hi |-> hi, div |-> div,
                   i |-> 0, quot |-> MaxWord, rem |-> rem, low |-> lo, over |-> 1]
  <2> HIDE DEF rem
  <2>1. task' = t
    BY <1>1, <1>3, <1>6 DEF DivTask, rem
  <2>2. rem \in Words
    <3> USE DEF rem
    <3>1. CASE div = 0
      BY <3>1, MaxWordOf DEF HighLeft
    <3>2. CASE div # 0
      <4>1. (hi % div) \in Nat /\ (hi % div) < div
        BY <1>3, <3>2
      <4> QED  BY <1>3, <3>2, <4>1, WordsOf DEF HighLeft
    <3> QED  BY <3>1, <3>2
  <2>3. t \in DivRecord
    BY <1>2, <1>3, <2>2, MaxWordOf DEF DivRecord
  <2> QED  BY <1>6, <2>1, <2>3 DEF DivInv, NoQuotient
<1>7. CASE kit # "constant" /\ ~ (div = 0 \/ hi >= div) /\ (hi = 0 \/ kit = "builtin")
  <2> DEFINE n == hi * Values + lo  q == n \div div  rem == n % div
             t == [op |-> "div", status |-> "ok", kit |-> kit, lo |-> lo, hi |-> hi, div |-> div,
                   i |-> 0, quot |-> q, rem |-> rem, low |-> lo, over |-> 0]
  <2>1. task' = t
    BY <1>1, <1>3, <1>7 DEF DivTask
  <2>2. n \in Nat /\ div \in Nat \ {0}
    <3>1. hi * Values \in Nat
      BY <1>3
    <3> QED  BY <1>3, <1>7, <3>1
  <2>n. n = hi * Values + lo
    OBVIOUS
  <2> HIDE DEF n
  <2>3. q \in Nat /\ rem \in Nat /\ rem < div /\ q * div + rem = n
    BY <2>2
  <2> HIDE DEF q, rem
  <2>4. q < Values
    <3>1. ASSUME q >= Values PROVE FALSE
      <4>1. div * Values <= div * q /\ div * q = q * div
        BY <1>3, <2>3, <3>1, Products
      <4>2. Values * (hi + 1) <= Values * div
        <5>1. hi + 1 <= div /\ hi + 1 \in Nat
          BY <1>3, <1>7
        <5> QED  BY <1>3, <5>1, Products
      <4>3. Values * (hi + 1) = hi * Values + Values /\ Values * div = div * Values
            /\ hi * Values \in Nat /\ div * Values \in Nat /\ q * div \in Nat
        BY <1>3, <2>3
      <4> QED  BY <1>3, <2>3, <2>n, <4>1, <4>2, <4>3
    <3> QED  BY <1>3, <2>3, <3>1
  <2>5. q \in Words /\ rem \in Words
    BY <1>3, <2>3, <2>4, WordsOf
  <2>6. t \in DivRecord
    BY <1>2, <1>3, <2>5 DEF DivRecord
  <2> QED  BY <1>3, <1>7, <2>1, <2>3, <2>6, <2>n DEF DivInv, NoQuotient, Divided
<1>8. CASE kit # "constant" /\ ~ (div = 0 \/ hi >= div) /\ ~ (hi = 0 \/ kit = "builtin")
  <2>1. task' = DivTask(kit, lo, hi, div, "running", 0, hi, 0)
    BY <1>1, <1>8
  <2> QED  BY <1>2, <1>8, <2>1, DivBegins
<1> QED  BY <1>4, <1>5, <1>6, <1>7, <1>8

\* The numbers of a pass: b is the next bit, quo and rem become those of the
\* dividend so far with b at its end.
PassRight(kit, quot, rem, div, b, q) ==
  LET shifted == (2 * rem + b) % Values
      take    == Msb(rem) = 1 \/ ~ LessIn(kit, shifted, div)
      quo     == (2 * quot + Flag(take)) % Values
      left    == IF take THEN (shifted - div) % Values ELSE shifted
  IN  /\ quo \in Words /\ quo < 2 * q /\ left \in Words /\ left < div
      /\ quo * div + left = 2 * (quot * div + rem) + b

LEMMA DivPassNumbers ==
  ASSUME NEW kit, NEW quot \in Nat, NEW rem \in Words, NEW div \in Words, rem < div,
         NEW b \in {0, 1},
         NEW p \in Nat \ {0}, NEW q \in Nat, 2 * (p * q) = Values, quot < q
  PROVE  PassRight(kit, quot, rem, div, b, q)
<1> DEFINE v == Values
           n == 2 * rem + b
           shifted == n % v
           take == Msb(rem) = 1 \/ ~ LessIn(kit, shifted, div)
           f == Flag(take)
           quo == (2 * quot + f) % v
           left == IF take THEN (shifted - div) % v ELSE shifted
<1>1. rem \in Nat /\ rem < v /\ div \in Nat /\ div < v /\ v = 2 * TopBit /\ TopBit \in Nat \ {0}
  BY WordsOf
<1>2. n \in Nat /\ n < 2 * v /\ n < 2 * div
  BY <1>1
<1>3. Msb(rem) = 1 <=> n >= v
  <2>1. Msb(rem) = IF rem >= TopBit THEN 1 ELSE 0
    BY MsbOf
  <2> QED  BY <1>1, <2>1
<1> HIDE DEF n
<1>4. shifted = (IF n < v THEN n ELSE n - v) /\ shifted \in Words
  <2>1. n \in Int /\ -v <= n /\ ~ (n < 0)
    BY <1>1, <1>2
  <2> QED  BY <1>2, <2>1, WordWraps, WordRemainder
<1>n. (2 * rem + b) % Values = shifted
  BY DEF n
<1> HIDE DEF shifted
<1>5. shifted \in Nat
  BY <1>4, WordsOf
<1>6. take <=> n >= div
  <2>1. LessIn(kit, shifted, div) <=> shifted < div
    BY <1>4, LessInOf
  <2> QED  BY <1>1, <1>2, <1>3, <1>4, <2>1
<1>t. take = (Msb(rem) = 1 \/ ~ LessIn(kit, shifted, div))
  OBVIOUS
<1>f. f = IF n >= div THEN 1 ELSE 0
  BY <1>6 DEF Flag
<1>7. left = (IF n >= div THEN n - div ELSE n)
  <2>1. CASE n >= div
    <3> DEFINE d == shifted - div
    <3>1. d \in Int /\ -v <= d /\ d < v /\ d < 2 * v
      BY <1>1, <1>4, <1>5, <1>2
    <3>2. left = d % v
      BY <1>6, <2>1
    <3>3. d % v = IF d < 0 THEN d + v ELSE d
      <4> HIDE DEF d
      <4> QED  BY <3>1, WordWraps
    <3>4. d = IF n < v THEN n - div ELSE (n - v) - div
      BY <1>4
    <3> HIDE DEF d, left
    <3> QED  BY <1>1, <1>2, <2>1, <3>2, <3>3, <3>4
  <2>2. CASE ~ (n >= div)
    <3>1. left = shifted
      BY <1>6, <2>2
    <3> HIDE DEF left
    <3> QED  BY <1>1, <1>2, <1>4, <2>2, <3>1
  <2> QED  BY <2>1, <2>2
<1>l. left = IF take THEN (shifted - div) % Values ELSE shifted
  OBVIOUS
<1>u. quo = (2 * quot + Flag(take)) % Values
  OBVIOUS
<1> HIDE DEF take, left
<1>8. left \in Nat /\ left < div
  BY <1>1, <1>2, <1>7
<1>9. quo = 2 * quot + f /\ quo < 2 * q
  <2> DEFINE m == 2 * quot + f
  <2>1. f \in {0, 1}
    BY <1>f
  <2>2. m \in Nat /\ m < 2 * q
    BY <2>1
  <2>3. 2 * q <= v
    <3>1. q * 1 <= q * p /\ q * p = p * q
      BY Products
    <3> QED  BY <3>1, <1>1
  <2>4. quo = m % v
    OBVIOUS
  <2>5. v \in Nat \ {0}
    BY <1>1
  <2> HIDE DEF m, f, quo, v
  <2>6. m % v = m
    BY <2>2, <2>3, <2>5, BelowRemains
  <2> QED  BY <2>2, <2>4, <2>6 DEF m
<1>10. quo \in Words
  <2>1. 2 * quot + f \in Int
    BY <1>f
  <2> HIDE DEF f
  <2> QED  BY <2>1, WordRemainder
<1> HIDE DEF quo, f
<1>11. quo * div + left = 2 * (quot * div + rem) + b
  <2> DEFINE z == quot * div
  <2>1. z \in Nat
    BY <1>1
  <2>2. CASE n >= div
    <3>1. (2 * quot + 1) * div = 2 * (quot * div) + div
      BY <1>1
    <3>2. quo * div = 2 * z + div
      BY <1>9, <1>f, <2>2, <3>1
    <3> HIDE DEF z
    <3>3. left = n - div
      BY <1>7, <2>2
    <3> QED  BY <1>1, <1>2, <2>1, <3>2, <3>3 DEF n, z
  <2>3. CASE ~ (n >= div)
    <3>1. (2 * quot + 0) * div = 2 * (quot * div)
      BY <1>1
    <3>2. quo * div = 2 * z
      BY <1>9, <1>f, <2>3, <3>1
    <3> HIDE DEF z
    <3>3. left = n
      BY <1>7, <2>3
    <3> QED  BY <1>1, <1>2, <2>1, <3>2, <3>3 DEF n, z
  <2> QED  BY <2>2, <2>3
<1>12. left \in Words
  BY <1>1, <1>8, WordsOf
<1> QED  BY <1>8, <1>9, <1>10, <1>11, <1>12, <1>n, <1>l, <1>u, Zenon DEF take, PassRight

\* A pass keeps the division right.
LEMMA DivPassOf ==
  ASSUME NEW t, DivInv(t), t.status = "running", t.i < W
  PROVE  DivInv(DivPass(t))
<1> DEFINE b       == Msb(t.low)
           shifted == (2 * t.rem + b) % Values
           take    == Msb(t.rem) = 1 \/ ~ LessIn(t.kit, shifted, t.div)
           quo     == (2 * t.quot + Flag(take)) % Values
           left    == IF take THEN (shifted - t.div) % Values ELSE shifted
           low     == (2 * t.low) % Values
           u       == DivPass(t)
<1>0. /\ t \in DivRecord /\ t.i \in 0 .. W /\ W \in Nat /\ t.i + 1 \in 0 .. W
      /\ t.quot \in Words /\ t.rem \in Words /\ t.low \in Words /\ t.div \in Words
      /\ t.quot \in Nat /\ t.rem \in Nat /\ t.low \in Nat /\ t.div \in Nat /\ t.hi \in Nat /\ t.lo \in Nat
  BY WordsOf DEF DivInv, DivRecord
<1>1. u = [t EXCEPT !.quot = quo, !.rem = left, !.low = low, !.i = t.i + 1]
  BY DEF DivPass
<1>2. b \in {0, 1}
  BY <1>0, MsbOf
<1>3. quo \in Words /\ left \in Words /\ low \in Words
  <2>1. shifted \in Words
    <3>1. 2 * t.rem + b \in Int
      BY <1>0, <1>2
    <3> HIDE DEF b
    <3> QED  BY <3>1, WordRemainder
  <2> HIDE DEF shifted
  <2>2. (shifted - t.div) % Values \in Words
    BY <1>0, <2>1, WordsOf, WordRemainder
  <2>3. 2 * t.quot + Flag(take) \in Int
    BY <1>0 DEF Flag
  <2> HIDE DEF take
  <2>4. quo \in Words
    BY <2>3, WordRemainder
  <2>5. 2 * t.low \in Int
    BY <1>0
  <2> QED  BY <2>1, <2>2, <2>4, <2>5, WordRemainder
<1> HIDE DEF quo, left, low
<1>4. /\ u \in DivRecord /\ u.status = "running" /\ u.over = t.over /\ u.div = t.div /\ u.hi = t.hi /\ u.lo = t.lo
      /\ u.quot = quo /\ u.rem = left /\ u.low = low /\ u.i = t.i + 1
  BY <1>0, <1>1, <1>3 DEF DivRecord
<1> HIDE DEF u
<1>5. ASSUME t.over = 0 PROVE \E r \in Nat : Dividing(u, r)
  <2> DEFINE p == PowerOf2(W - (t.i + 1))  q == PowerOf2(t.i)
             x == t.quot * t.div + t.rem
             d == t.hi * Values + t.lo
  <2>1. /\ t.i \in Nat /\ W - (t.i + 1) \in Nat /\ (W - (t.i + 1)) + t.i = W - 1
        /\ (W - (t.i + 1)) + 1 = W - t.i
    BY <1>0
  <2>2. p \in Nat \ {0} /\ q \in Nat \ {0} /\ PowerOf2(t.i + 1) = 2 * q /\ PowerOf2((W - (t.i + 1)) + 1) = 2 * p
        /\ TopBit = p * q
    <3>1. PowerOf2((W - (t.i + 1)) + t.i) = p * q
      BY <2>1, PowerOf2Add
    <3> QED  BY <2>1, <3>1, PowerOf2Positive, PowerOf2Of DEF TopBit
  <2>3. PowerOf2(W - t.i) = 2 * p /\ Values = 2 * (p * q) /\ p * q \in Nat
    BY <2>1, <2>2, WordsOf
  <2>4. PICK r \in Nat : Dividing(t, r)
    BY <1>5 DEF DivInv
  <2>5. /\ r < 2 * p /\ t.low = r * q /\ t.quot < q /\ t.rem < t.div /\ d = x * (2 * p) + r
    BY <2>3, <2>4 DEF Dividing
  <2>x. x \in Nat /\ d \in Nat
    <3>1. t.quot * t.div \in Nat /\ t.hi * Values \in Nat
      BY <1>0, WordsOf
    <3> QED  BY <1>0, <3>1
  <2>6. /\ quo < 2 * q /\ left < t.div /\ quo * t.div + left = 2 * x + b
    <3>1. /\ 2 * (p * q) = Values /\ t.quot < q /\ q \in Nat /\ p \in Nat \ {0} /\ t.rem < t.div
          /\ t.quot \in Nat /\ t.rem \in Words /\ t.div \in Words /\ b \in {0, 1}
      BY <1>0, <1>2, <2>2, <2>3, <2>5
    <3> HIDE DEF b, x, p, q
    <3>2. PassRight(t.kit, t.quot, t.rem, t.div, b, q)
      BY <3>1, DivPassNumbers
    <3> QED  BY <3>2, Zenon DEF quo, left, x, PassRight
  <2> HIDE DEF x, d
  <2> DEFINE s == r - b * p
  <2>7. b = IF r >= p THEN 1 ELSE 0
    <3>1. b = IF t.low >= TopBit THEN 1 ELSE 0
      BY <1>0, MsbOf
    <3>2. ASSUME r >= p PROVE t.low >= TopBit
      <4>1. q * p <= q * r /\ q * p = p * q /\ q * r = r * q
        BY <2>2, <3>2, Products
      <4> QED  BY <2>2, <2>5, <4>1
    <3>3. ASSUME r < p PROVE t.low < TopBit
      <4>1. r * q < p * q
        <5>1. 0 < q /\ q \in Nat /\ p \in Nat
          BY <2>2
        <5>2. (r + 1) * q = r * q + q /\ r * q \in Nat
          BY <2>2
        <5>3. q * (r + 1) <= q * p /\ q * (r + 1) = (r + 1) * q /\ q * p = p * q
          BY <3>3, <5>1, Products
        <5> QED  BY <2>3, <5>1, <5>2, <5>3
      <4> QED  BY <2>2, <2>5, <4>1
    <3>4. t.low \in Nat /\ TopBit \in Nat /\ p \in Nat
      BY <1>0, <2>2, WordsOf
    <3> QED  BY <3>1, <3>2, <3>3, <3>4
  <2> HIDE DEF b, p, q
  <2>8. s \in Nat /\ s < p
    <3>1. CASE r >= p
      <4>1. s = r - p
        BY <2>2, <2>7, <3>1
      <4> QED  BY <2>2, <2>5, <3>1, <4>1
    <3>2. CASE ~ (r >= p)
      <4>1. s = r
        BY <2>2, <2>7, <3>2
      <4> QED  BY <2>2, <3>2, <4>1
    <3> QED  BY <3>1, <3>2
  <2>9. low = s * (2 * q)
    <3>1. 2 * t.low = b * Values + s * (2 * q) /\ s * (2 * q) \in Nat /\ s * (2 * q) < Values
      <4>1. r = b * p + s
        BY <1>2, <2>2, <2>8
      <4>2. 2 * ((b * p + s) * q) = b * (2 * (p * q)) + s * (2 * q)
        BY <1>2, <2>2, <2>8
      <4>3. 2 * t.low = 2 * ((b * p + s) * q)
        <5> DEFINE e == b * p + s
        <5> HIDE DEF e, s
        <5>1. r = e /\ t.low = r * q
          BY <2>5, <4>1 DEF e
        <5>2. 2 * t.low = 2 * (e * q)
          BY <5>1
        <5> QED  BY <5>2 DEF e
      <4> HIDE DEF s
      <4>4. s * (2 * q) \in Nat /\ s * (2 * q) < p * (2 * q)
        <5>1. 2 * q \in Nat /\ 2 * q > 0 /\ p \in Nat
          BY <2>2
        <5>2. (2 * q) * (s + 1) <= (2 * q) * p /\ (2 * q) * (s + 1) = s * (2 * q) + 2 * q
              /\ (2 * q) * p = p * (2 * q) /\ s * (2 * q) \in Nat /\ p * (2 * q) \in Nat
          <6>1. s + 1 <= p /\ s + 1 \in Nat
            BY <2>8, <5>1
          <6> QED  BY <2>2, <2>8, <5>1, <6>1, Products
        <5> QED  BY <5>1, <5>2
      <4>5. p * (2 * q) = 2 * (p * q)
        BY <2>2
      <4> QED  BY <2>3, <4>2, <4>3, <4>4, <4>5
    <3> DEFINE n == 2 * t.low  m == s * (2 * q)  v == Values
    <3>2. n \in Int /\ m \in Nat /\ v \in Nat \ {0} /\ b \in Int /\ m < v /\ n = b * v + m
      BY <1>0, <1>2, <3>1, WordsOf
    <3>3. low = n % v
      BY DEF low
    <3> HIDE DEF n, m, v, low
    <3>4. n % v = m
      BY <3>2, IntegerRemainder
    <3> QED  BY <3>3, <3>4 DEF m
  <2>10. d = (quo * t.div + left) * p + s
    <3>1. r = b * p + s
      BY <1>2, <2>2, <2>8
    <3> HIDE DEF s
    <3>2. x * (2 * p) + b * p = (2 * x + b) * p
      BY <1>2, <2>2, <2>x
    <3>3. d = x * (2 * p) + (b * p + s)
      BY <2>5, <3>1
    <3>4. x * (2 * p) \in Nat /\ b * p \in Nat
      BY <1>2, <2>2, <2>x
    <3>5. d = (2 * x + b) * p + s
      BY <2>8, <3>2, <3>3, <3>4
    <3> QED  BY <2>6, <3>5
  <2>11. W - u.i = W - (t.i + 1)
    BY <1>4
  <2>12. Dividing(u, s)
    <3> HIDE DEF s
    <3>1. s < PowerOf2(W - u.i)
      BY <2>8, <2>11 DEF p
    <3>2. u.low = s * PowerOf2(u.i)
      BY <1>4, <2>2, <2>9 DEF q
    <3>3. u.quot < PowerOf2(u.i) /\ u.rem < u.div
      BY <1>4, <2>2, <2>6 DEF q
    <3>4. u.hi * Values + u.lo = (u.quot * u.div + u.rem) * PowerOf2(W - u.i) + s
      BY <1>4, <2>10, <2>11 DEF d, p
    <3> QED  BY <2>8, <3>1, <3>2, <3>3, <3>4 DEF Dividing
  <2> QED  BY <2>8, <2>12
<1>6. u.over = 1 <=> NoQuotient(u)
  BY <1>4 DEF DivInv, NoQuotient
<1>7. u.over \in {0, 1}
  BY <1>4 DEF DivRecord
<1> QED  BY <1>4, <1>5, <1>6, <1>7 DEF DivInv, u

\* The quotient at the end is that of the whole dividend.
LEMMA DivideEndsOf ==
  ASSUME NEW t, DivInv(t), t.status = "running", t.i = W,
         NEW u, u = [t EXCEPT !.status = "ok", !.quot = IF t.over = 1 THEN MaxWord ELSE t.quot,
                              !.rem = IF t.over = 1 THEN 0 ELSE t.rem]
  PROVE  DivInv(u)
<1>1. /\ t \in DivRecord /\ t.quot \in Words /\ t.rem \in Words /\ t.over \in {0, 1}
      /\ t.quot \in Nat /\ t.rem \in Nat /\ t.div \in Nat /\ W \in Nat
  BY WordsOf DEF DivInv, DivRecord
<1>2. /\ u \in DivRecord /\ u.status = "ok" /\ u.over = t.over /\ u.div = t.div /\ u.hi = t.hi /\ u.lo = t.lo
      /\ u.quot = (IF t.over = 1 THEN MaxWord ELSE t.quot) /\ u.rem = (IF t.over = 1 THEN 0 ELSE t.rem)
  BY <1>1, MaxWordOf DEF DivRecord
<1>3. ASSUME t.over = 0 PROVE Divided(u)
  <2>1. PICK r \in Nat : Dividing(t, r)
    BY <1>3 DEF DivInv
  <2>2. W - t.i = 0 /\ PowerOf2(0) = 1
    BY <1>1, PowersSmall
  <2>3. r < 1 /\ t.rem < t.div /\ t.hi * Values + t.lo = (t.quot * t.div + t.rem) * 1 + r
    BY <2>1, <2>2 DEF Dividing
  <2> DEFINE x == t.quot * t.div + t.rem
  <2>4. x \in Nat
    <3>1. t.quot * t.div \in Nat
      BY <1>1
    <3> QED  BY <1>1, <3>1
  <2> HIDE DEF x
  <2>5. t.hi * Values + t.lo = x
    <3>1. t.hi * Values + t.lo = x * 1 + r
      BY <2>3 DEF x
    <3> QED  BY <2>3, <2>4, <3>1
  <2> QED  BY <1>2, <1>3, <2>3, <2>5 DEF Divided, x
<1>4. u.over = 1 <=> NoQuotient(u)
  BY <1>2 DEF DivInv, NoQuotient
<1> QED  BY <1>1, <1>2, <1>3, <1>4 DEF DivInv

\* What the property says of a wide division.
LEMMA DivInvSound ==
  ASSUME DivInv(task), task.op = "div"
  PROVE  QuotientExact
<1> DEFINE dividend == task.hi * Values + task.lo
<1>1. /\ task \in DivRecord /\ task.over \in {0, 1} /\ task.i \in 0 .. W /\ W \in Nat
      /\ task.quot \in Nat /\ task.rem \in Nat /\ task.div \in Nat /\ task.hi \in Nat /\ task.lo \in Nat
  BY WordsOf DEF DivInv, DivRecord
<1>2. Running <=> task.status = "running"
  BY DEF Running
<1>3. Ended => task.status # "running"
  BY DEF Ended, Stopped
<1>4. CASE NoQuotient(task)
  BY <1>3, <1>4 DEF QuotientExact, NoQuotient, DivInv
<1>5. CASE ~ NoQuotient(task)
  <2>1. task.over = 0
    BY <1>1, <1>5 DEF DivInv
  <2>2. ASSUME Running
        PROVE  task.rem < task.div /\ task.quot * task.div + task.rem = dividend \div PowerOf2(W - task.i)
    <3>1. PICK r \in Nat : Dividing(task, r)
      BY <1>2, <2>1, <2>2 DEF DivInv
    <3> DEFINE w == PowerOf2(W - task.i)  x == task.quot * task.div + task.rem
    <3>2. r < w /\ dividend = x * w + r /\ task.rem < task.div
      BY <3>1 DEF Dividing
    <3>3. w \in Nat \ {0} /\ x \in Nat /\ dividend \in Nat
      <4>1. W - task.i \in Nat
        BY <1>1
      <4>2. task.quot * task.div \in Nat /\ task.hi * Values \in Nat
        BY <1>1, WordsOf
      <4> QED  BY <1>1, <4>1, <4>2, PowerOf2Positive
    <3> HIDE DEF w, x, dividend
    <3>4. x * w <= dividend /\ dividend < x * w + w
      <4>1. x * w \in Nat
        BY <3>3
      <4> QED  BY <3>2, <3>3, <4>1
    <3>5. dividend \div w = x
      BY <3>3, <3>4, DivisionUnique
    <3> QED  BY <3>2, <3>5 DEF w, x
  <2>3. ASSUME Ended PROVE task.rem < task.div /\ task.quot * task.div + task.rem = dividend
    BY <1>3, <2>1, <2>3 DEF DivInv, Divided
  <2> QED  BY <1>5, <2>1, <2>2, <2>3, Zenon DEF QuotientExact, NoQuotient
<1> QED  BY <1>4, <1>5

-----------------------------------------------------------------------------
(* Words: the inverse modulo a power of two *)

\* r is an inverse of x modulo m.
Inverts(x, r, m) == \E e \in Int : x * r = 1 + e * m

\* The step of the induction: an inverse modulo w is one modulo 2 w, or it is with w added.
LEMMA InverseLifted ==
  ASSUME NEW x \in Nat, NEW h \in Nat, x = 2 * h + 1, NEW w \in Nat, NEW r \in Nat, Inverts(x, r, w)
  PROVE  \E s \in Nat : Inverts(x, s, 2 * w)
<1>1. PICK e \in Int : x * r = 1 + e * w
  BY DEF Inverts
<1>2. PICK d \in Int : e = 2 * d \/ e = 2 * d + 1
  <2>1. e = 2 * (e \div 2) \/ e = 2 * (e \div 2) + 1
    OBVIOUS
  <2>2. e \div 2 \in Int
    OBVIOUS
  <2> QED  BY <2>1, <2>2
<1>3. CASE e = 2 * d
  <2>1. (2 * d) * w = d * (2 * w)
    BY <1>2
  <2>2. x * r = 1 + d * (2 * w)
    BY <1>1, <1>3, <2>1
  <2> QED  BY <2>2 DEF Inverts
<1>4. CASE e = 2 * d + 1
  <2>1. x * (r + w) = x * r + x * w
    OBVIOUS
  <2>2. x * w = (2 * h + 1) * w
    OBVIOUS
  <2>3. (2 * d + 1) * w + (2 * h + 1) * w = (d + h + 1) * (2 * w)
    BY <1>2
  <2>4. x * r = 1 + (2 * d + 1) * w
    BY <1>1, <1>4
  <2> DEFINE p == x * r  q == x * w  u == (2 * d + 1) * w  v == (2 * h + 1) * w  z == (d + h + 1) * (2 * w)
  <2>5. p \in Int /\ q \in Int /\ u \in Int /\ v \in Int /\ z \in Int
    BY <1>2
  <2>6. p = 1 + u /\ q = v /\ u + v = z /\ x * (r + w) = p + q
    BY <2>1, <2>2, <2>3, <2>4
  <2> HIDE DEF p, q, u, v, z
  <2>7. x * (r + w) = 1 + z
    BY <2>5, <2>6
  <2>8. r + w \in Nat /\ d + h + 1 \in Int /\ x * (r + w) = 1 + (d + h + 1) * (2 * w)
    BY <1>2, <2>7 DEF z
  <2> DEFINE s == r + w  f == d + h + 1
  <2>9. s \in Nat /\ f \in Int /\ x * s = 1 + f * (2 * w)
    BY <2>8
  <2> HIDE DEF s, f
  <2> QED  BY <2>9 DEF Inverts
<1> QED  BY <1>2, <1>3, <1>4

\* An odd number has an inverse modulo every power of two.
LEMMA OddInverts ==
  ASSUME NEW x \in Nat, x % 2 = 1, NEW k \in Nat
  PROVE  \E r \in Nat : Inverts(x, r, PowerOf2(k))
<1> DEFINE Q == {n \in Nat : \E r \in Nat : Inverts(x, r, PowerOf2(n))}
<1>1. PICK h \in Nat : x = 2 * h + 1
  <2>1. x = 2 * (x \div 2) + 1 /\ x \div 2 \in Nat
    OBVIOUS
  <2> QED  BY <2>1
<1>2. 0 \in Q
  <2>1. x * 1 = 1 + (x - 1) * 1 /\ x - 1 \in Int /\ PowerOf2(0) = 1
    BY PowersSmall
  <2>2. Inverts(x, 1, PowerOf2(0))
    BY <2>1 DEF Inverts
  <2> QED  BY <2>2
<1>3. ASSUME NEW i \in 1 .. k, i - 1 \in Q PROVE i \in Q
  <2>1. i - 1 \in Nat /\ (i - 1) + 1 = i /\ i \in Nat
    OBVIOUS
  <2>2. PICK r \in Nat : Inverts(x, r, PowerOf2(i - 1))
    BY <1>3
  <2>3. PowerOf2(i - 1) \in Nat /\ PowerOf2((i - 1) + 1) = 2 * PowerOf2(i - 1)
    BY <2>1, PowerOf2Of
  <2>4. \E s \in Nat : Inverts(x, s, 2 * PowerOf2(i - 1))
    BY <1>1, <2>2, <2>3, InverseLifted
  <2> QED  BY <2>1, <2>3, <2>4
<1> HIDE DEF Q
<1>4. \A i \in 0 .. k : i \in Q
  BY <1>2, <1>3, SetInduction
<1>5. k \in Q
  BY <1>4
<1> QED  BY <1>5 DEF Q

\* An inverse is one whose product leaves 1.
LEMMA InvertsRemainder ==
  ASSUME NEW x \in Nat, NEW r \in Nat, NEW m \in Nat, m >= 2
  PROVE  Inverts(x, r, m) <=> (x * r) % m = 1 % m
<1> DEFINE n == x * r
<1>0. n \in Nat /\ 1 % m = 1
  <2>1. 1 = 0 * m + 1 /\ 1 < m /\ m \in Nat \ {0}
    OBVIOUS
  <2>2. 1 % m = 1
    BY <2>1, IntegerRemainder
  <2> QED  BY <2>2
<1>n. x * r = n
  OBVIOUS
<1> HIDE DEF n
<1>1. ASSUME NEW e \in Int, n = 1 + e * m PROVE n % m = 1
  <2>1. n = e * m + 1 /\ m \in Nat \ {0} /\ 1 < m
    <3>1. e * m \in Int
      OBVIOUS
    <3> QED  BY <1>0, <1>1, <3>1
  <2>2. n \in Int /\ 1 \in Nat
    BY <1>0
  <2> QED  BY <2>1, <2>2, IntegerRemainder, Zenon
<1>2. ASSUME n % m = 1 PROVE \E e \in Int : n = 1 + e * m
  <2>1. n = (n \div m) * m + 1 /\ n \div m \in Int
    BY <1>0, <1>2
  <2> DEFINE q == n \div m
  <2>2. q * m \in Int /\ q \in Int /\ n = q * m + 1
    BY <2>1
  <2> HIDE DEF q
  <2>3. n = 1 + q * m
    BY <2>2
  <2> QED  BY <2>2, <2>3
<1>3. Inverts(x, r, m) <=> \E e \in Int : n = 1 + e * m
  BY <1>n DEF Inverts
<1> QED  BY <1>0, <1>1, <1>2, <1>3, <1>n

\* What stands in the table for an odd word.
LEMMA TableInverts ==
  ASSUME NEW x \in Nat, x % 2 = 1, NEW m \in Nat, m >= 2, NEW s \in Nat, Inverts(x, s, m)
  PROVE  \E r \in 0 .. m - 1 : (r * x) % m = 1 % m
<1>1. PICK e \in Int : x * s = 1 + e * m
  BY DEF Inverts
<1> DEFINE q == s \div m  r == s % m
<1>2. q \in Nat /\ r \in 0 .. m - 1 /\ r \in Nat /\ s = q * m + r
  OBVIOUS
<1> HIDE DEF q, r
<1>3. x * s = x * (q * m) + x * r
  BY <1>2
<1>4. x * (q * m) = (x * q) * m
  BY <1>2
<1>5. x * r = 1 + (e - x * q) * m
  <2> DEFINE f == x * q  u == f * m  v == e * m
  <2>1. f \in Int
    BY <1>2
  <2>u. u = (x * q) * m
    OBVIOUS
  <2>v. v = e * m
    OBVIOUS
  <2>w. f = x * q
    OBVIOUS
  <2>f. u = f * m
    OBVIOUS
  <2> HIDE DEF f
  <2>2. u \in Int /\ v \in Int /\ (e - f) * m = v - u
    BY <2>1
  <2> HIDE DEF u, v
  <2>3. x * r \in Int
    BY <1>2
  <2>4. 1 + v = u + x * r
    BY <1>1, <1>3, <1>4, <2>u, <2>v
  <2>5. x * r = 1 + (e - f) * m
    BY <2>2, <2>3, <2>4
  <2> QED  BY <2>5, <2>w
<1>6. Inverts(x, r, m)
  <2>1. e - x * q \in Int
    BY <1>2
  <2> QED  BY <1>5, <2>1 DEF Inverts
<1>7. (x * r) % m = 1 % m
  BY <1>2, <1>6, InvertsRemainder
<1>8. r * x = x * r
  BY <1>2
<1> QED  BY <1>2, <1>7, <1>8

\* One step squares the modulus, as far as the word goes.
LEMMA StepInverts ==
  ASSUME NEW x \in Nat, NEW r \in Nat, NEW m \in Nat, m >= 1, NEW w \in Nat, w >= 1, Inverts(x, r, m),
         NEW s \in Nat, s = (r * (2 - x * r)) % (w * (m * m))
  PROVE  Inverts(x, s, m * m)
<1>1. PICK e \in Int : x * r = 1 + e * m
  BY DEF Inverts
<1> DEFINE d == m * m  n == w * d  g == r * (2 - x * r)
<1>2. d \in Nat \ {0} /\ n \in Nat \ {0} /\ g \in Int
  <2>1. m * m \in Nat /\ m * m # 0
    <3>1. 1 * m <= m * m
      <4>1. m * 1 <= m * m
        BY Products
      <4> QED  BY <4>1
    <3> QED  BY <3>1
  <2>2. d \in Nat \ {0}
    BY <2>1
  <2> HIDE DEF d
  <2>3. w * d \in Nat /\ d * 1 <= d * w /\ d * w = w * d
    BY <2>2, Products
  <2>4. x * r \in Int
    OBVIOUS
  <2> QED  BY <2>2, <2>3, <2>4
<1>3. s = g % n
  OBVIOUS
<1> HIDE DEF n, g
<1>4. PICK q \in Int : g = q * n + s
  <2>1. g = n * (g \div n) + (g % n) /\ g \div n \in Int
    BY <1>2
  <2> DEFINE z == g \div n
  <2>2. z \in Int /\ g = n * z + s
    BY <1>3, <2>1
  <2> HIDE DEF z
  <2>3. n * z = z * n
    BY <1>2, <2>2
  <2> QED  BY <2>2, <2>3
<1>5. x * g = 1 - (e * e) * d
  <2> DEFINE p == x * r  u == e * m
  <2>1. x * g = p * (2 - p)
    BY DEF g
  <2>2. p \in Int /\ u \in Int /\ p = 1 + u
    BY <1>1
  <2>3. u * u = (e * e) * d
    OBVIOUS
  <2> HIDE DEF p, u, d
  <2>4. p * (2 - p) = (1 + u) * (1 - u)
    <3>1. 2 - p = 1 - u
      BY <2>2
    <3> QED  BY <2>2, <3>1
  <2>5. (1 + u) * (1 - u) = 1 - u * u
    BY <2>2
  <2> QED  BY <2>1, <2>3, <2>4, <2>5
<1>6. x * s = x * g - (x * (q * w)) * d
  <2>1. x * g = x * (q * n) + x * s
    BY <1>2, <1>4
  <2>2. x * (q * n) = (x * (q * w)) * d
    BY <1>2, <1>4 DEF n
  <2>3. x * (q * n) \in Int /\ x * s \in Int /\ x * g \in Int
    BY <1>2, <1>4
  <2> QED  BY <2>1, <2>2, <2>3
<1> DEFINE a == e * e  b == x * (q * w)
<1>7. a \in Int /\ b \in Int
  <2>1. q * w \in Int
    BY <1>4
  <2> QED  BY <2>1
<1>8. x * s = (1 - a * d) - b * d
  BY <1>5, <1>6
<1> HIDE DEF a, b, d
<1>9. x * s = 1 + (-(a + b)) * d /\ -(a + b) \in Int
  BY <1>2, <1>7, <1>8
<1> QED  BY <1>9 DEF Inverts, d

\* The words that are inverted, and the bits of the table's entries.
InverseWords == 0 .. PowerOf2(InverseBits) - 1
TableBits    == InverseBits \div 8
RightBits(i) == TableBits * PowerOf2(i)

\* An inversion, under way or ended: the bits that are right double in every step.
InverseInv(t) ==
  /\ t \in [op : {"inverse"}, status : {"running", "ok"}, x : InverseWords, i : 0 .. 3, res : InverseWords]
  /\ t.status = "running" => t.i < 3
  /\ t.x % 2 = 1 => Inverts(t.x, t.res, PowerOf2(RightBits(t.i)))

LEMMA InverseBitsOf ==
  /\ TableBits \in Nat \ {0} /\ InverseBits = 8 * TableBits /\ InverseBits \in Nat
  /\ RightBits(0) = TableBits /\ RightBits(1) = 2 * TableBits /\ RightBits(2) = 4 * TableBits
  /\ RightBits(3) = 8 * TableBits
  /\ \A i \in 0 .. 3 : RightBits(i) \in Nat \ {0} /\ PowerOf2(RightBits(i)) \in Nat /\ PowerOf2(RightBits(i)) >= 2
<1>1. TableBits \in Nat \ {0} /\ InverseBits = 8 * TableBits /\ InverseBits \in Nat
  BY WordAssumption DEF TableBits
<1> HIDE DEF TableBits
<1>2. /\ RightBits(0) = TableBits /\ RightBits(1) = 2 * TableBits /\ RightBits(2) = 4 * TableBits
      /\ RightBits(3) = 8 * TableBits
  BY <1>1, PowersSmall DEF RightBits
<1>3. ASSUME NEW i \in 0 .. 3
      PROVE  RightBits(i) \in Nat \ {0} /\ PowerOf2(RightBits(i)) \in Nat /\ PowerOf2(RightBits(i)) >= 2
  <2>1. RightBits(i) \in Nat \ {0}
    <3>1. i = 0 \/ i = 1 \/ i = 2 \/ i = 3
      OBVIOUS
    <3> QED  BY <1>1, <1>2, <3>1
  <2>2. PICK k \in Nat : RightBits(i) = k + 1
    <3>1. RightBits(i) - 1 \in Nat /\ RightBits(i) = (RightBits(i) - 1) + 1
      BY <2>1
    <3> QED  BY <3>1
  <2>3. PowerOf2(k) \in Nat \ {0} /\ PowerOf2(k + 1) = 2 * PowerOf2(k)
    BY PowerOf2Positive, PowerOf2Of
  <2> QED  BY <2>1, <2>2, <2>3
<1> QED  BY <1>1, <1>2, <1>3

\* The words of the table are words.
LEMMA TableFits ==
  /\ PowerOf2(InverseBits) \in Nat \ {0} /\ PowerOf2(TableBits) \in Nat \ {0}
  /\ PowerOf2(TableBits) <= PowerOf2(InverseBits)
<1>1. 7 * TableBits \in Nat /\ TableBits \in Nat /\ TableBits + 7 * TableBits = InverseBits /\ InverseBits \in Nat
  BY InverseBitsOf
<1> DEFINE a == PowerOf2(TableBits)  b == PowerOf2(7 * TableBits)
<1>2. a \in Nat \ {0} /\ b \in Nat \ {0} /\ PowerOf2(TableBits + 7 * TableBits) = a * b
  BY <1>1, PowerOf2Positive, PowerOf2Add
<1> HIDE DEF a, b
<1>3. PowerOf2(InverseBits) = a * b
  BY <1>1, <1>2
<1>4. a * 1 <= a * b
  BY <1>2, Products
<1>5. PowerOf2(InverseBits) \in Nat \ {0}
  BY <1>1, PowerOf2Positive
<1> QED  BY <1>2, <1>3, <1>4, <1>5 DEF a

LEMMA CallInverseOf ==
  ASSUME CallInverse
  PROVE  InverseInv(task')
<1> DEFINE m == PowerOf2(TableBits)
           c(x) == CHOOSE r \in 0 .. m - 1 : (r * x) % m = 1 % m
<1>1. PICK x \in InverseWords :
        task' = IF x % 2 = 0 THEN [op |-> "inverse", status |-> "ok", x |-> x, i |-> 3, res |-> 0]
                ELSE [op |-> "inverse", status |-> "running", x |-> x, i |-> 0, res |-> c(x)]
  <2>1. PICK x \in 0 .. PowerOf2(InverseBits) - 1 :
          IF x % 2 = 0 THEN Enter([op |-> "inverse", status |-> "ok", x |-> x, i |-> 3, res |-> 0])
          ELSE Enter([op |-> "inverse", status |-> "running", x |-> x, i |-> 0, res |-> c(x)])
    BY Zenon DEF CallInverse, TableBits
  <2> HIDE DEF c
  <2>2. x \in InverseWords
    BY <2>1 DEF InverseWords
  <2>3. CASE x % 2 = 0
    BY <2>1, <2>2, <2>3 DEF Enter
  <2>4. CASE ~ (x % 2 = 0)
    BY <2>1, <2>2, <2>4 DEF Enter
  <2> QED  BY <2>3, <2>4
<1> HIDE DEF c
<1>2. x \in Nat /\ 0 \in InverseWords /\ 0 \in 0 .. 3 /\ 3 \in 0 .. 3
  BY TableFits DEF InverseWords
<1>3. CASE x % 2 = 0
  <2>1. task' = [op |-> "inverse", status |-> "ok", x |-> x, i |-> 3, res |-> 0]
    BY <1>1, <1>3
  <2>2. task'.x % 2 = 0 /\ task'.status = "ok"
    BY <1>3, <2>1
  <2> QED  BY <1>2, <2>1, <2>2 DEF InverseInv
<1>4. CASE ~ (x % 2 = 0)
  <2>1. task' = [op |-> "inverse", status |-> "running", x |-> x, i |-> 0, res |-> c(x)]
    BY <1>1, <1>4
  <2>2. x % 2 = 1
    BY <1>2, <1>4
  <2>3. m \in Nat /\ m >= 2 /\ RightBits(0) = TableBits
    <3>1. 0 \in 0 .. 3
      OBVIOUS
    <3> QED  BY <3>1, InverseBitsOf
  <2>4. c(x) \in 0 .. m - 1 /\ (c(x) * x) % m = 1 % m
    <3>1. TableBits \in Nat
      BY InverseBitsOf
    <3>2. PICK s \in Nat : Inverts(x, s, m)
      BY <1>2, <2>2, <3>1, OddInverts
    <3> HIDE DEF m
    <3>3. \E r \in 0 .. m - 1 : (r * x) % m = 1 % m
      BY <1>2, <2>2, <2>3, <3>2, TableInverts
    <3> QED  BY <3>3, Zenon DEF c
  <2>5. c(x) \in InverseWords /\ c(x) \in Nat
    <3>1. m <= PowerOf2(InverseBits) /\ PowerOf2(InverseBits) \in Nat
      BY TableFits
    <3> QED  BY <2>3, <2>4, <3>1 DEF InverseWords
  <2>6. Inverts(x, c(x), m)
    <3> DEFINE r == c(x)
    <3>1. r \in Nat /\ (r * x) % m = 1 % m
      BY <2>4, <2>5
    <3> HIDE DEF r, m
    <3>2. r * x = x * r
      BY <1>2, <3>1
    <3>3. (x * r) % m = 1 % m
      BY <3>1, <3>2
    <3>4. Inverts(x, r, m)
      BY <1>2, <2>3, <3>1, <3>3, InvertsRemainder
    <3> QED  BY <3>4 DEF r
  <2>7. task' \in [op : {"inverse"}, status : {"running", "ok"}, x : InverseWords, i : 0 .. 3, res : InverseWords]
    BY <1>2, <2>1, <2>5
  <2>8. task'.i = 0 /\ task'.x = x /\ task'.res = c(x)
    BY <2>1
  <2> QED  BY <2>3, <2>6, <2>7, <2>8 DEF InverseInv
<1> QED  BY <1>3, <1>4

LEMMA InvertOf ==
  ASSUME NEW t, InverseInv(t), t.status = "running",
         NEW u, u = [t EXCEPT !.res = InverseStep(t.x, t.res), !.i = t.i + 1,
                              !.status = IF t.i + 1 = 3 THEN "ok" ELSE "running"]
  PROVE  InverseInv(u)
<1> DEFINE n == PowerOf2(InverseBits)  s == InverseStep(t.x, t.res)
<1>1. /\ t \in [op : {"inverse"}, status : {"running", "ok"}, x : InverseWords, i : 0 .. 3, res : InverseWords]
      /\ t.i \in 0 .. 3 /\ t.i < 3 /\ t.x \in Nat /\ t.res \in Nat /\ t.i + 1 \in 0 .. 3
  BY DEF InverseInv, InverseWords
<1>2. s \in InverseWords /\ s \in Nat
  <2> DEFINE g == t.res * (2 - t.x * t.res)
  <2>1. g \in Int
    <3>1. t.x * t.res \in Int
      BY <1>1
    <3> QED  BY <1>1, <3>1
  <2>2. n \in Nat \ {0}
    BY TableFits
  <2>3. s = g % n
    BY DEF InverseStep
  <2> HIDE DEF g, n
  <2>4. g % n \in 0 .. n - 1
    BY <2>1, <2>2
  <2> HIDE DEF s
  <2> QED  BY <2>2, <2>3, <2>4 DEF InverseWords, n
<1> HIDE DEF s
<1>3. /\ u \in [op : {"inverse"}, status : {"running", "ok"}, x : InverseWords, i : 0 .. 3, res : InverseWords]
      /\ u.i = t.i + 1 /\ u.x = t.x /\ u.res = s /\ u.status = (IF t.i + 1 = 3 THEN "ok" ELSE "running")
  BY <1>1, <1>2 DEF s
<1>4. ASSUME u.x % 2 = 1 PROVE Inverts(u.x, u.res, PowerOf2(RightBits(u.i)))
  <2> DEFINE k == RightBits(t.i)  m == PowerOf2(k)  w == PowerOf2(InverseBits - 2 * k)
  <2>1. k \in Nat /\ m \in Nat /\ m >= 1 /\ Inverts(t.x, t.res, m)
    BY <1>1, <1>3, <1>4, InverseBitsOf DEF InverseInv
  <2>2. RightBits(t.i + 1) = 2 * k /\ InverseBits - 2 * k \in Nat
    <3>1. t.i = 0 \/ t.i = 1 \/ t.i = 2
      BY <1>1
    <3>2. RightBits(0 + 1) = RightBits(1) /\ RightBits(1 + 1) = RightBits(2) /\ RightBits(2 + 1) = RightBits(3)
      OBVIOUS
    <3> QED  BY <3>1, <3>2, InverseBitsOf
  <2> HIDE DEF k
  <2>3. PowerOf2(2 * k) = m * m
    <3>1. PowerOf2(k + k) = m * m /\ 2 * k = k + k
      BY <2>1, PowerOf2Add
    <3> QED  BY <3>1
  <2>4. w \in Nat /\ w >= 1 /\ n = w * (m * m)
    <3>1. (InverseBits - 2 * k) + 2 * k = InverseBits /\ 2 * k \in Nat
      BY <2>1, InverseBitsOf
    <3>2. w \in Nat \ {0}
      BY <2>2, PowerOf2Positive
    <3>3. PowerOf2((InverseBits - 2 * k) + 2 * k) = w * PowerOf2(2 * k)
      BY <2>2, <3>1, PowerOf2Add
    <3>4. n = w * PowerOf2(2 * k)
      BY <3>1, <3>3
    <3> HIDE DEF w, n
    <3>5. w \in Nat /\ w >= 1
      BY <3>2
    <3> QED  BY <2>3, <3>4, <3>5
  <2>5. s = (t.res * (2 - t.x * t.res)) % n
    BY DEF s, InverseStep
  <2> HIDE DEF n, m, w
  <2>6. Inverts(t.x, s, m * m)
    BY <1>1, <1>2, <2>1, <2>4, <2>5, StepInverts
  <2> QED  BY <1>3, <2>2, <2>3, <2>6
<1> QED  BY <1>1, <1>3, <1>4 DEF InverseInv

LEMMA InverseInvSound ==
  ASSUME InverseInv(task), task.op = "inverse"
  PROVE  InverseExact /\ task.res \in InverseWords
<1>1. /\ task.x \in Nat /\ task.res \in Nat /\ task.res \in InverseWords /\ task.i \in 0 .. 3
      /\ task.x % 2 = 1 => Inverts(task.x, task.res, PowerOf2(RightBits(task.i)))
  BY DEF InverseInv, InverseWords
<1>2. ASSUME task.x % 2 = 1
      PROVE  LET m == PowerOf2((InverseBits \div 8) * PowerOf2(task.i)) IN (task.x * task.res) % m = 1 % m
  <2> DEFINE m == PowerOf2(RightBits(task.i))
  <2>1. m \in Nat /\ m >= 2 /\ Inverts(task.x, task.res, m)
    BY <1>1, <1>2, InverseBitsOf
  <2> HIDE DEF m
  <2>2. (task.x * task.res) % m = 1 % m
    BY <1>1, <2>1, InvertsRemainder
  <2> QED  BY <2>2, Zenon DEF m, RightBits, TableBits
<1> QED  BY <1>1, <1>2, Zenon DEF InverseExact

-----------------------------------------------------------------------------
(* Words: the modular product *)

\* The reversal of one bit more: the bit goes in below the others.
LEMMA ReversedOf ==
  ASSUME NEW x \in Nat
  PROVE  /\ Reversed(x, 0) = 0
         /\ \A i \in Nat : /\ Reversed(x, i) \in Nat
                           /\ Reversed(x, i + 1) = Bit(x, i) + 2 * Reversed(x, i)
<1> DEFINE f(i) == [k \in 0 .. i - 1 |-> Bit(x, i - 1 - k)]
<1>1. ASSUME NEW i \in Nat PROVE AreBits(f(i), i)
  <2>1. ASSUME NEW k \in 0 .. i - 1 PROVE f(i)[k] \in {0, 1}
    <3>1. i - 1 - k \in Nat /\ f(i)[k] = Bit(x, i - 1 - k)
      OBVIOUS
    <3> QED  BY <3>1, BitIn
  <2> QED  BY <2>1 DEF AreBits
<1>2. ASSUME NEW i \in Nat PROVE Reversed(x, i) = FromBits(f(i), i)
  BY DEF Reversed
<1>3. ASSUME NEW i \in Nat
      PROVE  Reversed(x, i) \in Nat /\ Reversed(x, i + 1) = Bit(x, i) + 2 * Reversed(x, i)
  <2> DEFINE b == f(i + 1)  c == f(i)
  <2>1. AreBits(b, 1 + i)
    <3>1. i + 1 \in Nat /\ i + 1 = 1 + i
      OBVIOUS
    <3>2. AreBits(f(i + 1), i + 1)
      BY <1>1, <3>1
    <3> QED  BY <3>1, <3>2
  <2>2. \A k \in 0 .. i - 1 : c[k] = b[1 + k]
    <3>1. ASSUME NEW k \in 0 .. i - 1 PROVE c[k] = b[1 + k]
      <4>1. 1 + k \in 0 .. (i + 1) - 1 /\ (i + 1) - 1 - (1 + k) = i - 1 - k
        OBVIOUS
      <4> QED  BY <4>1
    <3> QED  BY <3>1
  <2>3. b[0] = Bit(x, i)
    <3>1. 0 \in 0 .. (i + 1) - 1 /\ (i + 1) - 1 - 0 = i
      OBVIOUS
    <3>2. b[0] = Bit(x, (i + 1) - 1 - 0)
      BY <3>1
    <3> QED  BY <3>1, <3>2
  <2>4. b[0] \in {0, 1}
    BY <2>3, BitIn
  <2>5. Reversed(x, i + 1) = FromBits(b, 1 + i) /\ Reversed(x, i) = FromBits(c, i)
    <3>1. i + 1 \in Nat /\ i + 1 = 1 + i
      OBVIOUS
    <3>2. Reversed(x, i + 1) = FromBits(f(i + 1), i + 1)
      BY <1>2, <3>1
    <3> QED  BY <1>2, <3>1, <3>2
  <2> HIDE DEF b, c, f
  <2>6. FromBits(c, i) \in Nat /\ FromBits(b, 1 + i) = FromBits(b, 1) + PowerOf2(1) * FromBits(c, i)
    BY <2>1, <2>2, FromBitsSplit
  <2>7. FromBits(b, 1) = b[0]
    <3>1. \A j \in 0 .. 0 : b[j] \in Nat
      BY <2>4
    <3>2. FromBits(b, 0) = 0 /\ FromBits(b, 0 + 1) = FromBits(b, 0) + b[0] * PowerOf2(0)
      BY <3>1, FromBitsOf
    <3>3. 0 + 1 = 1 /\ PowerOf2(0) = 1
      BY PowersSmall
    <3> QED  BY <2>4, <3>2, <3>3
  <2> QED  BY <2>3, <2>5, <2>6, <2>7, PowersSmall
<1>4. Reversed(x, 0) = 0
  BY <1>2, FromBitsNone
<1> QED  BY <1>3, <1>4

\* Doubling a remainder and taking in a bit.
LEMMA DoubledModOf ==
  ASSUME NEW m \in Nat \ {0}, NEW n \in Nat, NEW r, r = n % m, NEW b \in {0, 1}, NEW d, d = DoubledMod(r, m) + b
  PROVE  /\ (IF d >= m THEN d - m ELSE d) = (2 * n + b) % m
         /\ (IF d >= m THEN d - m ELSE d) \in Nat /\ (IF d >= m THEN d - m ELSE d) < m
<1>1. r \in Nat /\ r < m /\ n = (n \div m) * m + r /\ n \div m \in Nat
  OBVIOUS
<1> DEFINE q == n \div m  e == IF d >= m THEN d - m ELSE d
<1>2. q \in Nat /\ n = q * m + r
  BY <1>1
<1> HIDE DEF q
<1>3. d = IF r >= m - r THEN (2 * r - m) + b ELSE 2 * r + b
  BY <1>1 DEF DoubledMod
<1>4. PICK c \in Nat : e \in Nat /\ e < m /\ 2 * r + b = c * m + e
  <2>1. CASE 2 * r + b < m
    <3>1. e = 2 * r + b /\ 0 * m = 0
      BY <1>1, <1>3, <2>1
    <3> HIDE DEF e
    <3>2. e \in Nat /\ e < m /\ 2 * r + b = 0 * m + e
      BY <1>1, <2>1, <3>1
    <3> QED  BY <3>2
  <2>2. CASE ~ (2 * r + b < m)
    <3>1. e = (2 * r + b) - m /\ 1 * m = m
      BY <1>1, <1>3, <2>2
    <3> HIDE DEF e
    <3>2. e \in Nat /\ e < m /\ 2 * r + b = 1 * m + e
      BY <1>1, <2>2, <3>1
    <3> QED  BY <3>2
  <2> QED  BY <2>1, <2>2
<1>e. e = IF d >= m THEN d - m ELSE d
  OBVIOUS
<1> HIDE DEF e
<1>5. 2 * n + b = (2 * q + c) * m + e /\ 2 * q + c \in Nat
  <2>1. (2 * q + c) * m = 2 * (q * m) + c * m
    BY <1>2, <1>4
  <2> DEFINE u == q * m  v == c * m
  <2>2. u \in Nat /\ v \in Nat /\ n = u + r /\ 2 * r + b = v + e
    BY <1>2, <1>4
  <2>3. (2 * q + c) * m = 2 * u + v
    BY <2>1
  <2> HIDE DEF u, v
  <2>4. 2 * n + b = (2 * u + v) + e
    BY <1>1, <1>4, <2>2
  <2> QED  BY <1>2, <1>4, <2>3, <2>4
<1> DEFINE k == 2 * n + b  g == 2 * q + c
<1>6. k \in Nat /\ g \in Nat /\ k = g * m + e
  BY <1>5
<1> HIDE DEF k, g
<1>7. k % m = e
  BY <1>4, <1>6, Remainder
<1> QED  BY <1>4, <1>7, <1>e, Zenon DEF k

\* The value that the loop has taken in after i passes.
TakenIn(t) == t.hi * PowerOf2(t.i) + Reversed(t.low, t.i)

\* The result of a modular product that ended.
ModMulResult(t) ==
  t.res = IF t.kit = "builtin" \/ t.hi = 0 THEN (t.a * t.b) % t.mod
          ELSE (t.hi * Values + Reversed(t.low, W)) % t.mod

ModMulRecord ==
  [op : {"modmul"}, status : {"running", "ok", "crash"}, kit : {"builtin", "portable"},
   a : Words, b : Words, mod : Words, low : Words, hi : Words, i : 0 .. W, res : Words]

ModMulInv(t) ==
  /\ t \in ModMulRecord
  /\ t.mod = 0 <=> t.status = "crash"
  /\ t.mod # 0 => t.res < t.mod
  /\ t.status = "running" => /\ t.i < W /\ t.kit = "portable" /\ t.hi # 0
                             /\ t.res = TakenIn(t) % t.mod
  /\ t.status = "ok" => ModMulResult(t)

LEMMA CallModMulOf ==
  ASSUME CallModMul
  PROVE  ModMulInv(task')
<1>1. PICK kit \in {"builtin", "portable"}, a \in WideWords, b \in WideWords, mod \in WideWords :
        LET wide == WideMul(kit, a, b)
            t    == [op |-> "modmul", status |-> "ok", kit |-> kit, a |-> a, b |-> b, mod |-> mod,
                     low |-> wide.lo, hi |-> wide.hi, i |-> 0, res |-> 0]
        IN  Enter(CASE mod = 0 -> [t EXCEPT !.status = "crash"]
                    [] mod # 0 /\ kit = "builtin" -> [t EXCEPT !.res = (a * b) % mod]
                    [] mod # 0 /\ kit = "portable" /\ wide.hi = 0 -> [t EXCEPT !.res = wide.lo % mod]
                    [] OTHER -> [t EXCEPT !.status = "running", !.res = wide.hi % mod])
  BY Zenon DEF CallModMul
<1> DEFINE wide == WideMul(kit, a, b)  lo == wide.lo  hi == wide.hi
           t == [op |-> "modmul", status |-> "ok", kit |-> kit, a |-> a, b |-> b, mod |-> mod,
                 low |-> lo, hi |-> hi, i |-> 0, res |-> 0]
<1>2. task' = CASE mod = 0 -> [t EXCEPT !.status = "crash"]
                [] mod # 0 /\ kit = "builtin" -> [t EXCEPT !.res = (a * b) % mod]
                [] mod # 0 /\ kit = "portable" /\ hi = 0 -> [t EXCEPT !.res = lo % mod]
                [] OTHER -> [t EXCEPT !.status = "running", !.res = hi % mod]
  BY <1>1 DEF Enter
<1>3. a \in Words /\ b \in Words /\ mod \in Words
  BY WordAssumption DEF Words, Values
<1>4. lo \in Words /\ hi \in Words /\ lo + Values * hi = a * b
  BY <1>3, WideMulOf
<1> HIDE DEF wide, lo, hi
<1>5. /\ a \in Nat /\ b \in Nat /\ mod \in Nat /\ lo \in Nat /\ hi \in Nat /\ Values \in Nat /\ W \in Nat /\ W > 0
      /\ 0 \in 0 .. W /\ 0 \in Words
  BY <1>3, <1>4, WordsOf, MaxWordOf, WordAssumption
<1>6. t \in ModMulRecord
  BY <1>3, <1>4, <1>5 DEF ModMulRecord
<1>7. ASSUME NEW n \in Nat, mod # 0
      PROVE  (n % mod) \in Words /\ (n % mod) \in Nat /\ (n % mod) < mod
  <2>1. (n % mod) \in Nat /\ (n % mod) < mod /\ mod < Values
    BY <1>3, <1>5, <1>7, WordsOf
  <2> QED  BY <1>5, <2>1, WordsOf
<1>8. CASE mod = 0
  <2>1. task' = [t EXCEPT !.status = "crash"]
    BY <1>2, <1>8
  <2>2. task' \in ModMulRecord /\ task'.mod = 0 /\ task'.status = "crash"
    BY <1>6, <1>8, <2>1 DEF ModMulRecord
  <2> QED  BY <2>2 DEF ModMulInv
<1>9. CASE mod # 0 /\ kit = "builtin"
  <2> DEFINE n == a * b  r == n % mod
  <2>1. task' = [t EXCEPT !.res = r]
    BY <1>2, <1>9
  <2>2. n \in Nat
    BY <1>5
  <2>3. r \in Words /\ r \in Nat /\ r < mod
    <3> HIDE DEF n
    <3> QED  BY <1>7, <1>9, <2>2
  <2> HIDE DEF r
  <2>4. /\ task' \in ModMulRecord /\ task'.mod = mod /\ task'.status = "ok" /\ task'.res = r
        /\ task'.kit = "builtin" /\ task'.a = a /\ task'.b = b
    BY <1>6, <1>9, <2>1, <2>3 DEF ModMulRecord
  <2>5. ModMulResult(task')
    BY <2>4 DEF ModMulResult, r
  <2> QED  BY <1>9, <2>3, <2>4, <2>5 DEF ModMulInv
<1>10. CASE mod # 0 /\ kit # "builtin" /\ hi = 0
  <2> DEFINE r == lo % mod
  <2>1. task' = [t EXCEPT !.res = r]
    BY <1>2, <1>10
  <2>2. r \in Words /\ r \in Nat /\ r < mod
    BY <1>5, <1>7, <1>10
  <2>3. a * b = lo
    <3>1. Values * hi = 0
      BY <1>5, <1>10
    <3> QED  BY <1>4, <1>5, <3>1
  <2>4. r = (a * b) % mod
    BY <2>3
  <2> HIDE DEF r
  <2>5. /\ task' \in ModMulRecord /\ task'.mod = mod /\ task'.status = "ok" /\ task'.res = r
        /\ task'.hi = 0 /\ task'.a = a /\ task'.b = b
    BY <1>6, <1>10, <2>1, <2>2 DEF ModMulRecord
  <2>6. ModMulResult(task')
    BY <2>4, <2>5 DEF ModMulResult
  <2> QED  BY <1>10, <2>2, <2>5, <2>6 DEF ModMulInv
<1>11. CASE mod # 0 /\ kit # "builtin" /\ hi # 0
  <2> DEFINE r == hi % mod
  <2>1. task' = [t EXCEPT !.status = "running", !.res = r]
    BY <1>2, <1>11
  <2>2. r \in Words /\ r \in Nat /\ r < mod
    BY <1>5, <1>7, <1>11
  <2>3. hi = hi * PowerOf2(0) + Reversed(lo, 0)
    <3>1. Reversed(lo, 0) = 0 /\ PowerOf2(0) = 1
      BY <1>5, ReversedOf, PowersSmall
    <3> QED  BY <1>5, <3>1
  <2>r. r = hi % mod
    OBVIOUS
  <2> HIDE DEF r
  <2>4. /\ task' \in ModMulRecord /\ task'.mod = mod /\ task'.status = "running" /\ task'.res = r
        /\ task'.hi = hi /\ task'.low = lo /\ task'.i = 0 /\ task'.kit = "portable"
    BY <1>6, <1>11, <2>1, <2>2 DEF ModMulRecord
  <2>5. TakenIn(task') = hi
    BY <2>3, <2>4 DEF TakenIn
  <2> QED  BY <1>5, <1>11, <2>r, <2>2, <2>4, <2>5 DEF ModMulInv
<1> QED  BY <1>8, <1>9, <1>10, <1>11

\* A pass takes in a bit.
LEMMA ModMulOf ==
  ASSUME NEW t, ModMulInv(t), t.status = "running",
         NEW more, more = DoubledMod(t.res, t.mod) + Bit(t.low, t.i),
         NEW u, u = [t EXCEPT !.res = IF more >= t.mod THEN more - t.mod ELSE more,
                              !.i = t.i + 1, !.status = IF t.i + 1 = W THEN "ok" ELSE "running"]
  PROVE  ModMulInv(u)
<1> DEFINE r == IF more >= t.mod THEN more - t.mod ELSE more
           n == TakenIn(t)  b == Bit(t.low, t.i)
           z == t.hi * PowerOf2(t.i + 1) + Reversed(t.low, t.i + 1)
<1>1. /\ t \in ModMulRecord /\ t.i \in 0 .. W /\ t.i \in Nat /\ t.i < W /\ W \in Nat /\ t.i + 1 \in 0 .. W
      /\ t.mod \in Nat \ {0} /\ t.low \in Nat /\ t.hi \in Nat /\ t.mod < Values /\ t.kit = "portable" /\ t.hi # 0
      /\ t.res = n % t.mod
  BY WordsOf DEF ModMulInv, ModMulRecord
<1>2. n \in Nat /\ b \in {0, 1} /\ z \in Nat /\ z = 2 * n + b
  <2> DEFINE p == PowerOf2(t.i)  v == Reversed(t.low, t.i)
  <2>1. p \in Nat /\ PowerOf2(t.i + 1) = 2 * p /\ v \in Nat /\ Reversed(t.low, t.i + 1) = b + 2 * v /\ b \in {0, 1}
    BY <1>1, PowerOf2Of, ReversedOf, BitIn
  <2>2. n = t.hi * p + v /\ z = t.hi * (2 * p) + (b + 2 * v)
    BY <2>1 DEF TakenIn
  <2> HIDE DEF p, v, b, n, z
  <2>3. t.hi * (2 * p) = 2 * (t.hi * p) /\ t.hi * p \in Nat
    BY <1>1, <2>1
  <2> QED  BY <2>1, <2>2, <2>3
<1>z. z = t.hi * PowerOf2(t.i + 1) + Reversed(t.low, t.i + 1)
  OBVIOUS
<1>m. more = DoubledMod(t.res, t.mod) + b
  OBVIOUS
<1>r. r = IF more >= t.mod THEN more - t.mod ELSE more
  OBVIOUS
<1> HIDE DEF n, b, z, r
<1>3. r = z % t.mod /\ r \in Nat /\ r < t.mod
  BY <1>1, <1>2, <1>m, <1>r, DoubledModOf
<1>4. r \in Words
  BY <1>1, <1>3, WordsOf
<1>5. /\ u \in ModMulRecord /\ u.i = t.i + 1 /\ u.hi = t.hi /\ u.low = t.low /\ u.mod = t.mod /\ u.kit = "portable"
      /\ u.res = r /\ u.status = (IF t.i + 1 = W THEN "ok" ELSE "running")
  BY <1>1, <1>4 DEF ModMulRecord, r
<1>6. TakenIn(u) = z
  BY <1>5, <1>z DEF TakenIn
<1>7. CASE t.i + 1 = W
  <2>1. z = t.hi * Values + Reversed(t.low, W)
    BY <1>7, <1>z DEF Values
  <2>2. ModMulResult(u)
    BY <1>1, <1>3, <1>5, <2>1 DEF ModMulResult
  <2>3. u.status = "ok"
    BY <1>5, <1>7
  <2> QED  BY <1>1, <1>3, <1>5, <2>2, <2>3 DEF ModMulInv
<1>8. CASE t.i + 1 # W
  <2>1. u.status = "running" /\ u.i < W
    BY <1>1, <1>5, <1>8
  <2> QED  BY <1>1, <1>3, <1>5, <1>6, <2>1 DEF ModMulInv
<1> QED  BY <1>7, <1>8

LEMMA ModMulInvSound ==
  ASSUME ModMulInv(task), task.op = "modmul"
  PROVE  ModularProduct /\ task.res \in Words /\ task.i \in 0 .. W
<1>1. task.res \in Words /\ task.i \in 0 .. W /\ task.status \in {"running", "ok", "crash"}
  BY DEF ModMulInv, ModMulRecord
<1>2. ASSUME task.mod # 0, Ended PROVE ModMulResult(task)
  BY <1>1, <1>2 DEF Ended, Stopped, ModMulInv
<1> QED  BY <1>1, <1>2 DEF ModularProduct, ModMulInv, ModMulResult

-----------------------------------------------------------------------------
(* Words: what a call of a sum, a difference, a product or a comparison answers *)

PairRight(t) ==
  /\ t.op = "add" => t.value.lo + Values * t.value.hi = t.a + t.b + t.carry
  /\ t.op = "sub" => t.value.lo - Values * t.value.hi = t.a - t.b - t.carry
  /\ t.op = "mul" => t.value.lo + Values * t.value.hi = t.a * t.b

OrderRight(t) ==
  LET x == t.a  y == t.b
  IN  t.order =
        [lt |-> x < y, gt |-> x > y, leq |-> x <= y, geq |-> x >= y,
         lti |-> Signed(x) < Signed(y), gti |-> Signed(x) > Signed(y),
         leqi |-> Signed(x) <= Signed(y), geqi |-> Signed(x) >= Signed(y),
         eq |-> x = y, neq |-> x # y, neg |-> Signed(x) < 0, pos |-> Signed(x) >= 0]

LEMMA CallPairwiseOf ==
  ASSUME CallPairwise
  PROVE  task'.op \in {"add", "sub", "mul"} /\ PairRight(task')
<1>1. PICK op \in {"add", "sub", "mul"}, kit \in Kits, a \in Words, b \in Words, carry \in {0, 1} :
        /\ op = "mul" => carry = 0
        /\ Enter([op |-> op, status |-> "ok", kit |-> kit, a |-> a, b |-> b, carry |-> carry,
                  value |-> Pairwise(op, kit, a, b, carry)])
  BY DEF CallPairwise
<1> DEFINE v == Pairwise(op, kit, a, b, carry)
<1>2. task'.op = op /\ task'.a = a /\ task'.b = b /\ task'.carry = carry /\ task'.value = v
  BY <1>1 DEF Enter
<1>3. CASE op = "add"
  <2>1. v = AddCarry(kit, a, b, carry)
    BY <1>3 DEF Pairwise
  <2>2. v.lo + Values * v.hi = a + b + carry
    BY <2>1, AddCarryOf
  <2> HIDE DEF v
  <2> QED  BY <1>2, <1>3, <2>2, Zenon DEF PairRight
<1>4. CASE op = "sub"
  <2>1. v = SubBorrow(kit, a, b, carry)
    BY <1>4 DEF Pairwise
  <2>2. v.lo - Values * v.hi = a - b - carry
    BY <2>1, SubBorrowOf
  <2> HIDE DEF v
  <2> QED  BY <1>2, <1>4, <2>2, Zenon DEF PairRight
<1>5. CASE op = "mul"
  <2>1. v = WideMul(kit, a, b)
    BY <1>5 DEF Pairwise
  <2>2. v.lo + Values * v.hi = a * b
    BY <2>1, WideMulOf
  <2> HIDE DEF v
  <2> QED  BY <1>2, <1>5, <2>2, Zenon DEF PairRight
<1> QED  BY <1>3, <1>4, <1>5

LEMMA CallCompareOf ==
  ASSUME CallCompare
  PROVE  task'.op = "compare" /\ OrderRight(task')
<1>1. PICK a \in Words, b \in Words :
        Enter([op |-> "compare", status |-> "ok", a |-> a, b |-> b, order |-> Compared(a, b)])
  BY DEF CallCompare
<1>2. task'.op = "compare" /\ task'.a = a /\ task'.b = b /\ task'.order = Compared(a, b)
  BY <1>1 DEF Enter
<1> QED  BY <1>2, ComparedOf, Zenon DEF OrderRight

-----------------------------------------------------------------------------
(* Words: the scans *)

Places == 0 .. 63

\* The first and the last one bit.
Top(x, m) == m \in x /\ \A b \in x : b <= m
Low(x, m) == m \in x /\ \A b \in x : m <= b

LEMMA HasTop ==
  ASSUME NEW x, x \subseteq Places, x # {}
  PROVE  \E m \in Places : Top(x, m) /\ Max(x) = m
<1> DEFINE d == {63 - b : b \in x}
<1>0. \A b \in x : b \in 0 .. 63 /\ b \in Nat /\ 63 - b \in Nat
  BY DEF Places
<1>1. d \subseteq Nat /\ d # {}
  <2>1. d \subseteq Nat
    BY <1>0
  <2>2. PICK b \in x : TRUE
    OBVIOUS
  <2>3. 63 - b \in d
    BY <2>2
  <2> QED  BY <2>1, <2>3
<1>2. PICK k \in d : \A j \in d : k <= j
  BY <1>1, LeastNumber
<1>3. PICK m \in x : k = 63 - m
  BY <1>2
<1>4. ASSUME NEW b \in x PROVE b <= m
  <2>1. 63 - b \in d
    OBVIOUS
  <2>2. b \in Nat /\ m \in Nat /\ 63 - m <= 63 - b
    BY <1>0, <1>2, <1>3, <2>1
  <2> QED  BY <2>2
<1>5. m \in Places /\ Top(x, m)
  BY <1>4 DEF Top
<1>6. Max(x) \in x /\ \A y \in x : Max(x) >= y
  <2>1. \A y \in x : m >= y
    BY <1>4 DEF Places
  <2>2. \E z \in x : \A y \in x : z >= y
    BY <2>1
  <2> QED  BY <2>2 DEF Max
<1>7. Max(x) = m
  <2>1. Max(x) <= m /\ Max(x) >= m /\ Max(x) \in Nat /\ m \in Nat
    <3> HIDE DEF d
    <3> QED  BY <1>0, <1>3, <1>4, <1>6
  <2> QED  BY <2>1
<1> QED  BY <1>5, <1>7

LEMMA HasLow ==
  ASSUME NEW x, x \subseteq Places, x # {}
  PROVE  \E m \in Places : Low(x, m) /\ Min(x) = m
<1>1. x \subseteq Nat
  BY DEF Places
<1>2. PICK m \in x : \A j \in x : m <= j
  BY <1>1, LeastNumber
<1>3. Min(x) \in x /\ \A y \in x : Min(x) =< y
  <2>1. \E z \in x : \A y \in x : z =< y
    BY <1>2
  <2> QED  BY <2>1 DEF Min
<1>4. Min(x) = m
  <2>1. Min(x) <= m /\ m <= Min(x) /\ Min(x) \in Nat /\ m \in Nat
    BY <1>1, <1>2, <1>3
  <2> QED  BY <2>1
<1> QED  BY <1>2, <1>4 DEF Low

\* After a pass over s bits the first one bit is among the s highest, and the count
\* makes up for the shift.
Halved(t, s, n) ==
  /\ t.x \subseteq Places /\ t.count \in Nat
  /\ \E m \in Places : Top(t.x, m) /\ m >= 64 - s /\ t.count + (63 - m) = n

LEMMA ClzPassOf ==
  ASSUME NEW t, NEW s \in {32, 16, 8, 4, 2, 1}, NEW n, Halved(t, 2 * s, n)
  PROVE  Halved(ClzPass(t, s), s, n)
<1>1. PICK m \in Places : Top(t.x, m) /\ m >= 64 - 2 * s /\ t.count + (63 - m) = n
  BY DEF Halved
<1>2. t.x \subseteq Places /\ t.count \in Nat /\ m \in Nat /\ m <= 63 /\ s \in Nat /\ s <= 32 /\ s > 0
  BY DEF Halved, Places
<1>3. CASE t.x \cap 64 - s .. 63 = {}
  <2>1. m < 64 - s
    <3>1. m \in t.x /\ m \notin 64 - s .. 63
      BY <1>1, <1>3 DEF Top
    <3> QED  BY <1>2, <3>1
  <2>2. Top(Up(t.x, s), m + s)
    <3>1. m + s \in Up(t.x, s)
      BY <1>1, <1>2, <2>1 DEF Top, Up
    <3>2. ASSUME NEW b \in Up(t.x, s) PROVE b <= m + s
      <4>1. PICK c \in t.x : b = c + s
        BY DEF Up
      <4>2. c <= m /\ c \in Nat
        BY <1>1, <1>2 DEF Top, Places
      <4> QED  BY <1>2, <4>1, <4>2
    <3> QED  BY <3>1, <3>2 DEF Top
  <2>3. Up(t.x, s) \subseteq Places
    BY DEF Up, Places
  <2>4. m + s \in Places /\ m + s >= 64 - s /\ (t.count + s) + (63 - (m + s)) = n /\ t.count + s \in Nat
    BY <1>1, <1>2, <2>1 DEF Places
  <2>5. ClzPass(t, s) = [x |-> Up(t.x, s), count |-> t.count + s]
    BY <1>3 DEF ClzPass
  <2>6. ClzPass(t, s).x = Up(t.x, s) /\ ClzPass(t, s).count = t.count + s
    BY <2>5
  <2> QED  BY <2>2, <2>3, <2>4, <2>6 DEF Halved
<1>4. CASE t.x \cap 64 - s .. 63 # {}
  <2>1. m >= 64 - s
    <3>1. PICK b \in t.x : b \in 64 - s .. 63
      BY <1>4
    <3>2. b <= m /\ b >= 64 - s /\ b \in Int
      BY <1>1, <1>2, <3>1 DEF Top
    <3> QED  BY <1>2, <3>2
  <2>2. ClzPass(t, s) = t
    BY <1>4 DEF ClzPass
  <2> QED  BY <1>1, <1>2, <2>1, <2>2 DEF Halved
<1> QED  BY <1>3, <1>4

LEMMA HalvingClzOf ==
  ASSUME NEW x, x \subseteq Places
  PROVE  HalvingClz(x) = IF x = {} THEN 64 ELSE 63 - Max(x)
<1>1. CASE x = {}
  BY <1>1 DEF HalvingClz
<1>2. CASE x # {}
  <2> DEFINE t0 == [x |-> x, count |-> 0]
             t1 == ClzPass(t0, 32)  t2 == ClzPass(t1, 16)  t3 == ClzPass(t2, 8)
             t4 == ClzPass(t3, 4)   t5 == ClzPass(t4, 2)   t6 == ClzPass(t5, 1)
  <2>1. PICK m \in Places : Top(x, m) /\ Max(x) = m
    BY <1>2, HasTop
  <2>2. HalvingClz(x) = t6.count
    BY <1>2 DEF HalvingClz
  <2>3. Halved(t0, 64, 63 - m)
    <3>1. m >= 64 - 64 /\ 0 + (63 - m) = 63 - m
      BY DEF Places
    <3>2. t0.x = x /\ t0.count = 0
      OBVIOUS
    <3> QED  BY <2>1, <3>1, <3>2 DEF Halved
  <2> HIDE DEF t0
  <2>4. Halved(t1, 32, 63 - m)
    <3>1. Halved(t0, 2 * 32, 63 - m)
      BY <2>3
    <3> QED  BY <3>1, ClzPassOf
  <2> HIDE DEF t1
  <2>5. Halved(t2, 16, 63 - m)
    <3>1. Halved(t1, 2 * 16, 63 - m)
      BY <2>4
    <3> QED  BY <3>1, ClzPassOf
  <2> HIDE DEF t2
  <2>6. Halved(t3, 8, 63 - m)
    <3>1. Halved(t2, 2 * 8, 63 - m)
      BY <2>5
    <3> QED  BY <3>1, ClzPassOf
  <2> HIDE DEF t3
  <2>7. Halved(t4, 4, 63 - m)
    <3>1. Halved(t3, 2 * 4, 63 - m)
      BY <2>6
    <3> QED  BY <3>1, ClzPassOf
  <2> HIDE DEF t4
  <2>8. Halved(t5, 2, 63 - m)
    <3>1. Halved(t4, 2 * 2, 63 - m)
      BY <2>7
    <3> QED  BY <3>1, ClzPassOf
  <2> HIDE DEF t5
  <2>9. Halved(t6, 1, 63 - m)
    <3>1. Halved(t5, 2 * 1, 63 - m)
      BY <2>8
    <3> QED  BY <3>1, ClzPassOf
  <2> HIDE DEF t6
  <2>10. t6.count = 63 - m
    BY <2>9 DEF Halved, Places
  <2> QED  BY <1>2, <2>1, <2>2, <2>10
<1> QED  BY <1>1, <1>2

\* The same from below.
HalvedLow(t, s, n) ==
  /\ t.x \subseteq Places /\ t.count \in Nat
  /\ \E m \in Places : Low(t.x, m) /\ m < s /\ t.count + m = n

LEMMA CtzPassOf ==
  ASSUME NEW t, NEW s \in {32, 16, 8, 4, 2, 1}, NEW n, HalvedLow(t, 2 * s, n)
  PROVE  HalvedLow(CtzPass(t, s), s, n)
<1>1. PICK m \in Places : Low(t.x, m) /\ m < 2 * s /\ t.count + m = n
  BY DEF HalvedLow
<1>2. t.x \subseteq Places /\ t.count \in Nat /\ m \in Nat /\ m <= 63 /\ s \in Nat /\ s <= 32 /\ s > 0
  BY DEF HalvedLow, Places
<1>3. CASE t.x \cap 0 .. s - 1 = {}
  <2>1. m >= s
    <3>1. m \in t.x /\ m \notin 0 .. s - 1
      BY <1>1, <1>3 DEF Low
    <3> QED  BY <1>2, <3>1
  <2>2. Low(Down(t.x, s), m - s)
    <3>1. m - s \in Down(t.x, s)
      BY <1>1, <1>2, <2>1 DEF Low, Down
    <3>2. ASSUME NEW b \in Down(t.x, s) PROVE m - s <= b
      <4>1. PICK c \in t.x : b = c - s
        BY DEF Down
      <4>2. m <= c /\ c \in Nat
        BY <1>1, <1>2 DEF Low, Places
      <4> QED  BY <1>2, <4>1, <4>2
    <3> QED  BY <3>1, <3>2 DEF Low
  <2>3. Down(t.x, s) \subseteq Places
    BY DEF Down, Places
  <2>4. m - s \in Places /\ m - s < s /\ (t.count + s) + (m - s) = n /\ t.count + s \in Nat
    BY <1>1, <1>2, <2>1 DEF Places
  <2>5. CtzPass(t, s) = [x |-> Down(t.x, s), count |-> t.count + s]
    BY <1>3 DEF CtzPass
  <2>6. CtzPass(t, s).x = Down(t.x, s) /\ CtzPass(t, s).count = t.count + s
    BY <2>5
  <2> QED  BY <2>2, <2>3, <2>4, <2>6 DEF HalvedLow
<1>4. CASE t.x \cap 0 .. s - 1 # {}
  <2>1. m < s
    <3>1. PICK b \in t.x : b \in 0 .. s - 1
      BY <1>4
    <3>2. m <= b /\ b < s /\ b \in Int
      BY <1>1, <1>2, <3>1 DEF Low
    <3> QED  BY <1>2, <3>2
  <2>2. CtzPass(t, s) = t
    BY <1>4 DEF CtzPass
  <2> QED  BY <1>1, <1>2, <2>1, <2>2 DEF HalvedLow
<1> QED  BY <1>3, <1>4

LEMMA HalvingCtzOf ==
  ASSUME NEW x, x \subseteq Places
  PROVE  HalvingCtz(x) = IF x = {} THEN 64 ELSE Min(x)
<1>1. CASE x = {}
  BY <1>1 DEF HalvingCtz
<1>2. CASE x # {}
  <2> DEFINE t0 == [x |-> x, count |-> 0]
             t1 == CtzPass(t0, 32)  t2 == CtzPass(t1, 16)  t3 == CtzPass(t2, 8)
             t4 == CtzPass(t3, 4)   t5 == CtzPass(t4, 2)   t6 == CtzPass(t5, 1)
  <2>1. PICK m \in Places : Low(x, m) /\ Min(x) = m
    BY <1>2, HasLow
  <2>2. HalvingCtz(x) = t6.count
    BY <1>2 DEF HalvingCtz
  <2>3. HalvedLow(t0, 64, m)
    <3>1. m < 64 /\ 0 + m = m
      BY DEF Places
    <3>2. t0.x = x /\ t0.count = 0
      OBVIOUS
    <3> QED  BY <2>1, <3>1, <3>2 DEF HalvedLow
  <2> HIDE DEF t0
  <2>4. HalvedLow(t1, 32, m)
    <3>1. HalvedLow(t0, 2 * 32, m)
      BY <2>3
    <3> QED  BY <3>1, CtzPassOf
  <2> HIDE DEF t1
  <2>5. HalvedLow(t2, 16, m)
    <3>1. HalvedLow(t1, 2 * 16, m)
      BY <2>4
    <3> QED  BY <3>1, CtzPassOf
  <2> HIDE DEF t2
  <2>6. HalvedLow(t3, 8, m)
    <3>1. HalvedLow(t2, 2 * 8, m)
      BY <2>5
    <3> QED  BY <3>1, CtzPassOf
  <2> HIDE DEF t3
  <2>7. HalvedLow(t4, 4, m)
    <3>1. HalvedLow(t3, 2 * 4, m)
      BY <2>6
    <3> QED  BY <3>1, CtzPassOf
  <2> HIDE DEF t4
  <2>8. HalvedLow(t5, 2, m)
    <3>1. HalvedLow(t4, 2 * 2, m)
      BY <2>7
    <3> QED  BY <3>1, CtzPassOf
  <2> HIDE DEF t5
  <2>9. HalvedLow(t6, 1, m)
    <3>1. HalvedLow(t5, 2 * 1, m)
      BY <2>8
    <3> QED  BY <3>1, CtzPassOf
  <2> HIDE DEF t6
  <2>10. t6.count = m
    BY <2>9 DEF HalvedLow, Places
  <2> QED  BY <1>2, <2>1, <2>2, <2>10
<1> QED  BY <1>1, <1>2

\* Where an exchange of s bits takes a bit.
BitMoved(b, s) == IF b % (2 * s) < s THEN b + s ELSE b - s

LEMMA ExchangedOf ==
  ASSUME NEW x, x \subseteq Places, NEW s \in {8, 16, 32}
  PROVE  Exchanged(x, s) = {BitMoved(b, s) : b \in x} /\ Exchanged(x, s) \subseteq Places
<1> DEFINE lower == {b \in 0 .. 63 : b % (2 * s) < s}
<1>1. Exchanged(x, s) = (Down(x, s) \cap lower) \cup Up(x \cap lower, s)
  BY DEF Exchanged
<1>2. ASSUME NEW b \in x
      PROVE  /\ b % (2 * s) < s => b \in lower /\ b + s \in 0 .. 63 /\ (b - s \in 0 .. 63 => b - s \notin lower)
             /\ ~ (b % (2 * s) < s) => b \notin lower /\ b - s \in lower
  <2>1. b \in 0 .. 63
    BY DEF Places
  <2>2. CASE s = 8
    BY <2>1, <2>2
  <2>3. CASE s = 16
    BY <2>1, <2>3
  <2>4. CASE s = 32
    BY <2>1, <2>4
  <2> QED  BY <2>2, <2>3, <2>4
<1>3. lower \subseteq 0 .. 63
  OBVIOUS
<1> HIDE DEF lower
<1>4. ASSUME NEW c \in Exchanged(x, s) PROVE c \in {BitMoved(b, s) : b \in x}
  <2>1. CASE c \in Down(x, s) /\ c \in lower
    <3>1. PICK b \in x : c = b - s
      BY <2>1 DEF Down
    <3>2. ~ (b % (2 * s) < s)
      BY <1>2, <1>3, <2>1, <3>1
    <3> QED  BY <3>1, <3>2 DEF BitMoved
  <2>2. CASE c \in Up(x \cap lower, s)
    <3>1. PICK b \in x \cap lower : c = b + s
      BY <2>2 DEF Up
    <3>2. b % (2 * s) < s
      BY <1>2, <3>1
    <3> QED  BY <3>1, <3>2 DEF BitMoved
  <2> QED  BY <1>1, <2>1, <2>2
<1>5. ASSUME NEW b \in x PROVE BitMoved(b, s) \in Exchanged(x, s)
  <2>1. CASE b % (2 * s) < s
    <3>1. BitMoved(b, s) = b + s /\ b \in lower /\ b + s \in 0 .. 63
      BY <1>2, <2>1 DEF BitMoved
    <3>2. b + s \in Up(x \cap lower, s)
      BY <3>1 DEF Up
    <3> QED  BY <1>1, <3>1, <3>2
  <2>2. CASE ~ (b % (2 * s) < s)
    <3>1. BitMoved(b, s) = b - s /\ b - s \in lower
      BY <1>2, <2>2 DEF BitMoved
    <3>2. b - s \in Down(x, s)
      BY <1>3, <3>1 DEF Down
    <3> QED  BY <1>1, <3>1, <3>2
  <2> QED  BY <2>1, <2>2
<1>6. Exchanged(x, s) \subseteq Places
  BY <1>1, <1>3 DEF Up, Places
<1> QED  BY <1>4, <1>5, <1>6

LEMMA SwappedOf ==
  ASSUME NEW x, x \subseteq Places
  PROVE  Swapped(x) = {8 * (7 - b \div 8) + (b % 8) : b \in x}
<1> DEFINE y == Exchanged(x, 8)  z == Exchanged(y, 16)
<1>1. y = {BitMoved(b, 8) : b \in x} /\ y \subseteq Places
  BY ExchangedOf
<1> HIDE DEF y
<1>2. z = {BitMoved(b, 16) : b \in y} /\ z \subseteq Places
  BY <1>1, ExchangedOf
<1> HIDE DEF z
<1>3. Exchanged(z, 32) = {BitMoved(b, 32) : b \in z}
  BY <1>2, ExchangedOf
<1>4. Swapped(x) = Exchanged(z, 32)
  BY DEF Swapped, y, z
<1>5. Swapped(x) = {BitMoved(BitMoved(BitMoved(b, 8), 16), 32) : b \in x}
  BY <1>1, <1>2, <1>3, <1>4
<1>6. ASSUME NEW b \in x PROVE BitMoved(BitMoved(BitMoved(b, 8), 16), 32) = 8 * (7 - b \div 8) + (b % 8)
  <2> DEFINE q == b \div 8  r == b % 8
  <2>1. b \in 0 .. 63
    BY DEF Places
  <2>2. q \in 0 .. 7 /\ r \in 0 .. 7 /\ b = 8 * q + r
    BY <2>1
  <2> HIDE DEF q, r
  <2>3. BitMoved(b, 8) = (IF q % 2 = 0 THEN b + 8 ELSE b - 8)
    BY <2>2 DEF BitMoved
  <2>4. q = 0 \/ q = 1 \/ q = 2 \/ q = 3 \/ q = 4 \/ q = 5 \/ q = 6 \/ q = 7
    BY <2>2
  <2>5. BitMoved(BitMoved(BitMoved(b, 8), 16), 32) = 8 * (7 - q) + r
    BY <2>2, <2>4 DEF BitMoved
  <2> QED  BY <2>5 DEF q, r
<1> QED  BY <1>5, <1>6

-----------------------------------------------------------------------------
(* Words: the tables of the scans *)

\* What six bits make.
LEMMA FirstSix ==
  ASSUME NEW b, AreBits(b, 6)
  PROVE  /\ b[0] \in {0, 1} /\ b[1] \in {0, 1} /\ b[2] \in {0, 1} /\ b[3] \in {0, 1} /\ b[4] \in {0, 1} /\ b[5] \in {0, 1}
         /\ FromBits(b, 6) = b[0] + 2 * b[1] + 4 * b[2] + 8 * b[3] + 16 * b[4] + 32 * b[5]
<1>1. /\ b[0] \in {0, 1} /\ b[1] \in {0, 1} /\ b[2] \in {0, 1} /\ b[3] \in {0, 1} /\ b[4] \in {0, 1} /\ b[5] \in {0, 1}
  BY DEF AreBits
<1>2. FromBits(b, 0) = 0
  BY FromBitsNone
<1>3. FromBits(b, 1) = FromBits(b, 0) + b[0] * 1
  <2>1. \A j \in 0 .. 0 : b[j] \in Nat
    BY DEF AreBits
  <2>2. FromBits(b, 0 + 1) = FromBits(b, 0) + b[0] * PowerOf2(0)
    BY <2>1, FromBitsOf
  <2> QED  BY <2>2, PowersSmall
<1>4. FromBits(b, 2) = FromBits(b, 1) + b[1] * 2
  <2>1. \A j \in 0 .. 1 : b[j] \in Nat
    BY DEF AreBits
  <2>2. FromBits(b, 1 + 1) = FromBits(b, 1) + b[1] * PowerOf2(1)
    BY <2>1, FromBitsOf
  <2> QED  BY <2>2, PowersSmall
<1>5. FromBits(b, 3) = FromBits(b, 2) + b[2] * 4
  <2>1. \A j \in 0 .. 2 : b[j] \in Nat
    BY DEF AreBits
  <2>2. FromBits(b, 2 + 1) = FromBits(b, 2) + b[2] * PowerOf2(2)
    BY <2>1, FromBitsOf
  <2> QED  BY <2>2, PowersSmall
<1>6. FromBits(b, 4) = FromBits(b, 3) + b[3] * 8
  <2>1. \A j \in 0 .. 3 : b[j] \in Nat
    BY DEF AreBits
  <2>2. FromBits(b, 3 + 1) = FromBits(b, 3) + b[3] * PowerOf2(3)
    BY <2>1, FromBitsOf
  <2> QED  BY <2>2, PowersSmall
<1>7. FromBits(b, 5) = FromBits(b, 4) + b[4] * 16
  <2>1. \A j \in 0 .. 4 : b[j] \in Nat
    BY DEF AreBits
  <2>2. FromBits(b, 4 + 1) = FromBits(b, 4) + b[4] * PowerOf2(4)
    BY <2>1, FromBitsOf
  <2> QED  BY <2>2, PowersSmall
<1>8. FromBits(b, 6) = FromBits(b, 5) + b[5] * 32
  <2>1. \A j \in 0 .. 5 : b[j] \in Nat
    BY DEF AreBits
  <2>2. FromBits(b, 5 + 1) = FromBits(b, 5) + b[5] * PowerOf2(5)
    BY <2>1, FromBitsOf
  <2> QED  BY <2>2, PowersSmall
<1> QED  BY <1>1, <1>2, <1>3, <1>4, <1>5, <1>6, <1>7, <1>8

\* The j-th bit of the magic word from its top, and zeros after the last.
MagicBit(j) == IF j <= 64 THEN Magic[j] ELSE 0

LEMMA MagicBits ==
  /\ Magic[1] = 0 /\ Magic[2] = 0 /\ Magic[3] = 0 /\ Magic[4] = 0 /\ Magic[5] = 0 /\ Magic[6] = 0 /\ Magic[7] = 1 /\ Magic[8] = 1
  /\ Magic[9] = 1 /\ Magic[10] = 1 /\ Magic[11] = 1 /\ Magic[12] = 1 /\ Magic[13] = 0 /\ Magic[14] = 1 /\ Magic[15] = 1 /\ Magic[16] = 1
  /\ Magic[17] = 1 /\ Magic[18] = 0 /\ Magic[19] = 0 /\ Magic[20] = 1 /\ Magic[21] = 1 /\ Magic[22] = 1 /\ Magic[23] = 0 /\ Magic[24] = 1
  /\ Magic[25] = 0 /\ Magic[26] = 1 /\ Magic[27] = 1 /\ Magic[28] = 1 /\ Magic[29] = 0 /\ Magic[30] = 0 /\ Magic[31] = 0 /\ Magic[32] = 1
  /\ Magic[33] = 1 /\ Magic[34] = 0 /\ Magic[35] = 1 /\ Magic[36] = 1 /\ Magic[37] = 0 /\ Magic[38] = 1 /\ Magic[39] = 0 /\ Magic[40] = 0
  /\ Magic[41] = 1 /\ Magic[42] = 1 /\ Magic[43] = 0 /\ Magic[44] = 0 /\ Magic[45] = 1 /\ Magic[46] = 0 /\ Magic[47] = 1 /\ Magic[48] = 1
  /\ Magic[49] = 0 /\ Magic[50] = 0 /\ Magic[51] = 0 /\ Magic[52] = 0 /\ Magic[53] = 1 /\ Magic[54] = 0 /\ Magic[55] = 1 /\ Magic[56] = 0
  /\ Magic[57] = 1 /\ Magic[58] = 0 /\ Magic[59] = 0 /\ Magic[60] = 0 /\ Magic[61] = 1 /\ Magic[62] = 0 /\ Magic[63] = 0 /\ Magic[64] = 1
BY DEF Magic

LEMMA MagicBitIn == \A j \in 1 .. 70 : MagicBit(j) \in {0, 1}
<1>1. \A j \in 1 .. 64 : Magic[j] \in {0, 1}
  BY DEF Magic
<1> QED  BY <1>1 DEF MagicBit

LEMMA MagicIndexOf ==
  ASSUME NEW k \in Places
  PROVE  MagicIndex(k) = MagicBit(k + 6) + 2 * MagicBit(k + 5) + 4 * MagicBit(k + 4) + 8 * MagicBit(k + 3)
                         + 16 * MagicBit(k + 2) + 32 * MagicBit(k + 1)
<1> DEFINE b == [i \in 0 .. 5 |-> IF k + 5 - i < 64 THEN Magic[k + 6 - i] ELSE 0]
<1>1. k \in 0 .. 63
  BY DEF Places
<1>2. \A i \in 0 .. 5 : b[i] = MagicBit(k + 6 - i)
  <2>1. ASSUME NEW i \in 0 .. 5 PROVE b[i] = MagicBit(k + 6 - i)
    <3>1. k + 5 - i < 64 <=> k + 6 - i <= 64
      BY <1>1
    <3> QED  BY <3>1 DEF MagicBit
  <2> QED  BY <2>1
<1>3. AreBits(b, 6)
  <2>1. ASSUME NEW i \in 0 .. 5 PROVE b[i] \in {0, 1}
    <3>1. k + 6 - i \in 1 .. 70
      BY <1>1
    <3> QED  BY <1>2, <3>1, MagicBitIn
  <2> QED  BY <2>1 DEF AreBits
<1>4. MagicIndex(k) = FromBits(b, 6)
  BY DEF MagicIndex
<1> HIDE DEF b
<1>5. FromBits(b, 6) = b[0] + 2 * b[1] + 4 * b[2] + 8 * b[3] + 16 * b[4] + 32 * b[5]
  BY <1>3, FirstSix
<1>6. /\ b[0] = MagicBit(k + 6) /\ b[1] = MagicBit(k + 5) /\ b[2] = MagicBit(k + 4) /\ b[3] = MagicBit(k + 3)
      /\ b[4] = MagicBit(k + 2) /\ b[5] = MagicBit(k + 1)
  <2>1. k + 6 - 0 = k + 6 /\ k + 6 - 1 = k + 5 /\ k + 6 - 2 = k + 4 /\ k + 6 - 3 = k + 3 /\ k + 6 - 4 = k + 2 /\ k + 6 - 5 = k + 1
    BY <1>1
  <2>2. 0 \in 0 .. 5 /\ 1 \in 0 .. 5 /\ 2 \in 0 .. 5 /\ 3 \in 0 .. 5 /\ 4 \in 0 .. 5 /\ 5 \in 0 .. 5
    OBVIOUS
  <2> QED  BY <1>2, <2>1, <2>2
<1> QED  BY <1>4, <1>5, <1>6

\* The tables undo the index.
LEMMA TablesUndo ==
  ASSUME NEW k \in Places
  PROVE  /\ CtzTable[MagicIndex(k) + 1] = k
         /\ k # 63 => ClzTable[MagicIndex(k) + 1] = 63 - k
<1>0. k \in 0 .. 63
  BY DEF Places
<1>1. CASE k \in 0 .. 3
  <2>1. CASE k = 0
    <3>1. MagicIndex(0) = 0
      BY <2>1, MagicIndexOf, MagicBits DEF MagicBit
    <3> QED  BY <2>1, <3>1 DEF CtzTable, ClzTable
  <2>2. CASE k = 1
    <3>1. MagicIndex(1) = 1
      BY <2>2, MagicIndexOf, MagicBits DEF MagicBit
    <3> QED  BY <2>2, <3>1 DEF CtzTable, ClzTable
  <2>3. CASE k = 2
    <3>1. MagicIndex(2) = 3
      BY <2>3, MagicIndexOf, MagicBits DEF MagicBit
    <3> QED  BY <2>3, <3>1 DEF CtzTable, ClzTable
  <2>4. CASE k = 3
    <3>1. MagicIndex(3) = 7
      BY <2>4, MagicIndexOf, MagicBits DEF MagicBit
    <3> QED  BY <2>4, <3>1 DEF CtzTable, ClzTable
  <2> QED  BY <1>1, <2>1, <2>2, <2>3, <2>4
<1>5. CASE k \in 4 .. 7
  <2>1. CASE k = 4
    <3>1. MagicIndex(4) = 15
      BY <2>1, MagicIndexOf, MagicBits DEF MagicBit
    <3> QED  BY <2>1, <3>1 DEF CtzTable, ClzTable
  <2>2. CASE k = 5
    <3>1. MagicIndex(5) = 31
      BY <2>2, MagicIndexOf, MagicBits DEF MagicBit
    <3> QED  BY <2>2, <3>1 DEF CtzTable, ClzTable
  <2>3. CASE k = 6
    <3>1. MagicIndex(6) = 63
      BY <2>3, MagicIndexOf, MagicBits DEF MagicBit
    <3> QED  BY <2>3, <3>1 DEF CtzTable, ClzTable
  <2>4. CASE k = 7
    <3>1. MagicIndex(7) = 62
      BY <2>4, MagicIndexOf, MagicBits DEF MagicBit
    <3> QED  BY <2>4, <3>1 DEF CtzTable, ClzTable
  <2> QED  BY <1>5, <2>1, <2>2, <2>3, <2>4
<1>9. CASE k \in 8 .. 11
  <2>1. CASE k = 8
    <3>1. MagicIndex(8) = 61
      BY <2>1, MagicIndexOf, MagicBits DEF MagicBit
    <3> QED  BY <2>1, <3>1 DEF CtzTable, ClzTable
  <2>2. CASE k = 9
    <3>1. MagicIndex(9) = 59
      BY <2>2, MagicIndexOf, MagicBits DEF MagicBit
    <3> QED  BY <2>2, <3>1 DEF CtzTable, ClzTable
  <2>3. CASE k = 10
    <3>1. MagicIndex(10) = 55
      BY <2>3, MagicIndexOf, MagicBits DEF MagicBit
    <3> QED  BY <2>3, <3>1 DEF CtzTable, ClzTable
  <2>4. CASE k = 11
    <3>1. MagicIndex(11) = 47
      BY <2>4, MagicIndexOf, MagicBits DEF MagicBit
    <3> QED  BY <2>4, <3>1 DEF CtzTable, ClzTable
  <2> QED  BY <1>9, <2>1, <2>2, <2>3, <2>4
<1>13. CASE k \in 12 .. 15
  <2>1. CASE k = 12
    <3>1. MagicIndex(12) = 30
      BY <2>1, MagicIndexOf, MagicBits DEF MagicBit
    <3> QED  BY <2>1, <3>1 DEF CtzTable, ClzTable
  <2>2. CASE k = 13
    <3>1. MagicIndex(13) = 60
      BY <2>2, MagicIndexOf, MagicBits DEF MagicBit
    <3> QED  BY <2>2, <3>1 DEF CtzTable, ClzTable
  <2>3. CASE k = 14
    <3>1. MagicIndex(14) = 57
      BY <2>3, MagicIndexOf, MagicBits DEF MagicBit
    <3> QED  BY <2>3, <3>1 DEF CtzTable, ClzTable
  <2>4. CASE k = 15
    <3>1. MagicIndex(15) = 51
      BY <2>4, MagicIndexOf, MagicBits DEF MagicBit
    <3> QED  BY <2>4, <3>1 DEF CtzTable, ClzTable
  <2> QED  BY <1>13, <2>1, <2>2, <2>3, <2>4
<1>17. CASE k \in 16 .. 19
  <2>1. CASE k = 16
    <3>1. MagicIndex(16) = 39
      BY <2>1, MagicIndexOf, MagicBits DEF MagicBit
    <3> QED  BY <2>1, <3>1 DEF CtzTable, ClzTable
  <2>2. CASE k = 17
    <3>1. MagicIndex(17) = 14
      BY <2>2, MagicIndexOf, MagicBits DEF MagicBit
    <3> QED  BY <2>2, <3>1 DEF CtzTable, ClzTable
  <2>3. CASE k = 18
    <3>1. MagicIndex(18) = 29
      BY <2>3, MagicIndexOf, MagicBits DEF MagicBit
    <3> QED  BY <2>3, <3>1 DEF CtzTable, ClzTable
  <2>4. CASE k = 19
    <3>1. MagicIndex(19) = 58
      BY <2>4, MagicIndexOf, MagicBits DEF MagicBit
    <3> QED  BY <2>4, <3>1 DEF CtzTable, ClzTable
  <2> QED  BY <1>17, <2>1, <2>2, <2>3, <2>4
<1>21. CASE k \in 20 .. 23
  <2>1. CASE k = 20
    <3>1. MagicIndex(20) = 53
      BY <2>1, MagicIndexOf, MagicBits DEF MagicBit
    <3> QED  BY <2>1, <3>1 DEF CtzTable, ClzTable
  <2>2. CASE k = 21
    <3>1. MagicIndex(21) = 43
      BY <2>2, MagicIndexOf, MagicBits DEF MagicBit
    <3> QED  BY <2>2, <3>1 DEF CtzTable, ClzTable
  <2>3. CASE k = 22
    <3>1. MagicIndex(22) = 23
      BY <2>3, MagicIndexOf, MagicBits DEF MagicBit
    <3> QED  BY <2>3, <3>1 DEF CtzTable, ClzTable
  <2>4. CASE k = 23
    <3>1. MagicIndex(23) = 46
      BY <2>4, MagicIndexOf, MagicBits DEF MagicBit
    <3> QED  BY <2>4, <3>1 DEF CtzTable, ClzTable
  <2> QED  BY <1>21, <2>1, <2>2, <2>3, <2>4
<1>25. CASE k \in 24 .. 27
  <2>1. CASE k = 24
    <3>1. MagicIndex(24) = 28
      BY <2>1, MagicIndexOf, MagicBits DEF MagicBit
    <3> QED  BY <2>1, <3>1 DEF CtzTable, ClzTable
  <2>2. CASE k = 25
    <3>1. MagicIndex(25) = 56
      BY <2>2, MagicIndexOf, MagicBits DEF MagicBit
    <3> QED  BY <2>2, <3>1 DEF CtzTable, ClzTable
  <2>3. CASE k = 26
    <3>1. MagicIndex(26) = 49
      BY <2>3, MagicIndexOf, MagicBits DEF MagicBit
    <3> QED  BY <2>3, <3>1 DEF CtzTable, ClzTable
  <2>4. CASE k = 27
    <3>1. MagicIndex(27) = 35
      BY <2>4, MagicIndexOf, MagicBits DEF MagicBit
    <3> QED  BY <2>4, <3>1 DEF CtzTable, ClzTable
  <2> QED  BY <1>25, <2>1, <2>2, <2>3, <2>4
<1>29. CASE k \in 28 .. 31
  <2>1. CASE k = 28
    <3>1. MagicIndex(28) = 6
      BY <2>1, MagicIndexOf, MagicBits DEF MagicBit
    <3> QED  BY <2>1, <3>1 DEF CtzTable, ClzTable
  <2>2. CASE k = 29
    <3>1. MagicIndex(29) = 13
      BY <2>2, MagicIndexOf, MagicBits DEF MagicBit
    <3> QED  BY <2>2, <3>1 DEF CtzTable, ClzTable
  <2>3. CASE k = 30
    <3>1. MagicIndex(30) = 27
      BY <2>3, MagicIndexOf, MagicBits DEF MagicBit
    <3> QED  BY <2>3, <3>1 DEF CtzTable, ClzTable
  <2>4. CASE k = 31
    <3>1. MagicIndex(31) = 54
      BY <2>4, MagicIndexOf, MagicBits DEF MagicBit
    <3> QED  BY <2>4, <3>1 DEF CtzTable, ClzTable
  <2> QED  BY <1>29, <2>1, <2>2, <2>3, <2>4
<1>33. CASE k \in 32 .. 35
  <2>1. CASE k = 32
    <3>1. MagicIndex(32) = 45
      BY <2>1, MagicIndexOf, MagicBits DEF MagicBit
    <3> QED  BY <2>1, <3>1 DEF CtzTable, ClzTable
  <2>2. CASE k = 33
    <3>1. MagicIndex(33) = 26
      BY <2>2, MagicIndexOf, MagicBits DEF MagicBit
    <3> QED  BY <2>2, <3>1 DEF CtzTable, ClzTable
  <2>3. CASE k = 34
    <3>1. MagicIndex(34) = 52
      BY <2>3, MagicIndexOf, MagicBits DEF MagicBit
    <3> QED  BY <2>3, <3>1 DEF CtzTable, ClzTable
  <2>4. CASE k = 35
    <3>1. MagicIndex(35) = 41
      BY <2>4, MagicIndexOf, MagicBits DEF MagicBit
    <3> QED  BY <2>4, <3>1 DEF CtzTable, ClzTable
  <2> QED  BY <1>33, <2>1, <2>2, <2>3, <2>4
<1>37. CASE k \in 36 .. 39
  <2>1. CASE k = 36
    <3>1. MagicIndex(36) = 19
      BY <2>1, MagicIndexOf, MagicBits DEF MagicBit
    <3> QED  BY <2>1, <3>1 DEF CtzTable, ClzTable
  <2>2. CASE k = 37
    <3>1. MagicIndex(37) = 38
      BY <2>2, MagicIndexOf, MagicBits DEF MagicBit
    <3> QED  BY <2>2, <3>1 DEF CtzTable, ClzTable
  <2>3. CASE k = 38
    <3>1. MagicIndex(38) = 12
      BY <2>3, MagicIndexOf, MagicBits DEF MagicBit
    <3> QED  BY <2>3, <3>1 DEF CtzTable, ClzTable
  <2>4. CASE k = 39
    <3>1. MagicIndex(39) = 25
      BY <2>4, MagicIndexOf, MagicBits DEF MagicBit
    <3> QED  BY <2>4, <3>1 DEF CtzTable, ClzTable
  <2> QED  BY <1>37, <2>1, <2>2, <2>3, <2>4
<1>41. CASE k \in 40 .. 43
  <2>1. CASE k = 40
    <3>1. MagicIndex(40) = 50
      BY <2>1, MagicIndexOf, MagicBits DEF MagicBit
    <3> QED  BY <2>1, <3>1 DEF CtzTable, ClzTable
  <2>2. CASE k = 41
    <3>1. MagicIndex(41) = 37
      BY <2>2, MagicIndexOf, MagicBits DEF MagicBit
    <3> QED  BY <2>2, <3>1 DEF CtzTable, ClzTable
  <2>3. CASE k = 42
    <3>1. MagicIndex(42) = 11
      BY <2>3, MagicIndexOf, MagicBits DEF MagicBit
    <3> QED  BY <2>3, <3>1 DEF CtzTable, ClzTable
  <2>4. CASE k = 43
    <3>1. MagicIndex(43) = 22
      BY <2>4, MagicIndexOf, MagicBits DEF MagicBit
    <3> QED  BY <2>4, <3>1 DEF CtzTable, ClzTable
  <2> QED  BY <1>41, <2>1, <2>2, <2>3, <2>4
<1>45. CASE k \in 44 .. 47
  <2>1. CASE k = 44
    <3>1. MagicIndex(44) = 44
      BY <2>1, MagicIndexOf, MagicBits DEF MagicBit
    <3> QED  BY <2>1, <3>1 DEF CtzTable, ClzTable
  <2>2. CASE k = 45
    <3>1. MagicIndex(45) = 24
      BY <2>2, MagicIndexOf, MagicBits DEF MagicBit
    <3> QED  BY <2>2, <3>1 DEF CtzTable, ClzTable
  <2>3. CASE k = 46
    <3>1. MagicIndex(46) = 48
      BY <2>3, MagicIndexOf, MagicBits DEF MagicBit
    <3> QED  BY <2>3, <3>1 DEF CtzTable, ClzTable
  <2>4. CASE k = 47
    <3>1. MagicIndex(47) = 33
      BY <2>4, MagicIndexOf, MagicBits DEF MagicBit
    <3> QED  BY <2>4, <3>1 DEF CtzTable, ClzTable
  <2> QED  BY <1>45, <2>1, <2>2, <2>3, <2>4
<1>49. CASE k \in 48 .. 51
  <2>1. CASE k = 48
    <3>1. MagicIndex(48) = 2
      BY <2>1, MagicIndexOf, MagicBits DEF MagicBit
    <3> QED  BY <2>1, <3>1 DEF CtzTable, ClzTable
  <2>2. CASE k = 49
    <3>1. MagicIndex(49) = 5
      BY <2>2, MagicIndexOf, MagicBits DEF MagicBit
    <3> QED  BY <2>2, <3>1 DEF CtzTable, ClzTable
  <2>3. CASE k = 50
    <3>1. MagicIndex(50) = 10
      BY <2>3, MagicIndexOf, MagicBits DEF MagicBit
    <3> QED  BY <2>3, <3>1 DEF CtzTable, ClzTable
  <2>4. CASE k = 51
    <3>1. MagicIndex(51) = 21
      BY <2>4, MagicIndexOf, MagicBits DEF MagicBit
    <3> QED  BY <2>4, <3>1 DEF CtzTable, ClzTable
  <2> QED  BY <1>49, <2>1, <2>2, <2>3, <2>4
<1>53. CASE k \in 52 .. 55
  <2>1. CASE k = 52
    <3>1. MagicIndex(52) = 42
      BY <2>1, MagicIndexOf, MagicBits DEF MagicBit
    <3> QED  BY <2>1, <3>1 DEF CtzTable, ClzTable
  <2>2. CASE k = 53
    <3>1. MagicIndex(53) = 20
      BY <2>2, MagicIndexOf, MagicBits DEF MagicBit
    <3> QED  BY <2>2, <3>1 DEF CtzTable, ClzTable
  <2>3. CASE k = 54
    <3>1. MagicIndex(54) = 40
      BY <2>3, MagicIndexOf, MagicBits DEF MagicBit
    <3> QED  BY <2>3, <3>1 DEF CtzTable, ClzTable
  <2>4. CASE k = 55
    <3>1. MagicIndex(55) = 17
      BY <2>4, MagicIndexOf, MagicBits DEF MagicBit
    <3> QED  BY <2>4, <3>1 DEF CtzTable, ClzTable
  <2> QED  BY <1>53, <2>1, <2>2, <2>3, <2>4
<1>57. CASE k \in 56 .. 59
  <2>1. CASE k = 56
    <3>1. MagicIndex(56) = 34
      BY <2>1, MagicIndexOf, MagicBits DEF MagicBit
    <3> QED  BY <2>1, <3>1 DEF CtzTable, ClzTable
  <2>2. CASE k = 57
    <3>1. MagicIndex(57) = 4
      BY <2>2, MagicIndexOf, MagicBits DEF MagicBit
    <3> QED  BY <2>2, <3>1 DEF CtzTable, ClzTable
  <2>3. CASE k = 58
    <3>1. MagicIndex(58) = 9
      BY <2>3, MagicIndexOf, MagicBits DEF MagicBit
    <3> QED  BY <2>3, <3>1 DEF CtzTable, ClzTable
  <2>4. CASE k = 59
    <3>1. MagicIndex(59) = 18
      BY <2>4, MagicIndexOf, MagicBits DEF MagicBit
    <3> QED  BY <2>4, <3>1 DEF CtzTable, ClzTable
  <2> QED  BY <1>57, <2>1, <2>2, <2>3, <2>4
<1>61. CASE k \in 60 .. 63
  <2>1. CASE k = 60
    <3>1. MagicIndex(60) = 36
      BY <2>1, MagicIndexOf, MagicBits DEF MagicBit
    <3> QED  BY <2>1, <3>1 DEF CtzTable, ClzTable
  <2>2. CASE k = 61
    <3>1. MagicIndex(61) = 8
      BY <2>2, MagicIndexOf, MagicBits DEF MagicBit
    <3> QED  BY <2>2, <3>1 DEF CtzTable, ClzTable
  <2>3. CASE k = 62
    <3>1. MagicIndex(62) = 16
      BY <2>3, MagicIndexOf, MagicBits DEF MagicBit
    <3> QED  BY <2>3, <3>1 DEF CtzTable, ClzTable
  <2>4. CASE k = 63
    <3>1. MagicIndex(63) = 32
      BY <2>4, MagicIndexOf, MagicBits DEF MagicBit
    <3> QED  BY <2>4, <3>1 DEF CtzTable, ClzTable
  <2> QED  BY <1>61, <2>1, <2>2, <2>3, <2>4
<1> QED  BY <1>0, <1>1, <1>5, <1>9, <1>13, <1>17, <1>21, <1>25, <1>29, <1>33, <1>37, <1>41, <1>45, <1>49, <1>53, <1>57, <1>61

LEMMA TableClzOf ==
  ASSUME NEW x, x \subseteq Places
  PROVE  TableClz(x) = IF x = {} THEN 64 ELSE 63 - Max(x)
<1>1. CASE x = {}
  BY <1>1 DEF TableClz
<1>2. CASE x # {}
  <2>1. PICK m \in Places : Top(x, m) /\ Max(x) = m
    BY <1>2, HasTop
  <2>2. m \in 0 .. 63 /\ m \in x /\ \A b \in x : b <= m /\ b \in 0 .. 63
    BY <2>1 DEF Top, Places
  <2>3. CASE 63 \in x
    <3>1. m = 63
      BY <2>2, <2>3
    <3> QED  BY <1>2, <2>1, <2>3, <3>1 DEF TableClz
  <2>4. CASE 63 \notin x
    <3>1. m # 63
      BY <2>2, <2>4
    <3>2. Smeared(x) = 0 .. m
      <4>1. \A b \in 0 .. 63 : (\E c \in x : b <= c) <=> b <= m
        BY <2>2
      <4>2. Smeared(x) = {b \in 0 .. 63 : b <= m}
        BY <4>1 DEF Smeared
      <4> QED  BY <2>2, <4>2
    <3>3. TopOf(Smeared(x)) = {m}
      BY <2>2, <3>2 DEF TopOf
    <3>4. (CHOOSE b \in TopOf(Smeared(x)) : TRUE) = m
      BY <3>3
    <3>5. TableClz(x) = ClzTable[MagicIndex(m) + 1]
      BY <1>2, <2>4, <3>4 DEF TableClz
    <3> QED  BY <1>2, <2>1, <3>1, <3>5, TablesUndo
  <2> QED  BY <2>3, <2>4
<1> QED  BY <1>1, <1>2

LEMMA TableCtzOf ==
  ASSUME NEW x, x \subseteq Places
  PROVE  TableCtz(x) = IF x = {} THEN 64 ELSE Min(x)
<1>1. CASE x = {}
  BY <1>1 DEF TableCtz
<1>2. CASE x # {}
  <2>1. PICK m \in Places : Low(x, m) /\ Min(x) = m
    BY <1>2, HasLow
  <2>2. m \in 0 .. 63 /\ m \in x /\ \A b \in x : m <= b /\ b \in 0 .. 63
    BY <2>1 DEF Low, Places
  <2>3. CASE 0 \in x
    <3>1. m = 0
      BY <2>2, <2>3
    <3> QED  BY <1>2, <2>1, <2>3, <3>1 DEF TableCtz
  <2>4. CASE 0 \notin x
    <3>1. LowestOf(x) = {m}
      <4>1. m \in LowestOf(x)
        BY <2>2 DEF LowestOf
      <4>2. ASSUME NEW b \in LowestOf(x) PROVE b = m
        <5>1. b \in x /\ b <= m
          BY <2>2, <4>2 DEF LowestOf
        <5> QED  BY <2>2, <5>1
      <4> QED  BY <4>1, <4>2
    <3>2. (CHOOSE b \in LowestOf(x) : TRUE) = m
      BY <3>1
    <3>3. TableCtz(x) = CtzTable[MagicIndex(m) + 1]
      BY <1>2, <2>4, <3>2 DEF TableCtz
    <3> QED  BY <1>2, <2>1, <3>3, TablesUndo
  <2> QED  BY <2>3, <2>4
<1> QED  BY <1>1, <1>2

ScanRight(t) ==
  t.scan = [clz  |-> IF t.bits = {} THEN 64 ELSE 63 - Max(t.bits),
            ctz  |-> IF t.bits = {} THEN 64 ELSE Min(t.bits),
            swap |-> {8 * (7 - b \div 8) + (b % 8) : b \in t.bits}]

LEMMA CallScanOf ==
  ASSUME CallScan
  PROVE  task'.op = "scan" /\ ScanRight(task')
<1>1. PICK kit \in {"portable", "constant"}, x \in ScanWords :
        Enter([op |-> "scan", status |-> "ok", kit |-> kit, bits |-> x, scan |-> Scanned(kit, x)])
  BY DEF CallScan
<1>2. task'.op = "scan" /\ task'.bits = x /\ task'.scan = Scanned(kit, x)
  BY <1>1 DEF Enter
<1>3. x \subseteq Places
  BY WordAssumption DEF Places
<1> DEFINE c == IF x = {} THEN 64 ELSE 63 - Max(x)  z == IF x = {} THEN 64 ELSE Min(x)
           w == {8 * (7 - b \div 8) + (b % 8) : b \in x}
<1>4. TableClz(x) = c /\ HalvingClz(x) = c /\ TableCtz(x) = z /\ HalvingCtz(x) = z /\ Swapped(x) = w
  BY <1>3, TableClzOf, HalvingClzOf, TableCtzOf, HalvingCtzOf, SwappedOf
<1>5. ScanRight(task') <=> task'.scan = [clz |-> c, ctz |-> z, swap |-> w]
  BY <1>2, Zenon DEF ScanRight
<1> HIDE DEF c, z, w
<1>6. CASE kit = "portable"
  <2>1. Scanned(kit, x) = [clz |-> c, ctz |-> z, swap |-> w]
    BY <1>4, <1>6 DEF Scanned
  <2> QED  BY <1>2, <1>5, <2>1
<1>7. CASE kit = "constant"
  <2>1. Scanned(kit, x) = [clz |-> c, ctz |-> z, swap |-> w]
    BY <1>4, <1>7 DEF Scanned
  <2> QED  BY <1>2, <1>5, <2>1
<1> QED  BY <1>6, <1>7

-----------------------------------------------------------------------------
(* Words: the count of ones *)

LEMMA ByteSums ==
  ASSUME NEW b, AreBits(b, 8)
  PROVE  FromBits(b, 8) = b[0] + 2 * b[1] + 4 * b[2] + 8 * b[3] + 16 * b[4] + 32 * b[5] + 64 * b[6] + 128 * b[7]
<1>1. AreBits(b, 6) /\ b[6] \in {0, 1} /\ b[7] \in {0, 1}
  BY DEF AreBits
<1>2. FromBits(b, 7) = FromBits(b, 6) + b[6] * 64
  <2>1. \A j \in 0 .. 6 : b[j] \in Nat
    BY DEF AreBits
  <2>2. FromBits(b, 6 + 1) = FromBits(b, 6) + b[6] * PowerOf2(6)
    BY <2>1, FromBitsOf
  <2> QED  BY <2>2, PowersSmall
<1>3. FromBits(b, 8) = FromBits(b, 7) + b[7] * 128
  <2>1. \A j \in 0 .. 7 : b[j] \in Nat
    BY DEF AreBits
  <2>2. FromBits(b, 7 + 1) = FromBits(b, 7) + b[7] * PowerOf2(7)
    BY <2>1, FromBitsOf
  <2> QED  BY <2>2, PowersSmall
<1> QED  BY <1>1, <1>2, <1>3, FirstSix

\* A byte is made of its bits.
LEMMA ByteOf ==
  ASSUME NEW v \in Nat, v < 256
  PROVE  /\ \A i \in 0 .. 7 : Bit(v, i) \in {0, 1}
         /\ v = Bit(v, 0) + 2 * Bit(v, 1) + 4 * Bit(v, 2) + 8 * Bit(v, 3)
                + 16 * Bit(v, 4) + 32 * Bit(v, 5) + 64 * Bit(v, 6) + 128 * Bit(v, 7)
<1> DEFINE b == [i \in 0 .. 7 |-> Bit(v, i)]
<1>1. \A i \in 0 .. 8 - 1 : b[i] = Bit(v, i)
  OBVIOUS
<1> HIDE DEF b
<1>2. AreBits(b, 8) /\ FromBits(b, 8) = v % PowerOf2(8)
  BY <1>1, BitsOfNumber
<1>3. v % PowerOf2(8) = v
  BY PowersSmall
<1>4. \A i \in 0 .. 7 : Bit(v, i) \in {0, 1}
  BY BitIn
<1>5. FromBits(b, 8) = b[0] + 2 * b[1] + 4 * b[2] + 8 * b[3] + 16 * b[4] + 32 * b[5] + 64 * b[6] + 128 * b[7]
  BY <1>2, ByteSums
<1>6. /\ b[0] = Bit(v, 0) /\ b[1] = Bit(v, 1) /\ b[2] = Bit(v, 2) /\ b[3] = Bit(v, 3)
      /\ b[4] = Bit(v, 4) /\ b[5] = Bit(v, 5) /\ b[6] = Bit(v, 6) /\ b[7] = Bit(v, 7)
  BY <1>1
<1>7. v = Bit(v, 0) + 2 * Bit(v, 1) + 4 * Bit(v, 2) + 8 * Bit(v, 3)
          + 16 * Bit(v, 4) + 32 * Bit(v, 5) + 64 * Bit(v, 6) + 128 * Bit(v, 7)
  BY <1>2, <1>3, <1>5, <1>6
<1> QED  BY <1>4, <1>7

\* The bits of the patterns.
LEMMA PatternBits ==
  /\ Bit(1, 0) = 1 /\ Bit(1, 1) = 0 /\ Bit(1, 2) = 0 /\ Bit(1, 3) = 0 /\ Bit(1, 4) = 0 /\ Bit(1, 5) = 0
  /\ Bit(1, 6) = 0 /\ Bit(1, 7) = 0
  /\ Bit(3, 0) = 1 /\ Bit(3, 1) = 1 /\ Bit(3, 2) = 0 /\ Bit(3, 3) = 0
  /\ Bit(15, 0) = 1 /\ Bit(15, 1) = 1 /\ Bit(15, 2) = 1 /\ Bit(15, 3) = 1 /\ Bit(15, 4) = 0 /\ Bit(15, 5) = 0
  /\ Bit(15, 6) = 0 /\ Bit(15, 7) = 0
BY PowersSmall DEF Bit

Periods == {2, 4, 8}

\* The bits of x under the pattern p of b bits.
MaskBits(w, x, b, p) == [i \in 0 .. w - 1 |-> Bit(x, i) * Bit(p, i % b)]

LEMMA Masked ==
  ASSUME NEW w \in Nat, NEW x \in Nat, NEW b \in Periods, NEW p \in Nat
  PROVE  /\ AreBits(MaskBits(w, x, b, p), w) /\ And(w, x, Repeat(w, b, p)) = FromBits(MaskBits(w, x, b, p), w)
         /\ And(w, x, Repeat(w, b, p)) \in Nat
<1> DEFINE r == [i \in 0 .. w - 1 |-> Bit(p, i % b)]  m == MaskBits(w, x, b, p)
           a == [i \in 0 .. w - 1 |-> Bit(x, i) * Bit(Repeat(w, b, p), i)]
<1>1. ASSUME NEW i \in 0 .. w - 1 PROVE i \in Nat /\ i % b \in Nat /\ Bit(p, i % b) \in {0, 1} /\ Bit(x, i) \in {0, 1}
  <2>1. i \in Nat /\ i % b \in Nat
    BY DEF Periods
  <2> QED  BY <2>1, BitIn
<1>2. AreBits(r, w)
  BY <1>1 DEF AreBits
<1>3. Repeat(w, b, p) = FromBits(r, w)
  BY DEF Repeat
<1>4. ASSUME NEW i \in 0 .. w - 1 PROVE Bit(Repeat(w, b, p), i) = Bit(p, i % b)
  <2>1. r[i] = Bit(p, i % b)
    OBVIOUS
  <2> HIDE DEF r
  <2> QED  BY <1>2, <1>3, <2>1, BitOfFromBits
<1>5. \A i \in 0 .. w - 1 : m[i] = Bit(x, i) * Bit(p, i % b) /\ m[i] = a[i]
  BY <1>4 DEF MaskBits
<1>6. AreBits(m, w)
  <2>1. ASSUME NEW i \in 0 .. w - 1 PROVE m[i] \in {0, 1}
    <3> DEFINE c == Bit(x, i)  d == Bit(p, i % b)
    <3>1. c \in {0, 1} /\ d \in {0, 1} /\ m[i] = c * d
      BY <1>1, <1>5
    <3> HIDE DEF c, d, m
    <3> QED  BY <3>1
  <2> QED  BY <2>1 DEF AreBits
<1>7. And(w, x, Repeat(w, b, p)) = FromBits(a, w)
  BY DEF And
<1> HIDE DEF m, a
<1>8. FromBits(m, w) = FromBits(a, w)
  BY <1>5, <1>6, FromBitsSame
<1>9. FromBits(m, w) \in Nat
  BY <1>6, FromBitsBelow
<1> QED  BY <1>6, <1>7, <1>8, <1>9 DEF m

\* The same byte, where the mask has ones, and the same bits from the eighth on.
SameByte(x, y, b, p) == \A i \in 0 .. 7 : Bit(p, i % b) = 0 \/ Bit(x, i) = Bit(y, i)
SameAbove(x, z, w)   == \A i \in 0 .. w - 1 : Bit(x, 8 + i) = Bit(z, i)

\* The lowest byte and the others, each under its part of the mask.
LEMMA MaskSplit ==
  ASSUME NEW w \in Nat, NEW x \in Nat, NEW y \in Nat, NEW z \in Nat, NEW b \in Periods, NEW p \in Nat,
         SameByte(x, y, b, p), SameAbove(x, z, w)
  PROVE  And(8 + w, x, Repeat(8 + w, b, p)) =
           And(8, y, Repeat(8, b, p)) + 256 * And(w, z, Repeat(w, b, p))
<1> DEFINE mx == MaskBits(8 + w, x, b, p)  my == MaskBits(8, y, b, p)  mz == MaskBits(w, z, b, p)
<1>1. /\ AreBits(mx, 8 + w) /\ And(8 + w, x, Repeat(8 + w, b, p)) = FromBits(mx, 8 + w)
      /\ AreBits(my, 8) /\ And(8, y, Repeat(8, b, p)) = FromBits(my, 8)
      /\ And(w, z, Repeat(w, b, p)) = FromBits(mz, w)
  <2>1. 8 + w \in Nat /\ 8 \in Nat
    OBVIOUS
  <2>2. AreBits(mx, 8 + w) /\ And(8 + w, x, Repeat(8 + w, b, p)) = FromBits(mx, 8 + w)
    BY <2>1, Masked
  <2>3. AreBits(my, 8) /\ And(8, y, Repeat(8, b, p)) = FromBits(my, 8)
    BY <2>1, Masked
  <2>4. And(w, z, Repeat(w, b, p)) = FromBits(mz, w)
    BY Masked
  <2> QED  BY <2>2, <2>3, <2>4
<1>2. ASSUME NEW i \in 0 .. 7 PROVE mx[i] = my[i]
  <2>1. i \in 0 .. (8 + w) - 1 /\ i \in 0 .. 8 - 1 /\ i \in Nat
    OBVIOUS
  <2>2. mx[i] = Bit(x, i) * Bit(p, i % b) /\ my[i] = Bit(y, i) * Bit(p, i % b)
    BY <2>1 DEF MaskBits
  <2>3. Bit(x, i) \in Nat /\ Bit(y, i) \in Nat
    BY <2>1, BitIn
  <2> HIDE DEF mx, my
  <2>4. CASE Bit(p, i % b) = 0
    BY <2>2, <2>3, <2>4
  <2>5. CASE Bit(x, i) = Bit(y, i)
    BY <2>2, <2>5
  <2> QED  BY <2>4, <2>5 DEF SameByte
<1>3. ASSUME NEW i \in 0 .. w - 1 PROVE mz[i] = mx[8 + i]
  <2>1. 8 + i \in 0 .. (8 + w) - 1 /\ (8 + i) % b = i % b
    <3>1. CASE b = 2
      BY <3>1
    <3>2. CASE b = 4
      BY <3>2
    <3>3. CASE b = 8
      BY <3>3
    <3> QED  BY <3>1, <3>2, <3>3 DEF Periods
  <2>2. mz[i] = Bit(z, i) * Bit(p, i % b) /\ mx[8 + i] = Bit(x, 8 + i) * Bit(p, (8 + i) % b)
    BY <2>1 DEF MaskBits
  <2>3. Bit(x, 8 + i) = Bit(z, i)
    BY DEF SameAbove
  <2> QED  BY <2>1, <2>2, <2>3, Zenon
<1> HIDE DEF mx, my, mz
<1>4. FromBits(mx, 8 + w) = FromBits(mx, 8) + PowerOf2(8) * FromBits(mz, w)
  BY <1>1, <1>3, FromBitsSplit
<1>5. FromBits(my, 8) = FromBits(mx, 8)
  BY <1>1, <1>2, FromBitsSame
<1> QED  BY <1>1, <1>4, <1>5, PowersSmall

\* The number with the lowest byte y, and a number shifted down by k bits.
Joined(y, z)  == y + 256 * z
Shifted(n, k) == n \div PowerOf2(k)

\* The bits of a shifted number, below the eighth and from it on.
LEMMA ShiftedBits ==
  ASSUME NEW y \in Nat, y < 256, NEW z \in Nat, NEW k \in Nat, NEW i \in Nat
  PROVE  /\ k + i < 8 => Bit(Shifted(Joined(y, z), k), i) = Bit(Shifted(y, k), i)
         /\ Bit(Shifted(Joined(y, z), k), 8 + i) = Bit(Shifted(z, k), i)
<1> DEFINE x == y + PowerOf2(8) * z
<1>1. x = y + 256 * z /\ x \in Nat /\ y < PowerOf2(8) /\ 8 \in Nat
  BY PowersSmall
<1>2. ASSUME k + i < 8 PROVE Bit(x \div PowerOf2(k), i) = Bit(y \div PowerOf2(k), i)
  <2>1. k + i \in 0 .. 8 - 1
    BY <1>2
  <2>2. Bit(x, k + i) = Bit(y, k + i)
    BY <1>1, <2>1, BitBelow
  <2> HIDE DEF x
  <2> QED  BY <1>1, <2>2, BitShifted
<1>3. Bit(x \div PowerOf2(k), 8 + i) = Bit(z \div PowerOf2(k), i)
  <2>1. 8 + i \in Nat /\ k + i \in Nat /\ k + (8 + i) = 8 + (k + i)
    OBVIOUS
  <2>2. Bit(x, 8 + (k + i)) = Bit(z, k + i)
    BY <1>1, <2>1, BitAbove
  <2> HIDE DEF x
  <2>3. Bit(x \div PowerOf2(k), 8 + i) = Bit(x, k + (8 + i))
    BY <1>1, <2>1, BitShifted
  <2>4. Bit(z \div PowerOf2(k), i) = Bit(z, k + i)
    BY BitShifted
  <2> QED  BY <2>1, <2>2, <2>3, <2>4
<1> HIDE DEF x
<1> QED  BY <1>1, <1>2, <1>3, Zenon DEF Joined, Shifted

\* The mask leaves out the k highest bits of a byte.
LeavesOut(k, b, p) == \A i \in 8 - k .. 7 : Bit(p, i % b) = 0

\* A mask over a shifted number, when it leaves out what a byte lends to the next.
LEMMA MaskShifted ==
  ASSUME NEW w \in Nat, NEW y \in Nat, y < 256, NEW z \in Nat, NEW k \in 0 .. 7, NEW b \in Periods, NEW p \in Nat, LeavesOut(k, b, p)
  PROVE  And(8 + w, Shifted(Joined(y, z), k), Repeat(8 + w, b, p)) =
           And(8, Shifted(y, k), Repeat(8, b, p)) + 256 * And(w, Shifted(z, k), Repeat(w, b, p))
<1> DEFINE x == Shifted(Joined(y, z), k)  u == Shifted(y, k)  v == Shifted(z, k)
<1>1. x \in Nat /\ u \in Nat /\ v \in Nat
  <2>1. PowerOf2(k) \in Nat \ {0} /\ Joined(y, z) \in Nat
    BY PowerOf2Positive DEF Joined
  <2> QED  BY <2>1, Division DEF Shifted
<1>2. SameByte(x, u, b, p)
  <2>1. ASSUME NEW i \in 0 .. 7 PROVE Bit(p, i % b) = 0 \/ Bit(x, i) = Bit(u, i)
    <3>1. CASE k + i < 8
      <4>1. k \in Nat /\ i \in Nat
        OBVIOUS
      <4>2. Bit(x, i) = Bit(u, i)
        BY <3>1, <4>1, ShiftedBits
      <4> QED  BY <4>2
    <3>2. CASE ~ (k + i < 8)
      <4>1. i \in 8 - k .. 7
        BY <3>2
      <4> QED  BY <4>1 DEF LeavesOut
    <3> QED  BY <3>1, <3>2
  <2> QED  BY <2>1 DEF SameByte
<1>3. SameAbove(x, v, w)
  <2>1. ASSUME NEW i \in 0 .. w - 1 PROVE Bit(x, 8 + i) = Bit(v, i)
    <3>1. k \in Nat /\ i \in Nat
      OBVIOUS
    <3> QED  BY <3>1, ShiftedBits
  <2> QED  BY <2>1 DEF SameAbove
<1> HIDE DEF x, u, v
<1>4. And(8 + w, x, Repeat(8 + w, b, p)) = And(8, u, Repeat(8, b, p)) + 256 * And(w, v, Repeat(w, b, p))
  BY <1>1, <1>2, <1>3, MaskSplit
<1> QED  BY <1>4 DEF x, u, v

\* What a mask leaves of a byte.
LEMMA MaskedByte ==
  ASSUME NEW v \in Nat
  PROVE  /\ And(8, v, Repeat(8, 2, 1)) = Bit(v, 0) + 4 * Bit(v, 2) + 16 * Bit(v, 4) + 64 * Bit(v, 6)
         /\ And(8, v, Repeat(8, 4, 3)) = Bit(v, 0) + 2 * Bit(v, 1) + 16 * Bit(v, 4) + 32 * Bit(v, 5)
         /\ And(8, v, Repeat(8, 8, 15)) = Bit(v, 0) + 2 * Bit(v, 1) + 4 * Bit(v, 2) + 8 * Bit(v, 3)
<1>1. \A i \in 0 .. 7 : Bit(v, i) \in {0, 1}
  BY BitIn
<1>2. ASSUME NEW b \in Periods, NEW p \in Nat
      PROVE  And(8, v, Repeat(8, b, p)) =
               Bit(v, 0) * Bit(p, 0 % b) + 2 * (Bit(v, 1) * Bit(p, 1 % b)) + 4 * (Bit(v, 2) * Bit(p, 2 % b))
               + 8 * (Bit(v, 3) * Bit(p, 3 % b)) + 16 * (Bit(v, 4) * Bit(p, 4 % b)) + 32 * (Bit(v, 5) * Bit(p, 5 % b))
               + 64 * (Bit(v, 6) * Bit(p, 6 % b)) + 128 * (Bit(v, 7) * Bit(p, 7 % b))
  <2> DEFINE m == MaskBits(8, v, b, p)
  <2>1. AreBits(m, 8) /\ And(8, v, Repeat(8, b, p)) = FromBits(m, 8)
    BY Masked
  <2>2. \A i \in 0 .. 7 : m[i] = Bit(v, i) * Bit(p, i % b)
    BY DEF MaskBits
  <2> HIDE DEF m
  <2>3. FromBits(m, 8) = m[0] + 2 * m[1] + 4 * m[2] + 8 * m[3] + 16 * m[4] + 32 * m[5] + 64 * m[6] + 128 * m[7]
    BY <2>1, ByteSums
  <2>4. /\ m[0] = Bit(v, 0) * Bit(p, 0 % b) /\ m[1] = Bit(v, 1) * Bit(p, 1 % b)
        /\ m[2] = Bit(v, 2) * Bit(p, 2 % b) /\ m[3] = Bit(v, 3) * Bit(p, 3 % b)
        /\ m[4] = Bit(v, 4) * Bit(p, 4 % b) /\ m[5] = Bit(v, 5) * Bit(p, 5 % b)
        /\ m[6] = Bit(v, 6) * Bit(p, 6 % b) /\ m[7] = Bit(v, 7) * Bit(p, 7 % b)
    <3>1. 0 \in 0 .. 7 /\ 1 \in 0 .. 7 /\ 2 \in 0 .. 7 /\ 3 \in 0 .. 7 /\ 4 \in 0 .. 7 /\ 5 \in 0 .. 7
          /\ 6 \in 0 .. 7 /\ 7 \in 0 .. 7
      OBVIOUS
    <3> QED  BY <2>2, <3>1, Zenon
  <2> QED  BY <2>1, <2>3, <2>4, Zenon
<1>b. /\ Bit(v, 0) \in {0, 1} /\ Bit(v, 1) \in {0, 1} /\ Bit(v, 2) \in {0, 1} /\ Bit(v, 3) \in {0, 1}
      /\ Bit(v, 4) \in {0, 1} /\ Bit(v, 5) \in {0, 1} /\ Bit(v, 6) \in {0, 1} /\ Bit(v, 7) \in {0, 1}
  BY <1>1
<1>3. And(8, v, Repeat(8, 2, 1)) = Bit(v, 0) + 4 * Bit(v, 2) + 16 * Bit(v, 4) + 64 * Bit(v, 6)
  <2>1. 2 \in Periods /\ 1 \in Nat
    BY DEF Periods
  <2>2. /\ 0 % 2 = 0 /\ 1 % 2 = 1 /\ 2 % 2 = 0 /\ 3 % 2 = 1 /\ 4 % 2 = 0 /\ 5 % 2 = 1 /\ 6 % 2 = 0 /\ 7 % 2 = 1
    OBVIOUS
  <2>3. And(8, v, Repeat(8, 2, 1)) =
               Bit(v, 0) * 1 + 2 * (Bit(v, 1) * 0) + 4 * (Bit(v, 2) * 1)
               + 8 * (Bit(v, 3) * 0) + 16 * (Bit(v, 4) * 1) + 32 * (Bit(v, 5) * 0)
               + 64 * (Bit(v, 6) * 1) + 128 * (Bit(v, 7) * 0)
    BY <1>2, <2>1, <2>2, PatternBits
  <2> QED  BY <1>b, <2>3
<1>4. And(8, v, Repeat(8, 4, 3)) = Bit(v, 0) + 2 * Bit(v, 1) + 16 * Bit(v, 4) + 32 * Bit(v, 5)
  <2>1. 4 \in Periods /\ 3 \in Nat
    BY DEF Periods
  <2>2. /\ 0 % 4 = 0 /\ 1 % 4 = 1 /\ 2 % 4 = 2 /\ 3 % 4 = 3 /\ 4 % 4 = 0 /\ 5 % 4 = 1 /\ 6 % 4 = 2 /\ 7 % 4 = 3
    OBVIOUS
  <2>3. And(8, v, Repeat(8, 4, 3)) =
               Bit(v, 0) * 1 + 2 * (Bit(v, 1) * 1) + 4 * (Bit(v, 2) * 0)
               + 8 * (Bit(v, 3) * 0) + 16 * (Bit(v, 4) * 1) + 32 * (Bit(v, 5) * 1)
               + 64 * (Bit(v, 6) * 0) + 128 * (Bit(v, 7) * 0)
    BY <1>2, <2>1, <2>2, PatternBits
  <2> QED  BY <1>b, <2>3
<1>5. And(8, v, Repeat(8, 8, 15)) = Bit(v, 0) + 2 * Bit(v, 1) + 4 * Bit(v, 2) + 8 * Bit(v, 3)
  <2>1. 8 \in Periods /\ 15 \in Nat
    BY DEF Periods
  <2>2. /\ 0 % 8 = 0 /\ 1 % 8 = 1 /\ 2 % 8 = 2 /\ 3 % 8 = 3 /\ 4 % 8 = 4 /\ 5 % 8 = 5 /\ 6 % 8 = 6 /\ 7 % 8 = 7
    OBVIOUS
  <2>3. And(8, v, Repeat(8, 8, 15)) =
               Bit(v, 0) * 1 + 2 * (Bit(v, 1) * 1) + 4 * (Bit(v, 2) * 1)
               + 8 * (Bit(v, 3) * 1) + 16 * (Bit(v, 4) * 0) + 32 * (Bit(v, 5) * 0)
               + 64 * (Bit(v, 6) * 0) + 128 * (Bit(v, 7) * 0)
    BY <1>2, <2>1, <2>2, PatternBits
  <2> QED  BY <1>b, <2>3
<1> QED  BY <1>3, <1>4, <1>5

\* The ones of a byte.
ByteOnes(y) == Bit(y, 0) + Bit(y, 1) + Bit(y, 2) + Bit(y, 3) + Bit(y, 4) + Bit(y, 5) + Bit(y, 6) + Bit(y, 7)

\* The sums of a byte: in pairs, then in nibbles.
LEMMA BytePairs ==
  ASSUME NEW y \in Nat, y < 256
  PROVE  InPairs(8, y) = (Bit(y, 0) + Bit(y, 1)) + 4 * (Bit(y, 2) + Bit(y, 3))
                         + 16 * (Bit(y, 4) + Bit(y, 5)) + 64 * (Bit(y, 6) + Bit(y, 7))
<1> DEFINE h == y \div 2
<1>1. h \in Nat
  OBVIOUS
<1>2. ASSUME NEW i \in Nat PROVE Bit(h, i) = Bit(y, 1 + i)
  <2>1. Shifted(y, 1) = h
    BY PowersSmall DEF Shifted
  <2>2. Bit(Shifted(y, 1), i) = Bit(y, 1 + i)
    <3>1. 1 \in Nat
      OBVIOUS
    <3> QED  BY <3>1, BitShifted DEF Shifted
  <2> QED  BY <2>1, <2>2, Zenon
<1>3. Bit(h, 0) = Bit(y, 1) /\ Bit(h, 2) = Bit(y, 3) /\ Bit(h, 4) = Bit(y, 5) /\ Bit(h, 6) = Bit(y, 7)
  <2> HIDE DEF h
  <2>2. 1 + 0 = 1 /\ 1 + 2 = 3 /\ 1 + 4 = 5 /\ 1 + 6 = 7
    OBVIOUS
  <2>3. 0 \in Nat /\ 2 \in Nat /\ 4 \in Nat /\ 6 \in Nat
    OBVIOUS
  <2> QED  BY <1>2, <2>2, <2>3
<1>4. InPairs(8, y) = y - And(8, h, Repeat(8, 2, 1))
  BY DEF InPairs
<1> HIDE DEF h
<1>5. And(8, h, Repeat(8, 2, 1)) = Bit(h, 0) + 4 * Bit(h, 2) + 16 * Bit(h, 4) + 64 * Bit(h, 6)
  BY <1>1, MaskedByte
<1>6. /\ \A i \in 0 .. 7 : Bit(y, i) \in {0, 1}
      /\ y = Bit(y, 0) + 2 * Bit(y, 1) + 4 * Bit(y, 2) + 8 * Bit(y, 3)
             + 16 * Bit(y, 4) + 32 * Bit(y, 5) + 64 * Bit(y, 6) + 128 * Bit(y, 7)
  BY ByteOf
<1>7. /\ Bit(y, 0) \in Nat /\ Bit(y, 1) \in Nat /\ Bit(y, 2) \in Nat /\ Bit(y, 3) \in Nat
      /\ Bit(y, 4) \in Nat /\ Bit(y, 5) \in Nat /\ Bit(y, 6) \in Nat /\ Bit(y, 7) \in Nat
  BY BitIn
<1> QED  BY <1>3, <1>4, <1>5, <1>6, <1>7

LEMMA LowPart ==
  ASSUME NEW a \in 0 .. 3, NEW b \in 0 .. 3, NEW x \in Int, NEW y \in Int, a + 4 * x = b + 4 * y
  PROVE  a = b /\ x = y
OBVIOUS

LEMMA ByteNibbles ==
  ASSUME NEW v \in Nat, NEW e0 \in 0 .. 3, NEW e1 \in 0 .. 3, NEW e2 \in 0 .. 3, NEW e3 \in 0 .. 3,
         v = e0 + 4 * e1 + 16 * e2 + 64 * e3
  PROVE  InNibbles(8, v) = (e0 + e1) + 16 * (e2 + e3) /\ v < 256
<1> DEFINE q == v \div 4
<1>1. q \in Nat /\ v < 256
  OBVIOUS
<1>2. ASSUME NEW i \in Nat PROVE Bit(q, i) = Bit(v, 2 + i)
  <2>1. Shifted(v, 2) = q
    BY PowersSmall DEF Shifted
  <2>2. Bit(Shifted(v, 2), i) = Bit(v, 2 + i)
    <3>1. 2 \in Nat
      OBVIOUS
    <3> QED  BY <3>1, BitShifted DEF Shifted
  <2> QED  BY <2>1, <2>2, Zenon
<1>3. Bit(q, 0) = Bit(v, 2) /\ Bit(q, 1) = Bit(v, 3) /\ Bit(q, 4) = Bit(v, 6) /\ Bit(q, 5) = Bit(v, 7)
  <2> HIDE DEF q
  <2>2. 2 + 0 = 2 /\ 2 + 1 = 3 /\ 2 + 4 = 6 /\ 2 + 5 = 7
    OBVIOUS
  <2>3. 0 \in Nat /\ 1 \in Nat /\ 4 \in Nat /\ 5 \in Nat
    OBVIOUS
  <2> QED  BY <1>2, <2>2, <2>3
<1>4. InNibbles(8, v) = And(8, v, Repeat(8, 4, 3)) + And(8, q, Repeat(8, 4, 3))
  BY DEF InNibbles
<1> HIDE DEF q
<1>5. /\ And(8, v, Repeat(8, 4, 3)) = Bit(v, 0) + 2 * Bit(v, 1) + 16 * Bit(v, 4) + 32 * Bit(v, 5)
      /\ And(8, q, Repeat(8, 4, 3)) = Bit(q, 0) + 2 * Bit(q, 1) + 16 * Bit(q, 4) + 32 * Bit(q, 5)
  BY <1>1, MaskedByte
<1>6. /\ \A i \in 0 .. 7 : Bit(v, i) \in {0, 1}
      /\ v = Bit(v, 0) + 2 * Bit(v, 1) + 4 * Bit(v, 2) + 8 * Bit(v, 3)
             + 16 * Bit(v, 4) + 32 * Bit(v, 5) + 64 * Bit(v, 6) + 128 * Bit(v, 7)
  BY <1>1, ByteOf
<1>7. /\ Bit(v, 0) \in {0, 1} /\ Bit(v, 1) \in {0, 1} /\ Bit(v, 2) \in {0, 1} /\ Bit(v, 3) \in {0, 1}
      /\ Bit(v, 4) \in {0, 1} /\ Bit(v, 5) \in {0, 1} /\ Bit(v, 6) \in {0, 1} /\ Bit(v, 7) \in {0, 1}
  BY <1>6
<1>8. /\ Bit(v, 0) + 2 * Bit(v, 1) = e0 /\ Bit(v, 2) + 2 * Bit(v, 3) = e1
      /\ Bit(v, 4) + 2 * Bit(v, 5) = e2 /\ Bit(v, 6) + 2 * Bit(v, 7) = e3
  <2> DEFINE a0 == Bit(v, 0) + 2 * Bit(v, 1)  a1 == Bit(v, 2) + 2 * Bit(v, 3)
             a2 == Bit(v, 4) + 2 * Bit(v, 5)  a3 == Bit(v, 6) + 2 * Bit(v, 7)
  <2>1. a0 \in 0 .. 3 /\ a1 \in 0 .. 3 /\ a2 \in 0 .. 3 /\ a3 \in 0 .. 3
    BY <1>7
  <2>2. v = a0 + 4 * (a1 + 4 * (a2 + 4 * a3))
    BY <1>6, <1>7
  <2>3. v = e0 + 4 * (e1 + 4 * (e2 + 4 * e3))
    OBVIOUS
  <2> HIDE DEF a0, a1, a2, a3
  <2>4. a0 = e0 /\ a1 + 4 * (a2 + 4 * a3) = e1 + 4 * (e2 + 4 * e3)
    <3>1. a1 + 4 * (a2 + 4 * a3) \in Int /\ e1 + 4 * (e2 + 4 * e3) \in Int
      BY <2>1
    <3> QED  BY <2>1, <2>2, <2>3, <3>1, LowPart
  <2>5. a1 = e1 /\ a2 + 4 * a3 = e2 + 4 * e3
    <3>1. a2 + 4 * a3 \in Int /\ e2 + 4 * e3 \in Int
      BY <2>1
    <3> QED  BY <2>1, <2>4, <3>1, LowPart
  <2>6. a2 = e2 /\ a3 = e3
    BY <2>1, <2>5, LowPart
  <2> QED  BY <2>4, <2>5, <2>6 DEF a0, a1, a2, a3
<1> QED  BY <1>1, <1>3, <1>4, <1>5, <1>7, <1>8

\* Two nibbles of at most 4 ones each.
LEMMA ByteCounted ==
  ASSUME NEW y \in Nat, y < 256
  PROVE  \E lo \in 0 .. 4, hi \in 0 .. 4 :
           /\ InPairs(8, y) \in Nat /\ InPairs(8, y) < 256
           /\ InNibbles(8, InPairs(8, y)) = lo + 16 * hi
           /\ lo + hi = ByteOnes(y)
<1>1. /\ Bit(y, 0) \in {0, 1} /\ Bit(y, 1) \in {0, 1} /\ Bit(y, 2) \in {0, 1} /\ Bit(y, 3) \in {0, 1}
      /\ Bit(y, 4) \in {0, 1} /\ Bit(y, 5) \in {0, 1} /\ Bit(y, 6) \in {0, 1} /\ Bit(y, 7) \in {0, 1}
  BY BitIn
<1> DEFINE v == InPairs(8, y)  e0 == Bit(y, 0) + Bit(y, 1)  e1 == Bit(y, 2) + Bit(y, 3)
           e2 == Bit(y, 4) + Bit(y, 5)  e3 == Bit(y, 6) + Bit(y, 7)
<1>2. v = e0 + 4 * e1 + 16 * e2 + 64 * e3
  BY BytePairs
<1>3. e0 \in 0 .. 2 /\ e1 \in 0 .. 2 /\ e2 \in 0 .. 2 /\ e3 \in 0 .. 2
  BY <1>1
<1>4. ByteOnes(y) = e0 + e1 + e2 + e3
  BY <1>1 DEF ByteOnes
<1> HIDE DEF v, e0, e1, e2, e3
<1>5. v \in Nat /\ e0 \in 0 .. 3 /\ e1 \in 0 .. 3 /\ e2 \in 0 .. 3 /\ e3 \in 0 .. 3
  BY <1>2, <1>3
<1>6. InNibbles(8, v) = (e0 + e1) + 16 * (e2 + e3) /\ v < 256
  BY <1>2, <1>5, ByteNibbles
<1> DEFINE lo == e0 + e1  hi == e2 + e3
<1>7. lo \in 0 .. 4 /\ hi \in 0 .. 4 /\ InNibbles(8, v) = lo + 16 * hi /\ lo + hi = ByteOnes(y)
  BY <1>3, <1>4, <1>6
<1> HIDE DEF lo, hi
<1> QED  BY <1>5, <1>6, <1>7 DEF v

\* The sums of a number, taken byte by byte from the lowest on.
LEMMA PairsSplit ==
  ASSUME NEW w \in Nat, NEW y \in Nat, y < 256, NEW z \in Nat
  PROVE  InPairs(8 + w, Joined(y, z)) = Joined(InPairs(8, y), InPairs(w, z))
<1> DEFINE a == And(8 + w, Shifted(Joined(y, z), 1), Repeat(8 + w, 2, 1))
           b == And(8, Shifted(y, 1), Repeat(8, 2, 1))
           c == And(w, Shifted(z, 1), Repeat(w, 2, 1))
<1>1. a = b + 256 * c
  <2>1. 2 \in Periods /\ 1 \in Nat /\ 1 \in 0 .. 7
    BY DEF Periods
  <2>2. LeavesOut(1, 2, 1)
    <3>1. ASSUME NEW i \in 8 - 1 .. 7 PROVE Bit(1, i % 2) = 0
      <4>1. i % 2 = 1
        OBVIOUS
      <4> QED  BY <4>1, PatternBits
    <3> QED  BY <3>1 DEF LeavesOut
  <2> QED  BY <2>1, <2>2, MaskShifted
<1>2. ASSUME NEW n PROVE Shifted(n, 1) = n \div 2
  BY PowersSmall DEF Shifted
<1>3. InPairs(8 + w, Joined(y, z)) = Joined(y, z) - a /\ InPairs(8, y) = y - b /\ InPairs(w, z) = z - c
  BY <1>2, Zenon DEF InPairs
<1>4. b \in Nat /\ c \in Nat
  <2>1. 2 \in Periods /\ 1 \in Nat /\ 8 \in Nat
    BY DEF Periods
  <2>2. Shifted(y, 1) \in Nat /\ Shifted(z, 1) \in Nat
    BY <1>2
  <2> QED  BY <2>1, <2>2, Masked
<1> HIDE DEF a, b, c
<1> QED  BY <1>1, <1>3, <1>4 DEF Joined

LEMMA NibblesSplit ==
  ASSUME NEW w \in Nat, NEW y \in Nat, y < 256, NEW z \in Nat
  PROVE  /\ InNibbles(8 + w, Joined(y, z)) = Joined(InNibbles(8, y), InNibbles(w, z))
         /\ InNibbles(w, z) \in Nat
<1> DEFINE a0 == And(8 + w, Shifted(Joined(y, z), 0), Repeat(8 + w, 4, 3))
           b0 == And(8, Shifted(y, 0), Repeat(8, 4, 3))
           c0 == And(w, Shifted(z, 0), Repeat(w, 4, 3))
           a2 == And(8 + w, Shifted(Joined(y, z), 2), Repeat(8 + w, 4, 3))
           b2 == And(8, Shifted(y, 2), Repeat(8, 4, 3))
           c2 == And(w, Shifted(z, 2), Repeat(w, 4, 3))
<1>0. 4 \in Periods /\ 3 \in Nat /\ 0 \in 0 .. 7 /\ 2 \in 0 .. 7 /\ 8 \in Nat
  BY DEF Periods
<1>1. a0 = b0 + 256 * c0
  <2>1. LeavesOut(0, 4, 3)
    BY DEF LeavesOut
  <2> QED  BY <1>0, <2>1, MaskShifted
<1>2. a2 = b2 + 256 * c2
  <2>1. LeavesOut(2, 4, 3)
    <3>1. ASSUME NEW i \in 8 - 2 .. 7 PROVE Bit(3, i % 4) = 0
      <4>1. i % 4 = 2 \/ i % 4 = 3
        OBVIOUS
      <4> QED  BY <4>1, PatternBits
    <3> QED  BY <3>1 DEF LeavesOut
  <2> QED  BY <1>0, <2>1, MaskShifted
<1>3. ASSUME NEW n \in Nat PROVE Shifted(n, 0) = n /\ Shifted(n, 2) = n \div 4 /\ Shifted(n, 2) \in Nat
  BY PowersSmall DEF Shifted
<1>4. Joined(y, z) \in Nat
  BY DEF Joined
<1>5. InNibbles(8 + w, Joined(y, z)) = a0 + a2 /\ InNibbles(8, y) = b0 + b2 /\ InNibbles(w, z) = c0 + c2
  BY <1>3, <1>4, Zenon DEF InNibbles
<1>6. b0 \in Nat /\ c0 \in Nat /\ b2 \in Nat /\ c2 \in Nat
  BY <1>0, <1>3, Masked
<1> HIDE DEF a0, b0, c0, a2, b2, c2
<1> QED  BY <1>1, <1>2, <1>5, <1>6 DEF Joined

LEMMA JoinedBits ==
  ASSUME NEW y \in Nat, y < 256, NEW z \in Nat, NEW i \in Nat
  PROVE  /\ i < 8 => Bit(Joined(y, z), i) = Bit(y, i)
         /\ Bit(Joined(y, z), 8 + i) = Bit(z, i)
<1>1. \A n \in Nat : Shifted(n, 0) = n
  BY PowersSmall DEF Shifted
<1>2. Joined(y, z) \in Nat /\ 0 \in Nat /\ (0 + i < 8 <=> i < 8)
  BY DEF Joined
<1> QED  BY <1>1, <1>2, ShiftedBits

\* The bits of a remainder by a power are those below it.
LEMMA RemainderBits ==
  ASSUME NEW x \in Nat, NEW n \in Nat, NEW i \in 0 .. n - 1
  PROVE  Bit(x % PowerOf2(n), i) = Bit(x, i) /\ x % PowerOf2(n) \in Nat
<1> DEFINE p == PowerOf2(n)  c == x % p  u == x \div p
<1>1. p \in Nat \ {0}
  BY PowerOf2Positive
<1>2. c \in Nat /\ u \in Nat /\ x = c + p * u
  <2> HIDE DEF p
  <2> QED  BY <1>1
<1> HIDE DEF c, u
<1>3. Bit(c + p * u, i) = Bit(c, i)
  BY <1>2, BitBelow
<1>4. Bit(x, i) = Bit(c, i)
  BY <1>2, <1>3, Zenon
<1> QED  BY <1>2, <1>4, Zenon DEF c, p

LEMMA BytesSplit ==
  ASSUME NEW w \in Nat, NEW lo \in 0 .. 4, NEW hi \in 0 .. 4, NEW z \in Nat, z % 16 <= 4
  PROVE  InBytes(8 + w, Joined(lo + 16 * hi, z)) = Joined(lo + hi, InBytes(w, z)) /\ InBytes(w, z) \in Nat
<1> DEFINE h == z % 16  g == z \div 16
           t == (lo + hi) + 16 * (hi + h)
           r == z + z \div 16
           x == Joined(lo + 16 * hi, z)
           s == x + x \div 16
           rr == r % PowerOf2(w)  ss == s % PowerOf2(8 + w)
<1>1. h \in 0 .. 4 /\ g \in Nat /\ z = h + 16 * g
  OBVIOUS
<1>2. t \in Nat /\ t < 256
  BY <1>1
<1>3. r \in Nat /\ x \in Nat /\ s \in Nat
  <2>1. x \in Nat
    BY DEF Joined
  <2> HIDE DEF x
  <2> QED  BY <2>1
<1>4. s = Joined(t, r)
  <2>1. x = lo + 16 * (hi + 16 * z)
    BY DEF Joined
  <2>2. x \div 16 = hi + 16 * z
    <3> DEFINE k == hi + 16 * z
    <3>1. k \in Nat /\ x = lo + 16 * k
      BY <2>1
    <3> HIDE DEF k, x
    <3>2. (lo + 16 * k) \div 16 = k
      BY <3>1
    <3> QED  BY <3>1, <3>2 DEF k
  <2>3. r = z + g
    OBVIOUS
  <2>4. s = (lo + 16 * (hi + 16 * z)) + (hi + 16 * z)
    BY <2>1, <2>2
  <2> HIDE DEF h, g, r, s, x
  <2>5. t + 256 * r = (lo + 16 * (hi + 16 * z)) + (hi + 16 * z)
    BY <1>1, <2>3
  <2> QED  BY <2>4, <2>5 DEF Joined
<1>5. ASSUME NEW n \in Nat, NEW q \in Nat PROVE q % PowerOf2(n) \in Nat
  <2>1. PowerOf2(n) \in Nat \ {0}
    BY PowerOf2Positive
  <2> QED  BY <2>1
<1>6. rr \in Nat /\ ss \in Nat
  <2>1. 8 + w \in Nat
    OBVIOUS
  <2> HIDE DEF r, s
  <2> QED  BY <1>3, <1>5, <2>1
<1>7. SameByte(ss, t, 8, 15)
  <2>1. ASSUME NEW i \in 0 .. 7 PROVE Bit(ss, i) = Bit(t, i)
    <3>1. i \in Nat /\ i < 8 /\ 8 + w \in Nat /\ i \in 0 .. (8 + w) - 1
      OBVIOUS
    <3> HIDE DEF s, t, r
    <3>2. Bit(ss, i) = Bit(s, i)
      BY <1>3, <3>1, RemainderBits
    <3>3. Bit(Joined(t, r), i) = Bit(t, i)
      BY <1>2, <1>3, <3>1, JoinedBits
    <3> QED  BY <1>4, <3>2, <3>3
  <2> HIDE DEF ss, t
  <2> QED  BY <2>1 DEF SameByte
<1>8. SameAbove(ss, rr, w)
  <2>1. ASSUME NEW i \in 0 .. w - 1 PROVE Bit(ss, 8 + i) = Bit(rr, i)
    <3>1. i \in Nat /\ 8 + w \in Nat /\ 8 + i \in 0 .. (8 + w) - 1
      OBVIOUS
    <3> HIDE DEF s, t, r
    <3>2. Bit(ss, 8 + i) = Bit(s, 8 + i)
      BY <1>3, <3>1, RemainderBits
    <3>3. Bit(Joined(t, r), 8 + i) = Bit(r, i)
      BY <1>2, <1>3, <3>1, JoinedBits
    <3>4. Bit(rr, i) = Bit(r, i)
      BY <1>3, RemainderBits
    <3> QED  BY <1>4, <3>2, <3>3, <3>4
  <2> HIDE DEF ss, rr
  <2> QED  BY <2>1 DEF SameAbove
<1>9. InBytes(8 + w, x) = And(8 + w, ss, Repeat(8 + w, 8, 15)) /\ InBytes(w, z) = And(w, rr, Repeat(w, 8, 15))
  BY DEF InBytes
<1>x. x = Joined(lo + 16 * hi, z)
  OBVIOUS
<1>t. t = (lo + hi) + 16 * (hi + h)
  OBVIOUS
<1> HIDE DEF t, ss, rr, x, h
<1>10. 8 \in Periods /\ 15 \in Nat
  BY DEF Periods
<1>11. And(8 + w, ss, Repeat(8 + w, 8, 15)) = And(8, t, Repeat(8, 8, 15)) + 256 * And(w, rr, Repeat(w, 8, 15))
  BY <1>2, <1>6, <1>7, <1>8, <1>10, MaskSplit
<1>12. And(8, t, Repeat(8, 8, 15)) = lo + hi
  <2>1. And(8, t, Repeat(8, 8, 15)) = Bit(t, 0) + 2 * Bit(t, 1) + 4 * Bit(t, 2) + 8 * Bit(t, 3)
    BY <1>2, MaskedByte
  <2>2. t = Bit(t, 0) + 2 * Bit(t, 1) + 4 * Bit(t, 2) + 8 * Bit(t, 3)
            + 16 * Bit(t, 4) + 32 * Bit(t, 5) + 64 * Bit(t, 6) + 128 * Bit(t, 7)
    BY <1>2, ByteOf
  <2>3. /\ Bit(t, 0) \in {0, 1} /\ Bit(t, 1) \in {0, 1} /\ Bit(t, 2) \in {0, 1} /\ Bit(t, 3) \in {0, 1}
        /\ Bit(t, 4) \in {0, 1} /\ Bit(t, 5) \in {0, 1} /\ Bit(t, 6) \in {0, 1} /\ Bit(t, 7) \in {0, 1}
    BY <1>2, BitIn
  <2> DEFINE a == Bit(t, 0) + 2 * Bit(t, 1) + 4 * Bit(t, 2) + 8 * Bit(t, 3)
             c == Bit(t, 4) + 2 * Bit(t, 5) + 4 * Bit(t, 6) + 8 * Bit(t, 7)
  <2>4. a \in 0 .. 15 /\ c \in 0 .. 15 /\ t = a + 16 * c
    BY <2>2, <2>3
  <2> HIDE DEF a, c
  <2>5. a = lo + hi
    BY <1>1, <1>t, <2>4
  <2> QED  BY <2>1, <2>5 DEF a
<1>13. And(w, rr, Repeat(w, 8, 15)) \in Nat
  BY <1>6, <1>10, Masked
<1>14. InBytes(8 + w, x) = (lo + hi) + 256 * InBytes(w, z) /\ InBytes(w, z) \in Nat
  BY <1>9, <1>11, <1>12, <1>13, Zenon
<1> QED  BY <1>14, <1>x, Zenon DEF Joined

\* The ones among the n lowest bits.
OnesSet(x, n) == {i \in 0 .. n - 1 : Bit(x, i) = 1}
Ones(x, n)    == Cardinality(OnesSet(x, n))

LEMMA OnesOf ==
  ASSUME NEW x \in Nat
  PROVE  /\ Ones(x, 0) = 0
         /\ \A n \in Nat : Ones(x, n) \in Nat /\ Ones(x, n + 1) = Ones(x, n) + Bit(x, n)
<1>1. Ones(x, 0) = 0
  <2>1. OnesSet(x, 0) = {}
    BY DEF OnesSet
  <2> QED  BY <2>1, FS_EmptySet DEF Ones
<1>2. ASSUME NEW n \in Nat PROVE Ones(x, n) \in Nat /\ Ones(x, n + 1) = Ones(x, n) + Bit(x, n)
  <2> DEFINE s == OnesSet(x, n)
  <2>1. IsFiniteSet(s)
    <3>1. IsFiniteSet(0 .. n - 1)
      BY FS_Interval
    <3>2. s \in SUBSET (0 .. n - 1)
      BY DEF OnesSet
    <3> QED  BY <3>1, <3>2, FS_Subset
  <2>2. Cardinality(s) \in Nat
    BY <2>1, FS_CardinalityType
  <2>3. Bit(x, n) \in {0, 1}
    BY BitIn
  <2>4. CASE Bit(x, n) = 0
    <3>1. OnesSet(x, n + 1) = s
      BY <2>4 DEF OnesSet
    <3> QED  BY <2>2, <2>4, <3>1 DEF Ones
  <2>5. CASE Bit(x, n) = 1
    <3>1. OnesSet(x, n + 1) = s \cup {n} /\ n \notin s
      BY <2>5 DEF OnesSet
    <3>2. Cardinality(s \cup {n}) = Cardinality(s) + 1
      BY <2>1, <3>1, FS_AddElement
    <3> QED  BY <2>2, <2>5, <3>1, <3>2 DEF Ones
  <2> QED  BY <2>3, <2>4, <2>5
<1> QED  BY <1>1, <1>2

LEMMA OnesOfByte ==
  ASSUME NEW x \in Nat
  PROVE  Ones(x, 8) = ByteOnes(x) /\ ByteOnes(x) \in 0 .. 8
<1>1. /\ Ones(x, 0 + 1) = Ones(x, 0) + Bit(x, 0) /\ Ones(x, 1 + 1) = Ones(x, 1) + Bit(x, 1)
      /\ Ones(x, 2 + 1) = Ones(x, 2) + Bit(x, 2) /\ Ones(x, 3 + 1) = Ones(x, 3) + Bit(x, 3)
      /\ Ones(x, 4 + 1) = Ones(x, 4) + Bit(x, 4) /\ Ones(x, 5 + 1) = Ones(x, 5) + Bit(x, 5)
      /\ Ones(x, 6 + 1) = Ones(x, 6) + Bit(x, 6) /\ Ones(x, 7 + 1) = Ones(x, 7) + Bit(x, 7)
      /\ Ones(x, 0) = 0
  BY OnesOf
<1>2. /\ Bit(x, 0) \in {0, 1} /\ Bit(x, 1) \in {0, 1} /\ Bit(x, 2) \in {0, 1} /\ Bit(x, 3) \in {0, 1}
      /\ Bit(x, 4) \in {0, 1} /\ Bit(x, 5) \in {0, 1} /\ Bit(x, 6) \in {0, 1} /\ Bit(x, 7) \in {0, 1}
  BY BitIn
<1>3. /\ 0 + 1 = 1 /\ 1 + 1 = 2 /\ 2 + 1 = 3 /\ 3 + 1 = 4 /\ 4 + 1 = 5 /\ 5 + 1 = 6 /\ 6 + 1 = 7 /\ 7 + 1 = 8
  OBVIOUS
<1>4. /\ Ones(x, 1) = 0 + Bit(x, 0) /\ Ones(x, 2) = Ones(x, 1) + Bit(x, 1)
      /\ Ones(x, 3) = Ones(x, 2) + Bit(x, 2) /\ Ones(x, 4) = Ones(x, 3) + Bit(x, 3)
      /\ Ones(x, 5) = Ones(x, 4) + Bit(x, 4) /\ Ones(x, 6) = Ones(x, 5) + Bit(x, 5)
      /\ Ones(x, 7) = Ones(x, 6) + Bit(x, 6) /\ Ones(x, 8) = Ones(x, 7) + Bit(x, 7)
  BY <1>1, <1>3
<1> QED  BY <1>2, <1>4 DEF ByteOnes

LEMMA OnesJoined ==
  ASSUME NEW y \in Nat, y < 256, NEW z \in Nat, NEW m \in Nat
  PROVE  Ones(Joined(y, z), 8 + m) = ByteOnes(y) + Ones(z, m)
<1> DEFINE x == Joined(y, z)  Q == {i \in Nat : Ones(x, 8 + i) = ByteOnes(y) + Ones(z, i)}
<1>1. x \in Nat
  BY DEF Joined
<1>2. 0 \in Q
  <2>1. ByteOnes(x) = ByteOnes(y)
    <3>1. \A i \in Nat : i < 8 => Bit(x, i) = Bit(y, i)
      BY JoinedBits
    <3> HIDE DEF x
    <3>2. /\ Bit(x, 0) = Bit(y, 0) /\ Bit(x, 1) = Bit(y, 1) /\ Bit(x, 2) = Bit(y, 2) /\ Bit(x, 3) = Bit(y, 3)
          /\ Bit(x, 4) = Bit(y, 4) /\ Bit(x, 5) = Bit(y, 5) /\ Bit(x, 6) = Bit(y, 6) /\ Bit(x, 7) = Bit(y, 7)
      BY <3>1
    <3> QED  BY <3>2 DEF ByteOnes
  <2> HIDE DEF x
  <2>2. Ones(x, 8) = ByteOnes(y) /\ ByteOnes(y) \in Nat /\ Ones(z, 0) = 0
    BY <1>1, <2>1, OnesOfByte, OnesOf
  <2>3. 8 + 0 = 8
    OBVIOUS
  <2> QED  BY <2>2, <2>3
<1>3. ASSUME NEW i \in 1 .. m, i - 1 \in Q PROVE i \in Q
  <2> DEFINE j == i - 1
  <2>1. j \in Nat /\ j + 1 = i /\ (8 + j) + 1 = 8 + i /\ 8 + j \in Nat /\ i \in Nat
    OBVIOUS
  <2>2. Ones(x, 8 + j) = ByteOnes(y) + Ones(z, j)
    BY <1>3
  <2>3. Bit(x, 8 + j) = Bit(z, j)
    BY <2>1, JoinedBits
  <2> HIDE DEF x, j
  <2>4. Ones(x, (8 + j) + 1) = Ones(x, 8 + j) + Bit(x, 8 + j) /\ Ones(z, j + 1) = Ones(z, j) + Bit(z, j)
        /\ Ones(z, j) \in Nat
    BY <1>1, <2>1, OnesOf
  <2>5. Bit(z, j) \in {0, 1} /\ ByteOnes(y) \in Nat
    BY <2>1, BitIn, OnesOfByte
  <2>6. Ones(x, 8 + i) = ByteOnes(y) + Ones(z, i)
    <3>1. Ones(x, 8 + i) = (ByteOnes(y) + Ones(z, j)) + Bit(z, j)
      BY <2>1, <2>2, <2>3, <2>4, Zenon
    <3>2. Ones(z, i) = Ones(z, j) + Bit(z, j)
      BY <2>1, <2>4, Zenon
    <3> QED  BY <2>4, <2>5, <3>1, <3>2
  <2> QED  BY <2>1, <2>6
<1> HIDE DEF Q
<1>4. \A i \in 0 .. m : i \in Q
  BY <1>2, <1>3, SetInduction
<1>5. m \in Q
  BY <1>4
<1> QED  BY <1>5 DEF Q

\* The multiplier that has a one in every byte.
Bytes1(w) == Repeat(w, 8, 1)

LEMMA Bytes1Split ==
  ASSUME NEW w \in Nat
  PROVE  Bytes1(w) \in Nat /\ Bytes1(8 + w) = 1 + 256 * Bytes1(w)
<1> DEFINE b == [i \in 0 .. (8 + w) - 1 |-> Bit(1, i % 8)]  c == [i \in 0 .. w - 1 |-> Bit(1, i % 8)]
<1>1. AreBits(b, 8 + w)
  <2>1. ASSUME NEW i \in 0 .. (8 + w) - 1 PROVE b[i] \in {0, 1}
    <3>1. i % 8 \in Nat /\ b[i] = Bit(1, i % 8)
      OBVIOUS
    <3> QED  BY <3>1, BitIn
  <2> QED  BY <2>1 DEF AreBits
<1>2. \A i \in 0 .. w - 1 : c[i] = b[8 + i]
  <2>1. ASSUME NEW i \in 0 .. w - 1 PROVE c[i] = b[8 + i]
    <3>1. 8 + i \in 0 .. (8 + w) - 1 /\ (8 + i) % 8 = i % 8
      OBVIOUS
    <3> QED  BY <3>1
  <2> QED  BY <2>1
<1>3. b[0] = 1 /\ b[1] = 0 /\ b[2] = 0 /\ b[3] = 0 /\ b[4] = 0 /\ b[5] = 0 /\ b[6] = 0 /\ b[7] = 0
  <2>1. /\ 0 % 8 = 0 /\ 1 % 8 = 1 /\ 2 % 8 = 2 /\ 3 % 8 = 3 /\ 4 % 8 = 4 /\ 5 % 8 = 5 /\ 6 % 8 = 6 /\ 7 % 8 = 7
    OBVIOUS
  <2>2. \A i \in 0 .. 7 : b[i] = Bit(1, i % 8)
    OBVIOUS
  <2> HIDE DEF b
  <2>3. /\ b[0] = Bit(1, 0 % 8) /\ b[1] = Bit(1, 1 % 8) /\ b[2] = Bit(1, 2 % 8) /\ b[3] = Bit(1, 3 % 8)
        /\ b[4] = Bit(1, 4 % 8) /\ b[5] = Bit(1, 5 % 8) /\ b[6] = Bit(1, 6 % 8) /\ b[7] = Bit(1, 7 % 8)
    BY <2>2
  <2> QED  BY <2>1, <2>3, PatternBits
<1>4. Bytes1(8 + w) = FromBits(b, 8 + w) /\ Bytes1(w) = FromBits(c, w)
  BY DEF Bytes1, Repeat
<1> HIDE DEF b, c
<1>5. FromBits(c, w) \in Nat /\ FromBits(b, 8 + w) = FromBits(b, 8) + PowerOf2(8) * FromBits(c, w)
  BY <1>1, <1>2, FromBitsSplit
<1>6. FromBits(b, 8) = 1
  <2>1. AreBits(b, 8)
    BY <1>1 DEF AreBits
  <2>2. FromBits(b, 8) = b[0] + 2 * b[1] + 4 * b[2] + 8 * b[3] + 16 * b[4] + 32 * b[5] + 64 * b[6] + 128 * b[7]
    BY <2>1, ByteSums
  <2> QED  BY <1>3, <2>2
<1> QED  BY <1>4, <1>5, <1>6, PowersSmall

\* The product with it: the top byte is t, the ones so far; what is below it, l, stays below.
AddsTo(R, P, s, t, l, k) ==
  /\ 256 * (s * R) = t * P + 256 * l + 256 * (P * k)
  /\ 256 * l + t <= t * R
BytesAdd(w, s, t) == \E l, k \in Nat : AddsTo(Bytes1(w), PowerOf2(w), s, t, l, k)

\* The same by names: the factor that repeats the one, and the sum one byte further.
AllOnes(R, P)          == P = 255 * R + 1
AddsFor(R, P, s, t)    == \E l, k \in Nat : AddsTo(R, P, s, t, l, k)
NextAdds(R, P, s, t, c) == AddsFor(1 + 256 * R, 256 * P, c + 256 * s, c + t)

LEMMA AddsByte ==
  ASSUME NEW R \in Nat, NEW P \in Nat, AllOnes(R, P), NEW s \in Nat, NEW t \in Nat, AddsFor(R, P, s, t), NEW c \in Nat
  PROVE  NextAdds(R, P, s, t, c)
<1>0. PICK l \in Nat, k \in Nat : AddsTo(R, P, s, t, l, k)
  BY Zenon DEF AddsFor
<1>a. P = 255 * R + 1
  BY DEF AllOnes
<1> DEFINE cR == c * R  tR == t * R  sR == s * R  cP == c * P  tP == t * P  sP == s * P  Pk == P * k
           m == cR + 256 * l  n == s + k
<1>1. /\ cR \in Nat /\ tR \in Nat /\ sR \in Nat /\ cP \in Nat /\ tP \in Nat /\ sP \in Nat /\ Pk \in Nat
      /\ 256 * sR = tP + 256 * l + 256 * Pk /\ 256 * l + t <= tR
  BY <1>0 DEF AddsTo
<1>2. cP = 255 * cR + c /\ sP = 255 * sR + s
  <2>1. c * (255 * R + 1) = 255 * (c * R) + c /\ s * (255 * R + 1) = 255 * (s * R) + s
    OBVIOUS
  <2> QED  BY <1>a, <2>1
<1>3. (c + 256 * s) * (1 + 256 * R) = c + 256 * cR + 256 * s + 65536 * sR
  OBVIOUS
<1>4. (c + t) * (256 * P) = 256 * cP + 256 * tP
  OBVIOUS
<1>5. (256 * P) * n = 256 * sP + 256 * Pk
  OBVIOUS
<1>6. (c + t) * (1 + 256 * R) = (c + t) + 256 * cR + 256 * tR
  OBVIOUS
<1>7. m \in Nat /\ n \in Nat /\ m = cR + 256 * l
  BY <1>1
<1> HIDE DEF cR, tR, sR, cP, tP, sP, Pk, m, n
<1>8. 256 * ((c + 256 * s) * (1 + 256 * R)) = (c + t) * (256 * P) + 256 * m + 256 * ((256 * P) * n)
  <2>1. 256 * (c + 256 * cR + 256 * s + 65536 * sR) = (256 * cP + 256 * tP) + 256 * m + 256 * (256 * sP + 256 * Pk)
    BY <1>1, <1>2, <1>7
  <2> QED  BY <1>3, <1>4, <1>5, <2>1
<1>9. 256 * m + (c + t) <= (c + t) * (1 + 256 * R)
  <2>1. 256 * m + (c + t) <= (c + t) + 256 * cR + 256 * tR
    BY <1>1, <1>7
  <2> QED  BY <1>6, <2>1
<1>10. AddsTo(1 + 256 * R, 256 * P, c + 256 * s, c + t, m, n)
  BY <1>8, <1>9, Zenon DEF AddsTo
<1> QED  BY <1>7, <1>10, Zenon DEF NextAdds, AddsFor

\* The next byte of sums, its hypotheses under a name.
SmallNibble(z)    == z % 16 <= 4
BytesJoin(w, lo, hi, z) == InBytes(8 + w, Joined(lo + 16 * hi, z)) = Joined(lo + hi, InBytes(w, z))
OfNibble          == 0 .. 4

LEMMA BytesTaken ==
  ASSUME NEW w \in Nat, NEW lo \in OfNibble, NEW hi \in OfNibble, NEW z \in Nat, SmallNibble(z)
  PROVE  BytesJoin(w, lo, hi, z)
BY BytesSplit DEF OfNibble, SmallNibble, BytesJoin

\* The sums of x over w bits, and the product that adds them up.
Counted(w, x) ==
  LET p == InPairs(w, x)
      q == InNibbles(w, p)
      s == InBytes(w, q)
  IN  /\ p \in Nat /\ q \in Nat /\ q % 16 <= 4 /\ s \in Nat
      /\ Ones(x, w) \in 0 .. w /\ BytesAdd(w, s, Ones(x, w))

LEMMA NoBits ==
  /\ Bytes1(0) = 0 /\ Counted(0, 0)
<1>1. \A a, b \in Nat : Repeat(0, a, b) = 0
  <2>1. ASSUME NEW a \in Nat, NEW b \in Nat PROVE Repeat(0, a, b) = 0
    BY FromBitsNone, Zenon DEF Repeat
  <2> QED  BY <2>1
<1>2. \A a, b : And(0, a, b) = 0
  BY FromBitsNone, Zenon DEF And
<1>3. InPairs(0, 0) = 0
  <2>1. InPairs(0, 0) = 0 - And(0, 0 \div 2, Repeat(0, 2, 1))
    BY DEF InPairs
  <2>2. And(0, 0 \div 2, Repeat(0, 2, 1)) = 0
    BY <1>2
  <2> QED  BY <2>1, <2>2
<1>4. InNibbles(0, 0) = 0
  <2>1. InNibbles(0, 0) = And(0, 0, Repeat(0, 4, 3)) + And(0, 0 \div 4, Repeat(0, 4, 3))
    BY DEF InNibbles
  <2>2. And(0, 0, Repeat(0, 4, 3)) = 0 /\ And(0, 0 \div 4, Repeat(0, 4, 3)) = 0
    BY <1>2
  <2> QED  BY <2>1, <2>2
<1>5. InBytes(0, 0) = 0
  BY <1>2 DEF InBytes
<1>6. Ones(0, 0) = 0
  BY OnesOf
<1>7. Bytes1(0) = 0
  BY <1>1 DEF Bytes1
<1>8. BytesAdd(0, 0, 0)
  <2>1. AddsTo(0, 1, 0, 0, 0, 0)
    BY DEF AddsTo
  <2>2. \E l, k \in Nat : AddsTo(0, 1, 0, 0, l, k)
    BY <2>1
  <2> QED  BY <1>7, <2>2, PowersSmall DEF BytesAdd
<1>9. 0 % 16 <= 4 /\ 0 \in 0 .. 0 /\ 0 \in Nat
  OBVIOUS
<1>10. Counted(0, 0)
  BY <1>3, <1>4, <1>5, <1>6, <1>8, <1>9, Zenon DEF Counted
<1> QED  BY <1>7, <1>10

LEMMA CountedByte ==
  ASSUME NEW w \in Nat, PowerOf2(w) = 255 * Bytes1(w) + 1, NEW y \in Nat, y < 256, NEW z \in Nat, Counted(w, z)
  PROVE  Counted(8 + w, Joined(y, z))
<1> DEFINE p == InPairs(w, z)  q == InNibbles(w, p)  s == InBytes(w, q)  t == Ones(z, w)
           x == Joined(y, z)  v == InPairs(8, y)
<1>1. p \in Nat /\ q \in Nat /\ q % 16 <= 4 /\ s \in Nat /\ t \in 0 .. w /\ BytesAdd(w, s, t)
  BY DEF Counted
<1>2. PICK lo \in 0 .. 4, hi \in 0 .. 4 :
        v \in Nat /\ v < 256 /\ InNibbles(8, v) = lo + 16 * hi /\ lo + hi = ByteOnes(y)
  BY ByteCounted
<1>3. InPairs(8 + w, x) = Joined(v, p)
  BY PairsSplit
<1>4. Ones(x, 8 + w) = (lo + hi) + t
  BY <1>2, OnesJoined
<1> HIDE DEF p, v, x, t
<1>5. InNibbles(8 + w, Joined(v, p)) = Joined(lo + 16 * hi, q)
  BY <1>1, <1>2, NibblesSplit
<1> HIDE DEF q
<1>6. InBytes(8 + w, Joined(lo + 16 * hi, q)) = Joined(lo + hi, s)
  <2>1. q \in Nat /\ q % 16 <= 4
    BY <1>1
  <2>2. lo \in OfNibble /\ hi \in OfNibble /\ SmallNibble(q)
    BY <2>1 DEF OfNibble, SmallNibble
  <2>3. BytesJoin(w, lo, hi, q)
    BY <2>1, <2>2, BytesTaken
  <2> QED  BY <2>3, Zenon DEF BytesJoin
<1> HIDE DEF s
<1> DEFINE c == lo + hi  R == Bytes1(w)  P == PowerOf2(w)
<1>c. c \in Nat /\ c <= 8
  <2>1. lo \in Nat /\ hi \in Nat /\ lo <= 4 /\ hi <= 4
    OBVIOUS
  <2> QED  BY <2>1
<1>r. R \in Nat /\ Bytes1(8 + w) = 1 + 256 * R
  BY Bytes1Split
<1>p. P = 255 * R + 1
  OBVIOUS
<1> HIDE DEF c, R, P
<1>t. t \in Nat /\ t <= w
  BY <1>1
<1>7. c \in Nat /\ c <= 8 /\ R \in Nat /\ P \in Nat /\ Bytes1(8 + w) = 1 + 256 * R /\ t \in Nat /\ P = 255 * R + 1
  BY <1>c, <1>r, <1>p, <1>t
<1>8. PowerOf2(8 + w) = 256 * P
  <2>1. PowerOf2(8 + w) = PowerOf2(8) * PowerOf2(w)
    BY PowerOf2Add
  <2>2. PowerOf2(8 + w) = 256 * PowerOf2(w)
    BY <2>1, PowersSmall
  <2> QED  BY <2>2 DEF P
<1>9. AddsFor(R, P, s, t)
  BY <1>1, Zenon DEF BytesAdd, AddsFor, R, P
<1>10. NextAdds(R, P, s, t, c)
  <2>1. s \in Nat
    BY <1>1
  <2>2. R \in Nat /\ P \in Nat /\ t \in Nat /\ c \in Nat
    BY <1>7
  <2>3. AllOnes(R, P)
    BY <1>7 DEF AllOnes
  <2> QED  BY <2>1, <2>2, <2>3, <1>9, AddsByte
<1>11. BytesAdd(8 + w, c + 256 * s, c + t)
  <2>1. AddsFor(Bytes1(8 + w), PowerOf2(8 + w), c + 256 * s, c + t)
    BY <1>r, <1>8, <1>10, Zenon DEF NextAdds
  <2> QED  BY <2>1, Zenon DEF BytesAdd, AddsFor
<1>12. Joined(c, s) = c + 256 * s
  BY DEF Joined
<1>13. Joined(v, p) \in Nat /\ Joined(lo + 16 * hi, q) \in Nat /\ Joined(c, s) \in Nat
  BY <1>1, <1>2, <1>7 DEF Joined
<1>14. Joined(lo + 16 * hi, q) % 16 <= 4
  <2> DEFINE g == hi + 16 * q
  <2>1. g \in Nat /\ Joined(lo + 16 * hi, q) = lo + 16 * g
    BY <1>1 DEF Joined
  <2> HIDE DEF g
  <2>2. (lo + 16 * g) % 16 = lo
    BY <2>1
  <2> QED  BY <2>1, <2>2
<1>15. c + t \in 0 .. 8 + w
  BY <1>1, <1>7
<1>16. /\ InPairs(8 + w, x) = Joined(v, p) /\ InNibbles(8 + w, Joined(v, p)) = Joined(lo + 16 * hi, q)
       /\ InBytes(8 + w, Joined(lo + 16 * hi, q)) = Joined(c, s) /\ Ones(x, 8 + w) = c + t
  BY <1>3, <1>4, <1>5, <1>6 DEF c
<1>17. Counted(8 + w, x)
  BY <1>11, <1>12, <1>13, <1>14, <1>15, <1>16, Zenon DEF Counted
<1> QED  BY <1>17 DEF x

\* Every number of n bytes.
CountedAll(n) ==
  /\ PowerOf2(8 * n) = 255 * Bytes1(8 * n) + 1
  /\ \A x \in 0 .. PowerOf2(8 * n) - 1 : Counted(8 * n, x)

LEMMA AllCounted == ASSUME NEW n \in Nat PROVE CountedAll(n)
<1> DEFINE Q == {i \in Nat : CountedAll(i)}
<1>1. 0 \in Q
  <2>1. 8 * 0 = 0 /\ PowerOf2(0) = 1
    BY PowersSmall
  <2>2. \A x \in 0 .. 1 - 1 : x = 0
    OBVIOUS
  <2>3. 1 = 255 * 0 + 1
    OBVIOUS
  <2>4. CountedAll(0)
    BY <2>1, <2>2, <2>3, NoBits, Zenon DEF CountedAll
  <2> QED  BY <2>4
<1>2. ASSUME NEW i \in 1 .. n, i - 1 \in Q PROVE i \in Q
  <2> DEFINE w == 8 * (i - 1)  P == PowerOf2(w)  R == Bytes1(w)
  <2>1. w \in Nat /\ 8 * i = 8 + w /\ i \in Nat
    OBVIOUS
  <2>2. P = 255 * R + 1 /\ \A z \in 0 .. P - 1 : Counted(w, z)
    BY <1>2 DEF CountedAll
  <2>w. P = PowerOf2(w) /\ R = Bytes1(w)
    OBVIOUS
  <2> HIDE DEF w, P, R
  <2>3. P \in Nat /\ PowerOf2(8 + w) = 256 * P /\ R \in Nat /\ Bytes1(8 + w) = 1 + 256 * R
    <3>1. PowerOf2(8 + w) = PowerOf2(8) * PowerOf2(w)
      BY <2>1, PowerOf2Add
    <3> QED  BY <2>1, <2>w, <3>1, PowersSmall, PowerOf2Of, Bytes1Split
  <2>4. PowerOf2(8 + w) = 255 * Bytes1(8 + w) + 1
    BY <2>2, <2>3
  <2>5. ASSUME NEW x \in 0 .. PowerOf2(8 + w) - 1 PROVE Counted(8 + w, x)
    <3> DEFINE y == x % 256  z == x \div 256
    <3>1. y \in Nat /\ y < 256 /\ z \in Nat /\ x = y + 256 * z
      BY <2>3
    <3>2. z \in 0 .. P - 1
      BY <2>3, <3>1
    <3> HIDE DEF y, z
    <3>3. Counted(w, z)
      BY <2>2, <3>2
    <3>4. Counted(8 + w, Joined(y, z))
      BY <2>1, <2>2, <2>w, <3>1, <3>3, CountedByte
    <3>5. x = Joined(y, z)
      BY <3>1 DEF Joined
    <3> QED  BY <3>4, <3>5, Zenon
  <2>6. CountedAll(i)
    BY <2>1, <2>4, <2>5, Zenon DEF CountedAll
  <2> QED  BY <2>1, <2>6
<1> HIDE DEF Q
<1>3. \A i \in 0 .. n : i \in Q
  BY <1>1, <1>2, SetInduction
<1>4. n \in Q
  BY <1>3
<1> QED  BY <1>4 DEF Q

\* The top byte of the product.
LEMMA TopByteOf ==
  ASSUME NEW w \in Nat, w >= 8, PowerOf2(w) = 255 * Bytes1(w) + 1,
         NEW s \in Nat, NEW t \in 0 .. 255, BytesAdd(w, s, t)
  PROVE  TopByte(w, s) = t
<1> DEFINE R == Bytes1(w)  P == PowerOf2(w)  h == PowerOf2(w - 8)
<1>1. R \in Nat /\ P \in Nat /\ P = 255 * R + 1 /\ h \in Nat \ {0} /\ P = 256 * h
  <2>1. w - 8 \in Nat /\ 8 + (w - 8) = w
    OBVIOUS
  <2>2. PowerOf2(8 + (w - 8)) = PowerOf2(8) * PowerOf2(w - 8)
    BY <2>1, PowerOf2Add
  <2>3. P = 256 * h
    BY <2>1, <2>2, PowersSmall
  <2>4. h \in Nat \ {0} /\ R \in Nat
    BY <2>1, PowerOf2Positive, Bytes1Split
  <2> QED  BY <2>3, <2>4
<1>2. PICK l \in Nat, k \in Nat : AddsTo(R, P, s, t, l, k)
  BY DEF BytesAdd
<1>3. TopByte(w, s) = ((s * R) % P) \div h
  BY DEF TopByte, Bytes1
<1> HIDE DEF R, P, h
<1> DEFINE sR == s * R  tP == t * P  Pk == P * k  tR == t * R  th == t * h
<1>4. sR \in Nat /\ Pk \in Nat /\ tR \in Nat /\ th \in Nat /\ 256 * sR = tP + 256 * l + 256 * Pk /\ 256 * l + t <= tR
  BY <1>1, <1>2 DEF AddsTo
<1>5. tP = 256 * th
  BY <1>1
<1>6. tR <= 255 * R
  <2>1. R * t <= R * 255 /\ R * t = t * R
    BY <1>1, Products
  <2> QED  BY <1>1, <2>1
<1>7. t * h + h <= 256 * h
  <2>1. h * (t + 1) <= h * 256 /\ h * (t + 1) = t * h + h
    BY <1>1, Products
  <2> QED  BY <1>1, <2>1
<1>p. Pk = k * P
  BY <1>1
<1>s. sR = s * R
  OBVIOUS
<1>h. th = t * h
  OBVIOUS
<1> HIDE DEF sR, tP, Pk, tR, th
<1>8. l < h
  BY <1>1, <1>4, <1>6
<1>9. sR = k * P + (th + l) /\ th + l < P /\ th + l \in Nat
  BY <1>1, <1>4, <1>5, <1>7, <1>8, <1>h, <1>p
<1>10. sR % P = th + l
  <2> DEFINE r == th + l
  <2>1. r \in Nat /\ r < P /\ sR = k * P + r /\ P \in Nat \ {0}
    <3>1. P \in Nat \ {0}
      BY <1>1
    <3> QED  BY <1>9, <3>1
  <2> HIDE DEF r
  <2>2. sR % P = r
    BY <1>4, <2>1, Remainder
  <2> QED  BY <2>2 DEF r
<1>11. (th + l) \div h = t
  <2> DEFINE n == th + l
  <2>1. n \in Nat /\ t * h <= n /\ n < t * h + h /\ t \in Nat
    BY <1>1, <1>8, <1>9, <1>h
  <2> HIDE DEF n
  <2>2. n \div h = t
    BY <1>1, <2>1, DivisionUnique
  <2> QED  BY <2>2 DEF n
<1> QED  BY <1>3, <1>10, <1>11, <1>s, Zenon

LEMMA PopulationOf ==
  ASSUME NEW x \in 0 .. PowerOf2(SwarBits) - 1
  PROVE  Population(x) = Ones(x, SwarBits)
<1> DEFINE n == SwarBits \div 8
<1>1. n \in Nat /\ SwarBits = 8 * n /\ SwarBits \in Nat /\ SwarBits >= 8 /\ SwarBits < 256
  BY WordAssumption
<1> HIDE DEF n
<1>2. PowerOf2(SwarBits) = 255 * Bytes1(SwarBits) + 1 /\ Counted(SwarBits, x)
  <2>1. CountedAll(n)
    BY <1>1, AllCounted
  <2>2. PowerOf2(8 * n) = 255 * Bytes1(8 * n) + 1 /\ \A z \in 0 .. PowerOf2(8 * n) - 1 : Counted(8 * n, z)
    BY <2>1, Zenon DEF CountedAll
  <2> QED  BY <1>1, <2>2, Zenon
<1> DEFINE s == InBytes(SwarBits, InNibbles(SwarBits, InPairs(SwarBits, x)))  t == Ones(x, SwarBits)
<1>3. s \in Nat /\ t \in 0 .. SwarBits /\ BytesAdd(SwarBits, s, t)
  BY <1>2, Zenon DEF Counted
<1>4. Population(x) = TopByte(SwarBits, s)
  BY DEF Population
<1> HIDE DEF s, t
<1>5. t \in 0 .. 255
  BY <1>1, <1>3
<1>6. TopByte(SwarBits, s) = t
  BY <1>1, <1>2, <1>3, <1>5, TopByteOf
<1> QED  BY <1>4, <1>6 DEF t

CountRight(t) == t.count = Cardinality({i \in 0 .. SwarBits - 1 : Bit(t.x, i) = 1})

LEMMA CallPopulationOf ==
  ASSUME CallPopulation
  PROVE  task'.op = "population" /\ CountRight(task')
<1>1. PICK x \in SwarWords : Enter([op |-> "population", status |-> "ok", x |-> x, count |-> Population(x)])
  BY DEF CallPopulation
<1>2. task'.op = "population" /\ task'.x = x /\ task'.count = Population(x)
  BY <1>1 DEF Enter
<1>3. x \in 0 .. PowerOf2(SwarBits) - 1
  BY WordAssumption
<1>4. Population(x) = Cardinality({i \in 0 .. SwarBits - 1 : Bit(x, i) = 1})
  BY <1>3, PopulationOf, Zenon DEF Ones, OnesSet
<1> QED  BY <1>2, <1>4, Zenon DEF CountRight

-----------------------------------------------------------------------------
(* Words: the invariant and the theorem *)

\* A call keeps its arguments, and what its loop has made of them so far.
WordInv(t) ==
  /\ t.op \in {"add", "sub", "mul"} => PairRight(t)
  /\ t.op = "compare" => OrderRight(t)
  /\ t.op = "div" => DivInv(t)
  /\ t.op = "inverse" => InverseInv(t)
  /\ t.op = "modmul" => ModMulInv(t)
  /\ t.op = "scan" => ScanRight(t)
  /\ t.op = "population" => CountRight(t)

WIInv == WordInv(task)

LEMMA NoWord == ASSUME NEW t, t.op \notin ArithOps PROVE WordInv(t)
BY DEF WordInv, ArithOps

LEMMA WordBegins ==
  ASSUME ArithBegins
  PROVE  WordInv(task')
<1>1. CASE CallPairwise
  BY <1>1, CallPairwiseOf DEF WordInv
<1>2. CASE CallCompare
  BY <1>2, CallCompareOf DEF WordInv
<1>3. CASE CallDivide
  <2>1. DivInv(task') /\ task'.op = "div"
    BY <1>3, CallDivideOf DEF DivInv, DivRecord
  <2> QED  BY <2>1 DEF WordInv
<1>4. CASE CallInverse
  <2>1. InverseInv(task') /\ task'.op = "inverse"
    BY <1>4, CallInverseOf DEF InverseInv
  <2> QED  BY <2>1 DEF WordInv
<1>5. CASE CallModMul
  <2>1. ModMulInv(task') /\ task'.op = "modmul"
    BY <1>5, CallModMulOf DEF ModMulInv, ModMulRecord
  <2> QED  BY <2>1 DEF WordInv
<1>6. CASE CallScan
  BY <1>6, CallScanOf DEF WordInv
<1>7. CASE CallPopulation
  BY <1>7, CallPopulationOf DEF WordInv
<1> QED  BY <1>1, <1>2, <1>3, <1>4, <1>5, <1>6, <1>7 DEF ArithBegins

LEMMA WordStep ==
  ASSUME WordInv(task), ArithSteps
  PROVE  WordInv(task')
<1>1. CASE Divide
  <2>1. DivInv(task) /\ task.status = "running" /\ task.i < W /\ task' = DivPass(task)
    BY <1>1 DEF Divide, During, Running, WordInv
  <2>2. DivInv(task')
    BY <2>1, DivPassOf, Zenon
  <2>3. task'.op = "div"
    BY <2>2 DEF DivInv, DivRecord
  <2> QED  BY <2>2, <2>3 DEF WordInv
<1>2. CASE DivideEnds
  <2>1. DivInv(task) /\ task.status = "running" /\ task.i = W
    BY <1>2 DEF DivideEnds, During, Running, WordInv
  <2>2. task' = [task EXCEPT !.status = "ok", !.quot = IF task.over = 1 THEN MaxWord ELSE task.quot,
                             !.rem = IF task.over = 1 THEN 0 ELSE task.rem]
    BY <1>2, Zenon DEF DivideEnds
  <2>3. DivInv(task')
    BY <2>1, <2>2, DivideEndsOf, Zenon
  <2>4. task'.op = "div"
    BY <2>3 DEF DivInv, DivRecord
  <2> QED  BY <2>3, <2>4 DEF WordInv
<1>3. CASE Invert
  <2>1. InverseInv(task) /\ task.status = "running"
    BY <1>3 DEF Invert, During, Running, WordInv
  <2>2. task' = [task EXCEPT !.res = InverseStep(task.x, task.res), !.i = task.i + 1,
                             !.status = IF task.i + 1 = 3 THEN "ok" ELSE "running"]
    BY <1>3, Zenon DEF Invert
  <2>3. InverseInv(task')
    BY <2>1, <2>2, InvertOf, Zenon
  <2>4. task'.op = "inverse"
    BY <2>3 DEF InverseInv
  <2> QED  BY <2>3, <2>4 DEF WordInv
<1>4. CASE ModMul
  <2> DEFINE more == DoubledMod(task.res, task.mod) + Bit(task.low, task.i)
  <2>1. ModMulInv(task) /\ task.status = "running"
    BY <1>4 DEF ModMul, During, Running, WordInv
  <2>2. task' = [task EXCEPT !.res = IF more >= task.mod THEN more - task.mod ELSE more,
                             !.i = task.i + 1, !.status = IF task.i + 1 = W THEN "ok" ELSE "running"]
    BY <1>4, Zenon DEF ModMul
  <2>3. ModMulInv(task')
    BY <2>1, <2>2, ModMulOf, Zenon
  <2>4. task'.op = "modmul"
    BY <2>3 DEF ModMulInv, ModMulRecord
  <2> QED  BY <2>3, <2>4 DEF WordInv
<1> QED  BY <1>1, <1>2, <1>3, <1>4 DEF ArithSteps

LEMMA WordNext == IInv /\ WIInv /\ [Next]_task => WIInv'
<1> SUFFICES ASSUME CallInv(task), WordInv(task), [Next]_task PROVE WordInv(task')
  BY DEF IInv, WIInv
<1>0. "op" \in DOMAIN task
  BY DEF CallInv
<1>1. CASE EntropyBegins \/ EntropySteps
  <2>1. task'.op \in EntropyOps
    BY <1>1, EntropyBegun, EntropyContinues
  <2> QED  BY <2>1, NoWord DEF EntropyOps, Fillers, Sources, ArithOps
<1>2. CASE CryptUtilBegins \/ RootBegins \/ PrimeBegins \/ CryptBegins
  <2>1. task'.op \in UtilOps \cup {"root", "prime", "crypt"}
    BY <1>2, CryptUtilBegun, RootBegun, PrimeBegun, CryptBegun DEF Plain
  <2> QED  BY <2>1, NoWord DEF ArithOps, UtilOps
<1>3. CASE RootSteps \/ PrimeSteps \/ CryptSteps
  <2>1. task'.op \in {"root", "prime", "crypt"}
    BY <1>0, <1>3, RootContinues, PrimeContinues, CryptContinues DEF Continues
  <2> QED  BY <2>1, NoWord DEF ArithOps
<1>4. CASE ArithBegins
  BY <1>4, WordBegins
<1>5. CASE ArithSteps
  BY <1>5, WordStep
<1>6. CASE Leave
  BY <1>6, NoWord DEF Leave, Idle, ArithOps
<1>7. CASE UNCHANGED task
  BY <1>7
<1> QED  BY <1>1, <1>2, <1>3, <1>4, <1>5, <1>6, <1>7 DEF Next, Begin, Step

LEMMA WordInit == Init => WIInv
BY NoWord DEF Init, Idle, WIInv, ArithOps

\* What a call of the word arithmetic keeps true: long division in every pass, the
\* bits of an inverse that are right so far, the part of a low word a modular product
\* has taken in.
THEOREM WordInvariant == Spec => []WIInv
BY EntropyInvariant, WordInit, WordNext, PTL DEF Spec

LEMMA WordsTyped == WIInv => ArithTypeOK
<1> SUFFICES ASSUME WordInv(task) PROVE ArithTypeOK
  BY DEF WIInv
<1>1. ASSUME task.op = "div" PROVE {task.quot, task.rem, task.low} \subseteq Words /\ task.i \in 0 .. W
  BY <1>1 DEF WordInv, DivInv, DivRecord
<1>2. ASSUME task.op = "modmul" PROVE task.res \in Words /\ task.i \in 0 .. W
  BY <1>2, ModMulInvSound DEF WordInv
<1>3. ASSUME task.op = "inverse" PROVE task.res \in 0 .. PowerOf2(InverseBits) - 1
  BY <1>3, InverseInvSound DEF WordInv, InverseWords
<1> QED  BY <1>1, <1>2, <1>3 DEF ArithTypeOK

\* The word arithmetic computes what its names say: sums, differences and products
\* with their carry, borrow or high word, signed and unsigned comparisons without a
\* branch, wide quotients with the flag of one that has no word, inverses, modular
\* products, the first and last one bit, the bytes turned round and the ones counted;
\* in every kit, for every even width of a word, every word, and every length of the
\* loops (_vanillc_arith.c:23-110, _crt_vanillc_arith.c, _crt_vanillc_cmp.c:23-46,
\* _vanillc_marith.c:22-48, _vanillc_bitops.c:22-75, _crt_vanillc_bitops.c:24-81).
THEOREM WordsSound == Spec => []WordsExact
<1>1. WIInv => PairsExact
  BY DEF WIInv, WordInv, PairRight, PairsExact
<1>2. WIInv => ComparisonsExact
  BY Zenon DEF WIInv, WordInv, OrderRight, ComparisonsExact
<1>3. WIInv => QuotientExact
  <2>1. CASE task.op = "div"
    BY <2>1, DivInvSound DEF WIInv, WordInv
  <2>2. CASE task.op # "div"
    BY <2>2 DEF QuotientExact
  <2> QED  BY <2>1, <2>2
<1>4. WIInv => InverseExact
  <2>1. CASE task.op = "inverse"
    BY <2>1, InverseInvSound DEF WIInv, WordInv
  <2>2. CASE task.op # "inverse"
    BY <2>2 DEF InverseExact
  <2> QED  BY <2>1, <2>2
<1>5. WIInv => ModularProduct
  <2>1. CASE task.op = "modmul"
    BY <2>1, ModMulInvSound DEF WIInv, WordInv
  <2>2. CASE task.op # "modmul"
    BY <2>2 DEF ModularProduct
  <2> QED  BY <2>1, <2>2
<1>6. WIInv => ScansExact
  BY Zenon DEF WIInv, WordInv, ScanRight, CountRight, ScansExact
<1>7. WIInv => WordsExact
  BY <1>1, <1>2, <1>3, <1>4, <1>5, <1>6, WordsTyped DEF WordsExact
<1> QED  BY <1>7, WordInvariant, PTL
================================================================================
