------------------------------ MODULE BitsProofs ------------------------------
(***************************************************************************)
(* Proofs about the bitwise calls of BigIntBits: whatever calls follow each *)
(* other, the array keeps its contract, the calls leave a number that the   *)
(* next one accepts, and every call is, bit for bit, the operation of its   *)
(* name.  For every size of a limb, every capacity and any operands.        *)
(***************************************************************************)
EXTENDS BigIntBits, NaturalsInduction, WellFoundedInduction, TLAPS

-----------------------------------------------------------------------------
(* The inductive invariant: a number, in an array within the bound. *)

Numbers == [limbs : Seq(Limb), n : Nat, sign : {1, -1}]

Sound(h) == h \in Numbers /\ Cap(h) \in 1 .. MaxCap /\ h.n <= Cap(h)

IInv == Sound(x)

-----------------------------------------------------------------------------
(* Sequences and numbers *)

LEMMA Constants ==
  /\ Bits \in Nat \ {0} /\ 0 \in AllOnes /\ AllOnes \subseteq Nat
  /\ MaxCap \in Nat \ {0} /\ AllOnes \in Limb /\ {} \in Limb
  /\ LimbBytes * ByteBits = Bits /\ LimbBytes \in Nat /\ ByteBits \in Nat
<1>1. Bits \in Nat \ {0} /\ LimbBytes * ByteBits = Bits
  BY BitsAssumption DEF Bits
<1> QED  BY <1>1, BitsAssumption DEF AllOnes, Limb

\* An array of m limbs.
LEMMA ArrayIsSeq ==
  ASSUME NEW m \in Nat, NEW T, NEW f \in [1 .. m -> T]
  PROVE  f \in Seq(T) /\ Len(f) = m /\ DOMAIN f = 1 .. m
OBVIOUS

\* The fields of a sound number.
LEMMA SoundFields ==
  ASSUME NEW h, Sound(h)
  PROVE  /\ h = [limbs |-> h.limbs, n |-> h.n, sign |-> h.sign]
         /\ h.limbs \in Seq(Limb) /\ h.limbs \in [1 .. Cap(h) -> Limb] /\ DOMAIN h.limbs = 1 .. Cap(h)
         /\ Cap(h) \in Nat /\ Cap(h) >= 1 /\ Cap(h) <= MaxCap
         /\ h.n \in Nat /\ h.n <= Cap(h) /\ h.sign \in {1, -1}
         /\ \A i \in 1 .. Cap(h) : h.limbs[i] \in Limb /\ h.limbs[i] \subseteq AllOnes
BY Constants DEF Sound, Numbers, Cap, Limb

\* A number put together from its fields is sound.
LEMMA MadeSound ==
  ASSUME NEW c \in Nat, c >= 1, c <= MaxCap, NEW f \in [1 .. c -> Limb],
         NEW n \in Nat, n <= c, NEW s \in {1, -1},
         NEW h, h = [limbs |-> f, n |-> n, sign |-> s]
  PROVE  Sound(h) /\ Cap(h) = c
<1>1. f \in Seq(Limb) /\ Len(f) = c
  BY ArrayIsSeq
<1> QED  BY <1>1, Constants DEF Sound, Numbers, Cap

\* A number with all of its fields replaced, and with some of them.
LEMMA ExceptAll ==
  ASSUME NEW h, Sound(h), NEW f, NEW n, NEW s
  PROVE  [h EXCEPT !.limbs = f, !.n = n, !.sign = s] = [limbs |-> f, n |-> n, sign |-> s]
<1>1. PICK a, b, c : h = [limbs |-> a, n |-> b, sign |-> c]
  BY SoundFields
<1>2. PICK g : g = [h EXCEPT !.limbs = f]
  OBVIOUS
<1>3. PICK o : o = [g EXCEPT !.n = n]
  OBVIOUS
<1>4. [h EXCEPT !.limbs = f, !.n = n, !.sign = s] = [o EXCEPT !.sign = s]
  BY <1>2, <1>3, Zenon
<1>5. g = [limbs |-> f, n |-> b, sign |-> c]
  BY <1>1, <1>2
<1>6. o = [limbs |-> f, n |-> n, sign |-> c]
  BY <1>3, <1>5
<1>7. [o EXCEPT !.sign = s] = [limbs |-> f, n |-> n, sign |-> s]
  BY <1>6
<1> QED  BY <1>4, <1>7, Zenon

LEMMA ExceptLimbs ==
  ASSUME NEW h, Sound(h), NEW f, NEW n
  PROVE  [h EXCEPT !.limbs = f, !.n = n] = [limbs |-> f, n |-> n, sign |-> h.sign]
<1>1. PICK a, b, c : h = [limbs |-> a, n |-> b, sign |-> c]
  BY SoundFields
<1>2. PICK g : g = [h EXCEPT !.limbs = f]
  OBVIOUS
<1>3. [h EXCEPT !.limbs = f, !.n = n] = [g EXCEPT !.n = n]
  BY <1>2, Zenon
<1>4. g = [limbs |-> f, n |-> b, sign |-> c] /\ h.sign = c
  BY <1>1, <1>2
<1>5. [g EXCEPT !.n = n] = [limbs |-> f, n |-> n, sign |-> h.sign]
  BY <1>4
<1> QED  BY <1>3, <1>5, Zenon

LEMMA ExceptSign ==
  ASSUME NEW h, Sound(h), NEW n, NEW s
  PROVE  [h EXCEPT !.n = n, !.sign = s] = [limbs |-> h.limbs, n |-> n, sign |-> s]
<1>1. PICK a, b, c : h = [limbs |-> a, n |-> b, sign |-> c]
  BY SoundFields
<1>2. PICK k : k = [h EXCEPT !.n = n]
  OBVIOUS
<1>3. [h EXCEPT !.n = n, !.sign = s] = [k EXCEPT !.sign = s]
  BY <1>2, Zenon
<1>4. k = [limbs |-> a, n |-> n, sign |-> c] /\ h.limbs = a
  BY <1>1, <1>2
<1>5. [k EXCEPT !.sign = s] = [limbs |-> h.limbs, n |-> n, sign |-> s]
  BY <1>4
<1> QED  BY <1>3, <1>5, Zenon

LEMMA ExceptField ==
  ASSUME NEW h, Sound(h), NEW f
  PROVE  /\ [h EXCEPT !.limbs = f] = [limbs |-> f, n |-> h.n, sign |-> h.sign]
         /\ [h EXCEPT !.n = f] = [limbs |-> h.limbs, n |-> f, sign |-> h.sign]
         /\ [h EXCEPT !.sign = f] = [limbs |-> h.limbs, n |-> h.n, sign |-> f]
<1>1. PICK a, b, c : h = [limbs |-> a, n |-> b, sign |-> c]
  BY SoundFields
<1>2. h.limbs = a /\ h.n = b /\ h.sign = c
  BY <1>1
<1>3. /\ [h EXCEPT !.limbs = f] = [limbs |-> f, n |-> b, sign |-> c]
      /\ [h EXCEPT !.n = f] = [limbs |-> a, n |-> f, sign |-> c]
      /\ [h EXCEPT !.sign = f] = [limbs |-> a, n |-> b, sign |-> f]
  BY <1>1
<1> QED  BY <1>2, <1>3, Zenon

\* A set of numbers has a least element.
Less == {p \in Nat \X Nat : p[1] < p[2]}

LEMMA LeastElement ==
  ASSUME NEW S, S \subseteq Nat, S # {}
  PROVE  \E m \in S : \A k \in S : m <= k
<1>1. IsWellFoundedOn(Less, Nat)
  BY NatLessThanWellFounded DEF OpToRel, Less
<1>2. \E m \in S : \A k \in S : ~ (<<k, m>> \in Less)
  BY <1>1, WFMin
<1>3. \A k, m \in Nat : <<k, m>> \in Less <=> k < m
  BY DEF Less
<1>4. PICK m \in S : \A k \in S : ~ (<<k, m>> \in Less)
  BY <1>2
<1>5. \A k \in S : ~ (k < m) /\ k \in Nat /\ m \in Nat
  BY <1>3, <1>4
<1> QED  BY <1>5

\* The lemma the normalisation rests on: below the length there is a top limb
\* that is not zero, or no limb is.
LEMMA TopLimb ==
  ASSUME NEW f, NEW n \in Nat
  PROVE  \E m \in 0 .. n : /\ m > 0 => f[m] # {}
                           /\ \A i \in m + 1 .. n : f[i] = {}
<1> DEFINE S == {m \in 0 .. n : \A i \in m + 1 .. n : f[i] = {}}
<1>1. n \in S /\ S \subseteq Nat
  OBVIOUS
<1>2. PICK m \in S : \A k \in S : m <= k
  BY <1>1, LeastElement
<1>3. ASSUME m > 0, f[m] = {} PROVE FALSE
  <2>1. m - 1 \in 0 .. n /\ \A i \in (m - 1) + 1 .. n : f[i] = {}
    BY <1>2, <1>3
  <2>2. m - 1 \in S
    BY <2>1
  <2> QED  BY <1>2, <2>2
<1> QED  BY <1>2, <1>3

LEMMA NormalizedSound ==
  ASSUME NEW h, Sound(h)
  PROVE  /\ Sound(Normalized(h)) /\ ArithValid(Normalized(h))
         /\ Cap(Normalized(h)) = Cap(h) /\ Normalized(h).n <= h.n
<1> DEFINE Top(m) == /\ m > 0 => h.limbs[m] # {}
                     /\ \A i \in m + 1 .. h.n : h.limbs[i] = {}
           m == CHOOSE m \in 0 .. h.n : Top(m)
<1>1. h.n \in Nat
  BY SoundFields
<1>2. \E k \in 0 .. h.n : Top(k)
  BY <1>1, TopLimb
<1>3. m \in 0 .. h.n /\ Top(m)
  BY <1>2
<1>4. Normalized(h) = [h EXCEPT !.n = m, !.sign = IF m = 0 THEN 1 ELSE @]
  BY DEF Normalized
<1>5. m > 0 => h.limbs[m] # {}
  BY <1>3
<1> HIDE DEF m, Top
<1>6. Normalized(h) = [limbs |-> h.limbs, n |-> m, sign |-> IF m = 0 THEN 1 ELSE h.sign]
  BY <1>4, ExceptSign, Zenon
<1>7. m \in Nat /\ m <= h.n /\ m <= Cap(h)
  BY <1>1, <1>3, SoundFields
<1>8. ArithValid(Normalized(h))
  BY <1>5, <1>6, <1>7 DEF ArithValid
<1>9. Sound(Normalized(h)) /\ Cap(Normalized(h)) = Cap(h)
  <2>1. (IF m = 0 THEN 1 ELSE h.sign) \in {1, -1}
    BY SoundFields
  <2> QED  BY <1>6, <1>7, <2>1, SoundFields, MadeSound
<1> QED  BY <1>6, <1>7, <1>8, <1>9

LEMMA ResetSound ==
  ASSUME NEW h, Sound(h)
  PROVE  Sound(Reset(h)) /\ ArithValid(Reset(h))
<1> DEFINE f == [h.limbs EXCEPT ![1] = IF h.n > 0 THEN {} ELSE @]
           n == 0
           s == 1
<1>1. f \in [1 .. Cap(h) -> Limb]
  BY SoundFields, Constants
<1>2. Reset(h) = [limbs |-> f, n |-> n, sign |-> s]
  <2>1. Reset(h) = [h EXCEPT !.limbs = f, !.n = n, !.sign = s]
    BY DEF Reset
  <2> HIDE DEF f, n, s
  <2>2. [h EXCEPT !.limbs = f, !.n = n, !.sign = s] = [limbs |-> f, n |-> n, sign |-> s]
    BY ExceptAll, Zenon
  <2> QED  BY <2>1, <2>2, Zenon
<1> HIDE DEF f
<1>3. Sound(Reset(h))
  BY <1>1, <1>2, MadeSound, SoundFields
<1> QED  BY <1>2, <1>3 DEF ArithValid

LEMMA LowestSound ==
  ASSUME NEW h, Sound(h), NEW limb \in Limb
  PROVE  Sound(Lowest(h, limb)) /\ ArithValid(Lowest(h, limb)) /\ Cap(Lowest(h, limb)) = Cap(h)
<1> DEFINE f == [h.limbs EXCEPT ![1] = limb]
           n == IF limb = {} THEN 0 ELSE 1
           s == IF limb = {} THEN 1 ELSE h.sign
<1>1. f \in [1 .. Cap(h) -> Limb] /\ f[1] = limb
  BY SoundFields
<1>2. Lowest(h, limb) = [limbs |-> f, n |-> n, sign |-> s]
  <2>1. Lowest(h, limb) = [h EXCEPT !.limbs = f, !.n = n, !.sign = s]
    BY DEF Lowest
  <2> HIDE DEF f, n, s
  <2>2. [h EXCEPT !.limbs = f, !.n = n, !.sign = s] = [limbs |-> f, n |-> n, sign |-> s]
    BY ExceptAll, Zenon
  <2> QED  BY <2>1, <2>2, Zenon
<1>3. n \in Nat /\ n <= Cap(h) /\ s \in {1, -1}
  BY SoundFields
<1>4. n = 0 => s = 1
  OBVIOUS
<1>5. n # 0 => n = 1 /\ limb # {}
  OBVIOUS
<1> HIDE DEF f, n, s
<1>6. Sound(Lowest(h, limb)) /\ Cap(Lowest(h, limb)) = Cap(h)
  <2>1. Cap(h) \in Nat /\ Cap(h) >= 1 /\ Cap(h) <= MaxCap
    BY SoundFields
  <2> QED  BY <1>1, <1>2, <1>3, <2>1, MadeSound
<1> QED  BY <1>1, <1>2, <1>4, <1>5, <1>6 DEF ArithValid

\* A memset only sets bits, so a non-zero limb stays one.
LEMMA FilledSound ==
  ASSUME NEW h, Sound(h), NEW from, NEW m
  PROVE  /\ Sound(Filled(h, from, m)) /\ Cap(Filled(h, from, m)) = Cap(h)
         /\ ArithValid(h) => ArithValid(Filled(h, from, m))
<1> DEFINE new(i) == {b \in AllOnes : i > from /\ (i - from - 1) * Bits + b < m * ByteBits}
           f == [i \in DOMAIN h.limbs |-> h.limbs[i] \cup new(i)]
<1>1. \A i : new(i) \subseteq AllOnes
  OBVIOUS
<1>2. Filled(h, from, m) = [h EXCEPT !.limbs = f]
  BY DEF Filled
<1> HIDE DEF new
<1>3. f \in [1 .. Cap(h) -> Limb]
  BY <1>1, SoundFields DEF Limb
<1>4. \A i \in 1 .. Cap(h) : h.limbs[i] # {} => f[i] # {}
  BY SoundFields
<1> HIDE DEF f
<1>5. Filled(h, from, m) = [limbs |-> f, n |-> h.n, sign |-> h.sign]
  BY <1>2, SoundFields
<1>6. Sound(Filled(h, from, m)) /\ Cap(Filled(h, from, m)) = Cap(h)
  BY <1>3, <1>5, MadeSound, SoundFields
<1>7. ASSUME ArithValid(h) PROVE ArithValid(Filled(h, from, m))
  BY <1>4, <1>5, <1>7, SoundFields DEF ArithValid
<1> QED  BY <1>6, <1>7

\* What was ensured: the array is long enough, within the bound, and the number is the same.
LEMMA GrownSound ==
  ASSUME NEW h, Sound(h), NEW k \in Nat, NEW g \in Grown(h, k)
  PROVE  /\ Sound(g) /\ Cap(g) >= k /\ Cap(g) >= Cap(h) /\ g.n = h.n /\ g.sign = h.sign
         /\ \A i \in 1 .. Cap(h) : g.limbs[i] = h.limbs[i]
         /\ ArithValid(h) => ArithValid(g)
<1>1. PICK c \in k .. MaxCap : \E junk \in [1 .. c - Cap(h) -> Limb] : g = [h EXCEPT !.limbs = @ \o junk]
  BY Zenon DEF Grown
<1>1a. PICK junk \in [1 .. c - Cap(h) -> Limb] : g = [h EXCEPT !.limbs = @ \o junk]
  BY <1>1
<1> DEFINE d == IF c > Cap(h) THEN c - Cap(h) ELSE 0
<1>2. /\ d \in Nat /\ 1 .. c - Cap(h) = 1 .. d
      /\ Cap(h) + d >= k /\ Cap(h) + d >= Cap(h) /\ Cap(h) + d <= MaxCap
  <2>1. c \in Int /\ c >= k /\ c <= MaxCap /\ MaxCap \in Int
    BY Constants
  <2>2. Cap(h) \in Nat /\ Cap(h) <= MaxCap
    BY SoundFields
  <2>3. d \in Nat /\ Cap(h) + d >= k /\ Cap(h) + d >= Cap(h) /\ Cap(h) + d <= MaxCap
    BY <2>1, <2>2
  <2>4. CASE c > Cap(h)
    BY <2>1, <2>2, <2>3, <2>4
  <2>5. CASE ~(c > Cap(h))
    BY <2>1, <2>2, <2>5
  <2> QED  BY <2>3, <2>4, <2>5
<1> HIDE DEF d
<1>3. junk \in Seq(Limb) /\ Len(junk) = d
  BY <1>1a, <1>2, ArrayIsSeq
<1>4. g = [limbs |-> h.limbs \o junk, n |-> h.n, sign |-> h.sign]
  BY <1>1a, ExceptField, Zenon
<1>5. /\ h.limbs \o junk \in Seq(Limb) /\ Len(h.limbs \o junk) = Cap(h) + d
      /\ \A i \in 1 .. Cap(h) : (h.limbs \o junk)[i] = h.limbs[i]
  <2>1. h.limbs \in Seq(Limb) /\ Cap(h) = Len(h.limbs)
    BY SoundFields DEF Cap
  <2>2. /\ h.limbs \o junk \in Seq(Limb) /\ Len(h.limbs \o junk) = Len(h.limbs) + d
        /\ \A i \in 1 .. Len(h.limbs) : (h.limbs \o junk)[i] = h.limbs[i]
    BY <1>3, <2>1
  <2> QED  BY <2>1, <2>2
<1>6. Cap(g) = Cap(h) + d
  BY <1>4, <1>5 DEF Cap
<1>7. Sound(g)
  BY <1>2, <1>4, <1>5, <1>6, SoundFields, Constants DEF Sound, Numbers
<1>8. ASSUME ArithValid(h) PROVE ArithValid(g)
  <2>1. h.n \in Nat /\ h.n <= Cap(h) /\ Cap(h) \in Nat
    BY SoundFields
  <2>2. h.n # 0 => g.limbs[h.n] = h.limbs[h.n]
    <3>1. h.n # 0 => h.n \in 1 .. Cap(h)
      BY <2>1
    <3>2. g.limbs = h.limbs \o junk
      BY <1>4
    <3> QED  BY <1>5, <3>1, <3>2
  <2> QED  BY <1>4, <1>8, <2>2 DEF ArithValid
<1> QED  BY <1>2, <1>4, <1>5, <1>6, <1>7, <1>8

-----------------------------------------------------------------------------
(* The binary operations *)

LEMMA ApplyLimb ==
  ASSUME NEW f \in Functions, NEW a \in Limb, NEW b \in Limb
  PROVE  Apply(f, a, b, AllOnes) \in Limb
BY DEF Functions, Apply, Limb

\* The operands, as the loops see them.
LEMMA LimbOfSound ==
  ASSUME NEW h, Sound(h), NEW i \in Nat \ {0}
  PROVE  LimbOf(h, i) \in Limb
<1>1. h.n \in Nat /\ h.n <= Cap(h) /\ Cap(h) \in Nat /\ \A j \in 1 .. Cap(h) : h.limbs[j] \in Limb
  BY SoundFields
<1>2. i <= h.n => i \in 1 .. Cap(h)
  BY <1>1
<1> QED  BY <1>1, <1>2, Constants DEF LimbOf

LEMMA WordLimbsSound ==
  ASSUME NEW w \in Limb, NEW i \in 1 .. MaxCap
  PROVE  WordLimbs(w)[i] \in Limb
BY Constants DEF WordLimbs

LEMMA IntLimbsSound ==
  ASSUME NEW v \in IntWords, NEW i \in 1 .. MaxCap
  PROVE  IntLimbs(v)[i] \in Limb
<1>1. v.mag \in Limb
  BY DEF IntWords
<1> QED  BY <1>1, Constants DEF IntLimbs

\* An operand has an array, unless it is zero.
LEMMA OperandFields ==
  ASSUME NEW y \in Operands
  PROVE  /\ y.n \in Nat /\ y.n <= MaxCap /\ ArithValid(y) /\ y.sign \in {1, -1}
         /\ y.n > 0 => Sound(y)
         /\ \A i \in 1 .. y.n : y.limbs[i] \in Limb
         /\ \A i \in Nat \ {0} : LimbOf(y, i) \in Limb
<1>1. y \in Numbers /\ y.n = Cap(y) /\ Cap(y) <= MaxCap /\ ArithValid(y)
  BY BitsAssumption DEF Numbers
<1>2. y.limbs \in Seq(Limb) /\ y.n \in Nat /\ y.sign \in {1, -1} /\ y.n = Len(y.limbs)
  BY <1>1 DEF Numbers, Cap
<1>3. \A i \in 1 .. y.n : y.limbs[i] \in Limb
  BY <1>2
<1>4. y.n > 0 => Sound(y)
  BY <1>1, <1>2, Constants DEF Sound
<1>5. \A i \in Nat \ {0} : LimbOf(y, i) \in Limb
  BY <1>2, <1>3, Constants DEF LimbOf
<1> QED  BY <1>1, <1>2, <1>3, <1>4, <1>5

LEMMA NumberLimbsSound ==
  ASSUME NEW y \in Operands, NEW i \in 1 .. MaxCap
  PROVE  NumberLimbs(y)[i] \in Limb
<1>1. i \in Nat \ {0}
  BY Constants
<1> QED  BY <1>1, OperandFields DEF NumberLimbs

\* The loop of the calls in place, within the array.
LEMMA PointwiseSound ==
  ASSUME NEW f \in Functions, NEW h, Sound(h), NEW e, \A i \in 1 .. MaxCap : e[i] \in Limb,
         NEW k \in Nat, k <= Cap(h), NEW n \in Nat, n <= Cap(h)
  PROVE  /\ Sound(Pointwise(f, h, e, k, n)) /\ ArithValid(Pointwise(f, h, e, k, n))
         /\ Cap(Pointwise(f, h, e, k, n)) = Cap(h)
<1> DEFINE new(i) == Apply(f, LimbOf(h, i), e[i], AllOnes)
           l == [i \in DOMAIN h.limbs |-> IF i <= k THEN new(i) ELSE h.limbs[i]]
           g == [h EXCEPT !.limbs = l, !.n = n]
<1>1. \A i \in 1 .. Cap(h) : new(i) \in Limb
  <2> SUFFICES ASSUME NEW i \in 1 .. Cap(h) PROVE new(i) \in Limb
    OBVIOUS
  <2>1. i \in Nat \ {0} /\ i \in 1 .. MaxCap
    BY SoundFields, Constants
  <2>2. LimbOf(h, i) \in Limb /\ e[i] \in Limb
    BY <2>1, LimbOfSound
  <2> QED  BY <2>2, ApplyLimb
<1>2. Pointwise(f, h, e, k, n) = Normalized(g)
  BY DEF Pointwise
<1> HIDE DEF new
<1>3. l \in [1 .. Cap(h) -> Limb]
  BY <1>1, SoundFields
<1> HIDE DEF l
<1>4. g = [limbs |-> l, n |-> n, sign |-> h.sign]
  BY ExceptLimbs, Zenon
<1> HIDE DEF g
<1>5. Sound(g) /\ Cap(g) = Cap(h)
  BY <1>3, <1>4, MadeSound, SoundFields
<1> QED  BY <1>2, <1>5, NormalizedSound

LEMMA OneOfTwo ==
  ASSUME NEW a \in Nat, NEW b \in Nat
  PROVE  /\ Larger(a, b) \in Nat /\ Larger(a, b) >= a /\ Larger(a, b) >= b /\ Larger(a, b) \in {a, b}
         /\ Smaller(a, b) \in Nat /\ Smaller(a, b) <= a /\ Smaller(a, b) <= b
BY DEF Larger, Smaller

\* One limb of a number changed.
LEMMA FirstLimbSound ==
  ASSUME NEW h, Sound(h), NEW limb \in Limb
  PROVE  /\ Sound([h EXCEPT !.limbs[1] = limb])
         /\ ArithValid(h) /\ h.n > 0 /\ (h.n = 1 => limb # {}) => ArithValid([h EXCEPT !.limbs[1] = limb])
<1> DEFINE f == [h.limbs EXCEPT ![1] = limb]
           g == [h EXCEPT !.limbs = f]
<1>1. g = [h EXCEPT !.limbs[1] = limb]
  OBVIOUS
<1>2. f \in [1 .. Cap(h) -> Limb] /\ f[1] = limb /\ \A i \in 1 .. Cap(h) : i # 1 => f[i] = h.limbs[i]
  BY SoundFields
<1> HIDE DEF f
<1>3. g = [limbs |-> f, n |-> h.n, sign |-> h.sign]
  BY ExceptField, Zenon
<1> HIDE DEF g
<1>4. Sound(g)
  BY <1>2, <1>3, MadeSound, SoundFields
<1>5. ASSUME ArithValid(h), h.n > 0, h.n = 1 => limb # {} PROVE ArithValid(g)
  <2>1. h.n \in 1 .. Cap(h)
    BY <1>5, SoundFields
  <2>2. h.limbs[h.n] # {} /\ f[h.n] # {}
    BY <1>2, <1>5, <2>1 DEF ArithValid
  <2> QED  BY <1>3, <1>5, <2>1, <2>2 DEF ArithValid
<1> QED  BY <1>1, <1>4, <1>5

\* In place with a word.
LEMMA MutWordSound ==
  ASSUME NEW h, Sound(h), ArithValid(h), NEW f \in Functions, NEW w \in Limb
  PROVE  /\ Sound(MutWord(f, h, w))
         /\ f # "nand" => ArithValid(MutWord(f, h, w))
<1> DEFINE Good(g) == Sound(g) /\ (f # "nand" => ArithValid(g))
<1>h. /\ h.n \in Nat /\ h.n <= Cap(h) /\ Cap(h) >= 1 /\ Cap(h) \in Nat
      /\ h.limbs[1] \in Limb /\ (h.n = 1 => h.limbs[1] # {})
  BY SoundFields DEF ArithValid
<1>1. CASE f = "and" /\ h.n = 0
  <2>1. MutWord(f, h, w) = h
    BY <1>1 DEF MutWord
  <2> QED  BY <2>1
<1>2. CASE f = "and" /\ h.n > 0
  <2>1. MutWord(f, h, w) = Lowest(h, h.limbs[1] \cap w)
    BY <1>2 DEF MutWord
  <2>2. h.limbs[1] \cap w \in Limb
    BY <1>h DEF Limb
  <2> QED  BY <2>1, <2>2, LowestSound
<1>3. CASE f = "nand" /\ h.n = 0
  <2>1. MutWord(f, h, w) = Lowest(h, AllOnes)
    BY <1>3 DEF MutWord
  <2> QED  BY <1>3, <2>1, LowestSound, Constants
<1>4. CASE f = "nand" /\ h.n > 0
  <2> DEFINE g == [h EXCEPT !.limbs[1] = AllOnes \ (h.limbs[1] \cap w)]
  <2>1. MutWord(f, h, w) = Filled(g, 1, h.n - 1)
    BY <1>4 DEF MutWord
  <2>2. AllOnes \ (h.limbs[1] \cap w) \in Limb
    BY DEF Limb
  <2>3. Sound(g)
    BY <2>2, FirstLimbSound
  <2> HIDE DEF g
  <2> QED  BY <1>4, <2>1, <2>3, FilledSound
<1>5. CASE f = "or" /\ h.n > 0
  <2> DEFINE g == [h EXCEPT !.limbs[1] = h.limbs[1] \cup w]
  <2>1. MutWord(f, h, w) = g
    BY <1>5 DEF MutWord
  <2>2. h.limbs[1] \cup w \in Limb /\ (h.n = 1 => h.limbs[1] \cup w # {})
    <3>1. h.limbs[1] \cup w \in Limb
      BY <1>h DEF Limb
    <3> QED  BY <1>h, <3>1
  <2>3. Sound(g) /\ ArithValid(g)
    BY <1>5, <2>2, FirstLimbSound
  <2> QED  BY <2>1, <2>3
<1>6. CASE f \notin {"and", "nand"} /\ h.n = 0
  <2>1. MutWord(f, h, w) = Lowest(h, Apply(f, {}, w, AllOnes))
    BY <1>6 DEF MutWord
  <2>2. Apply(f, {}, w, AllOnes) \in Limb
    BY ApplyLimb, Constants
  <2> QED  BY <2>1, <2>2, LowestSound
<1>7. CASE f \notin {"and", "nand", "or"} /\ h.n > 0
  <2>1. MutWord(f, h, w) = Pointwise(f, h, WordLimbs(w), h.n, h.n)
    BY <1>7 DEF MutWord
  <2>2. \A i \in 1 .. MaxCap : WordLimbs(w)[i] \in Limb
    BY WordLimbsSound
  <2> QED  BY <1>h, <2>1, <2>2, PointwiseSound
<1> QED  BY <1>h, <1>1, <1>2, <1>3, <1>4, <1>5, <1>6, <1>7

\* The copy that counts bytes writes limbs, whatever their values.
LEMMA CopiedBytesSound ==
  ASSUME NEW h, Sound(h), NEW y \in Operands, y.n <= Cap(h)
  PROVE  Sound(CopiedBytes(h, y))
<1> DEFINE part(i) == {b \in AllOnes : (i - 1) * Bits + b < y.n * ByteBits}
           new(i)  == (h.limbs[i] \ part(i)) \cup (LimbOf(y, i) \cap part(i))
           l == [i \in DOMAIN h.limbs |-> new(i)]
           n == y.n
           s == y.sign
           g == [h EXCEPT !.limbs = l, !.n = n, !.sign = s]
<1>1. CopiedBytes(h, y) = g
  BY DEF CopiedBytes
<1>2. \A i \in 1 .. Cap(h) : new(i) \in Limb
  <2> SUFFICES ASSUME NEW i \in 1 .. Cap(h) PROVE new(i) \in Limb
    OBVIOUS
  <2>1. i \in Nat \ {0} /\ h.limbs[i] \in Limb
    BY SoundFields
  <2>2. LimbOf(y, i) \in Limb
    BY <2>1, OperandFields
  <2> HIDE DEF part
  <2> QED  BY <2>1, <2>2 DEF Limb
<1> HIDE DEF new
<1>3. l \in [1 .. Cap(h) -> Limb]
  BY <1>2, SoundFields
<1>4. n \in Nat /\ n <= Cap(h) /\ s \in {1, -1}
  BY OperandFields
<1> HIDE DEF l, n, s
<1>5. g = [limbs |-> l, n |-> n, sign |-> s]
  BY ExceptAll, Zenon
<1> HIDE DEF g
<1>6. Cap(h) \in Nat /\ Cap(h) >= 1 /\ Cap(h) <= MaxCap
  BY SoundFields
<1> QED  BY <1>1, <1>3, <1>4, <1>5, <1>6, MadeSound

\* A longer or shorter length, in the same array.
LEMMA LengthSound ==
  ASSUME NEW h, Sound(h), NEW n \in Nat, n <= Cap(h)
  PROVE  LET g == [h EXCEPT !.n = n]
         IN  Sound(g) /\ Cap(g) = Cap(h) /\ g.n = n /\ g.limbs = h.limbs /\ g.sign = h.sign
<1> DEFINE g == [h EXCEPT !.n = n]
<1>1. g = [limbs |-> h.limbs, n |-> n, sign |-> h.sign]
  BY ExceptField, Zenon
<1> HIDE DEF g
<1>2. Sound(g) /\ Cap(g) = Cap(h)
  BY <1>1, SoundFields, MadeSound
<1>3. g.n = n /\ g.limbs = h.limbs /\ g.sign = h.sign
  BY <1>1
<1> QED  BY <1>2, <1>3 DEF g

\* In place with a number.
LEMMA MutNumberSound ==
  ASSUME NEW h, Sound(h), ArithValid(h), NEW f \in Functions, NEW y \in Operands,
         NEW g \in MutNumber(f, h, y)
  PROVE  /\ Sound(g)
         /\ f # "nand" /\ ~(f = "or" /\ h.n = 0) => ArithValid(g)
<1>h. h.n \in Nat /\ y.n \in Nat
  BY SoundFields, OperandFields
<1> DEFINE k == Larger(h.n, y.n)
           one == Larger(1, y.n)
<1>k. k \in Nat /\ one \in Nat
  BY <1>h, OneOfTwo
<1>e. \A i \in 1 .. MaxCap : NumberLimbs(y)[i] \in Limb
  BY NumberLimbsSound
<1>1. CASE f = "and" /\ y.n = 0
  <2>1. g = Reset(h)
    BY <1>1 DEF MutNumber
  <2> QED  BY <2>1, ResetSound
<1>2. CASE f = "and" /\ y.n > 0 /\ h.n = 0
  <2>1. g = h
    BY <1>2 DEF MutNumber
  <2> QED  BY <2>1
<1>3. CASE f = "nand" /\ h.n = 0
  <2>0. MutNumber(f, h, y) = {[o EXCEPT !.n = one] : o \in Grown(h, one)}
    BY <1>3 DEF MutNumber
  <2>1. PICK o \in Grown(h, one) : g = [o EXCEPT !.n = one]
    BY <2>0, Zenon
  <2>2. Sound(o) /\ one <= Cap(o)
    BY <1>k, <2>1, GrownSound
  <2> HIDE DEF one
  <2>3. Sound(g)
    BY <1>k, <2>1, <2>2, LengthSound
  <2> QED  BY <1>3, <2>3
<1>4. CASE f = "nand" /\ h.n > 0 /\ y.n = 0
  <2>1. g = Filled(h, 0, h.n)
    BY <1>4 DEF MutNumber
  <2> QED  BY <2>1, <1>4, FilledSound
<1>5. CASE f = "or" /\ y.n = 0
  <2>1. g = h
    BY <1>5 DEF MutNumber
  <2> QED  BY <2>1
<1>6. CASE f = "or" /\ y.n > 0 /\ h.n = 0
  <2>1. MutNumber(f, h, y) = {CopiedBytes(o, y) : o \in Grown(h, y.n)}
    BY <1>6 DEF MutNumber
  <2>2. PICK o \in Grown(h, y.n) : g = CopiedBytes(o, y)
    BY <2>1
  <2>3. Sound(o) /\ y.n <= Cap(o)
    BY <1>h, <2>2, GrownSound
  <2> QED  BY <1>6, <2>2, <2>3, CopiedBytesSound
<1>7. CASE f = "xor" /\ h.n = 0 /\ y.n = 0
  <2>1. g = h
    BY <1>7 DEF MutNumber
  <2> QED  BY <2>1
<1>8. CASE f \in {"nor", "xnor"} /\ h.n = 0 /\ y.n = 0
  <2>1. g = Lowest(h, AllOnes)
    BY <1>8 DEF MutNumber
  <2> QED  BY <2>1, LowestSound, Constants
<1>9. CASE /\ ~(f = "and" /\ (y.n = 0 \/ h.n = 0)) /\ ~(f = "nand" /\ (h.n = 0 \/ y.n = 0))
           /\ ~(f = "or" /\ (y.n = 0 \/ h.n = 0))
           /\ ~(f \in {"xor", "nor", "xnor"} /\ h.n = 0 /\ y.n = 0)
  <2>1. MutNumber(f, h, y) = {Pointwise(f, o, NumberLimbs(y), k, k) : o \in Grown(h, k)}
    BY <1>9 DEF MutNumber
  <2>2. PICK o \in Grown(h, k) : g = Pointwise(f, o, NumberLimbs(y), k, k)
    BY <2>1
  <2> HIDE DEF k
  <2>3. Sound(o) /\ k <= Cap(o)
    BY <1>k, <2>2, GrownSound
  <2> QED  BY <1>e, <1>k, <2>2, <2>3, PointwiseSound
<1> QED  BY <1>h, <1>1, <1>2, <1>3, <1>4, <1>5, <1>6, <1>7, <1>8, <1>9

\* In place over k limbs.
LEMMA MutExWordSound ==
  ASSUME NEW h, Sound(h), NEW f \in Functions, NEW w \in Limb, NEW k \in Ranges,
         NEW g \in MutExWord(f, h, w, k)
  PROVE  Sound(g) /\ (ArithValid(h) => ArithValid(g))
<1>k. k \in Nat
  BY Constants DEF Ranges
<1>1. CASE k = 0
  BY <1>1 DEF MutExWord
<1>2. CASE k # 0
  <2> DEFINE Out(o) ==
        CASE f = "and" /\ o.n = 0 -> o
          [] f = "and" /\ o.n > 0 -> Lowest(o, o.limbs[1] \cap w)
          [] f = "or" /\ w = {} -> o
          [] f = "or" /\ w # {} /\ o.n > 0 -> [o EXCEPT !.limbs[1] = @ \cup w]
          [] f = "or" /\ w # {} /\ o.n = 0 -> Lowest(o, w)
          [] f = "xor" /\ o.n = 0 -> Lowest(o, w)
          [] OTHER -> Pointwise(f, o, WordLimbs(w), k, Larger(o.n, k))
  <2>1. MutExWord(f, h, w, k) = {Out(o) : o \in Grown(h, k)}
    BY <1>2 DEF MutExWord
  <2> HIDE DEF Out
  <2>2. PICK o \in Grown(h, k) : g = Out(o)
    BY <2>1
  <2>3. Sound(o) /\ Cap(o) >= k /\ (ArithValid(h) => ArithValid(o))
    BY <1>k, <2>2, GrownSound
  <2>4. o.n \in Nat /\ o.n <= Cap(o) /\ Cap(o) >= 1 /\ Cap(o) \in Nat /\ o.limbs[1] \in Limb
    BY <2>3, SoundFields
  <2>5. CASE (f = "and" /\ o.n = 0) \/ (f = "or" /\ w = {})
    <3>1. g = o
      BY <2>2, <2>5 DEF Out
    <3> QED  BY <2>3, <3>1
  <2>6. CASE f = "and" /\ o.n > 0
    <3>1. g = Lowest(o, o.limbs[1] \cap w)
      BY <2>2, <2>6 DEF Out
    <3>2. o.limbs[1] \cap w \in Limb
      BY <2>4 DEF Limb
    <3> QED  BY <2>3, <3>1, <3>2, LowestSound
  <2>7. CASE f = "or" /\ w # {} /\ o.n > 0
    <3>1. g = [o EXCEPT !.limbs[1] = o.limbs[1] \cup w]
      BY <2>2, <2>7 DEF Out
    <3>2. o.limbs[1] \cup w \in Limb
      BY <2>4 DEF Limb
    <3>3. o.limbs[1] \cup w # {}
      BY <2>7
    <3> QED  BY <2>3, <2>7, <3>1, <3>2, <3>3, FirstLimbSound
  <2>8. CASE f \in {"or", "xor"} /\ o.n = 0 /\ ~(f = "or" /\ w = {})
    <3>1. g = Lowest(o, w)
      BY <2>2, <2>8 DEF Out
    <3> QED  BY <2>3, <3>1, LowestSound
  <2>9. CASE f \notin {"and", "or"} /\ ~(f = "xor" /\ o.n = 0)
    <3>1. g = Pointwise(f, o, WordLimbs(w), k, Larger(o.n, k))
      BY <2>2, <2>9 DEF Out
    <3>2. Larger(o.n, k) \in Nat /\ Larger(o.n, k) <= Cap(o)
      BY <1>k, <2>3, <2>4 DEF Larger
    <3>3. \A i \in 1 .. MaxCap : WordLimbs(w)[i] \in Limb
      BY WordLimbsSound
    <3> QED  BY <1>k, <2>3, <3>1, <3>2, <3>3, PointwiseSound
  <2> QED  BY <2>4, <2>5, <2>6, <2>7, <2>8, <2>9
<1> QED  BY <1>1, <1>2

LEMMA MutExIntSound ==
  ASSUME NEW h, Sound(h), NEW f \in Functions, NEW v \in IntWords, NEW k \in Ranges,
         NEW g \in MutExInt(f, h, v, k)
  PROVE  Sound(g) /\ (ArithValid(h) => ArithValid(g))
<1>k. k \in Nat
  BY Constants DEF Ranges
<1>1. CASE k = 0
  BY <1>1 DEF MutExInt
<1>2. CASE k # 0
  <2> DEFINE Out(o) == IF f = "and" /\ o.n = 0 THEN o ELSE Pointwise(f, o, IntLimbs(v), k, Larger(o.n, k))
  <2>1. MutExInt(f, h, v, k) = {Out(o) : o \in Grown(h, k)}
    BY <1>2 DEF MutExInt
  <2> HIDE DEF Out
  <2>2. PICK o \in Grown(h, k) : g = Out(o)
    BY <2>1
  <2>3. Sound(o) /\ Cap(o) >= k /\ (ArithValid(h) => ArithValid(o))
    BY <1>k, <2>2, GrownSound
  <2>4. o.n \in Nat /\ o.n <= Cap(o)
    BY <2>3, SoundFields
  <2>5. Larger(o.n, k) \in Nat /\ Larger(o.n, k) <= Cap(o)
    BY <1>k, <2>3, <2>4 DEF Larger
  <2>6. \A i \in 1 .. MaxCap : IntLimbs(v)[i] \in Limb
    BY IntLimbsSound
  <2>7. g = o \/ g = Pointwise(f, o, IntLimbs(v), k, Larger(o.n, k))
    BY <2>2 DEF Out
  <2> QED  BY <1>k, <2>3, <2>5, <2>6, <2>7, PointwiseSound
<1> QED  BY <1>1, <1>2

\* The top limb of a range set whole has a bit.
LEMMA RangeFilled ==
  ASSUME NEW h, Sound(h), NEW k \in Nat, k > 0, k <= Cap(h)
  PROVE  Filled(h, 0, k * LimbBytes).limbs[k] # {}
<1> DEFINE new(i) == {b \in AllOnes : i > 0 /\ (i - 0 - 1) * Bits + b < (k * LimbBytes) * ByteBits}
           f == [i \in DOMAIN h.limbs |-> h.limbs[i] \cup new(i)]
<1>1. Filled(h, 0, k * LimbBytes) = [h EXCEPT !.limbs = f]
  BY DEF Filled
<1>2. (k - 0 - 1) * Bits + 0 < (k * LimbBytes) * ByteBits
  <2>1. (k * LimbBytes) * ByteBits = k * (LimbBytes * ByteBits)
    BY Constants
  <2>2. (k * LimbBytes) * ByteBits = k * Bits
    BY <2>1, Constants
  <2>3. Bits \in Nat /\ Bits > 0
    BY Constants
  <2>4. (k - 0 - 1) * Bits = k * Bits - Bits
    BY <2>3
  <2>5. k * Bits \in Nat
    BY <2>3
  <2> QED  BY <2>2, <2>3, <2>4, <2>5
<1>3. 0 \in new(k)
  BY <1>2, Constants
<1>4. k \in DOMAIN h.limbs
  BY SoundFields
<1> HIDE DEF new
<1>5. f[k] # {}
  BY <1>3, <1>4
<1> HIDE DEF f
<1>6. Filled(h, 0, k * LimbBytes) = [limbs |-> f, n |-> h.n, sign |-> h.sign]
  BY <1>1, ExceptField, Zenon
<1> QED  BY <1>5, <1>6

LEMMA MutExNumberSound ==
  ASSUME NEW h, Sound(h), NEW f \in Functions, NEW y \in Operands, NEW k \in Ranges,
         NEW g \in MutExNumber(f, h, y, k)
  PROVE  Sound(g) /\ (ArithValid(h) => ArithValid(g))
<1>k. k \in Nat /\ y.n \in Nat
  BY Constants, OperandFields DEF Ranges
<1>1. CASE k = 0
  BY <1>1 DEF MutExNumber
<1>2. CASE k # 0
  <2> DEFINE Lower(o) == [o EXCEPT !.n = Smaller(y.n, k),
               !.limbs = [i \in DOMAIN @ |-> IF i <= Smaller(y.n, k) THEN y.limbs[i] ELSE @[i]]]
             Out(o) ==
        CASE f = "and" /\ o.n = 0 -> o
          [] f = "and" /\ o.n > 0 /\ y.n = 0 -> Reset(o)
          [] f = "nand" /\ (o.n = 0 \/ y.n = 0) -> Filled(o, 0, k)
          [] f = "or" /\ o.n = 0 -> Normalized(Lower(o))
          [] f = "or" /\ o.n > 0 /\ y.n = 0 -> o
          [] f = "xor" /\ o.n = 0 /\ y.n = 0 -> o
          [] f \in {"nor", "xnor"} /\ o.n = 0 /\ y.n = 0 -> [Filled(o, 0, k * LimbBytes) EXCEPT !.n = k]
          [] OTHER -> Pointwise(f, o, NumberLimbs(y), k, Larger(o.n, k))
  <2>1. MutExNumber(f, h, y, k) = {Out(o) : o \in Grown(h, k)}
    BY <1>2 DEF MutExNumber
  <2> HIDE DEF Out
  <2>2. PICK o \in Grown(h, k) : g = Out(o)
    BY <2>1
  <2>3. Sound(o) /\ Cap(o) >= k /\ (ArithValid(h) => ArithValid(o))
    BY <1>k, <2>2, GrownSound
  <2>4. o.n \in Nat /\ o.n <= Cap(o) /\ Cap(o) \in Nat
    BY <2>3, SoundFields
  <2>5. CASE \/ f = "and" /\ o.n = 0
             \/ f \in {"or", "xor"} /\ y.n = 0 /\ ~(f = "or" /\ o.n = 0) /\ ~(f = "xor" /\ o.n > 0)
    <3>1. g = o
      BY <2>2, <2>4, <2>5, <1>k DEF Out
    <3> QED  BY <2>3, <3>1
  <2>6. CASE f = "and" /\ o.n > 0 /\ y.n = 0
    <3>1. g = Reset(o)
      BY <2>2, <2>6 DEF Out
    <3> QED  BY <2>3, <3>1, ResetSound
  <2>7. CASE f = "nand" /\ (o.n = 0 \/ y.n = 0)
    <3>1. g = Filled(o, 0, k)
      BY <2>2, <2>7 DEF Out
    <3> QED  BY <2>3, <3>1, FilledSound
  <2>8. CASE f = "or" /\ o.n = 0
    <3> DEFINE n == Smaller(y.n, k)
               l == [i \in DOMAIN o.limbs |-> IF i <= n THEN y.limbs[i] ELSE o.limbs[i]]
               q == [o EXCEPT !.limbs = l, !.n = n]
    <3>1. g = Normalized(Lower(o))
      BY <2>2, <2>8 DEF Out
    <3>2. Lower(o) = q
      OBVIOUS
    <3>3. n \in Nat /\ n <= y.n /\ n <= Cap(o)
      BY <1>k, <2>3, <2>4 DEF Smaller
    <3> HIDE DEF n, Lower
    <3>4. \A i \in 1 .. Cap(o) : i <= n => y.limbs[i] \in Limb
      BY <3>3, <1>k, OperandFields
    <3>5. l \in [1 .. Cap(o) -> Limb]
      BY <2>3, <3>4, SoundFields
    <3> HIDE DEF l
    <3>6. q = [limbs |-> l, n |-> n, sign |-> o.sign]
      BY <2>3, ExceptLimbs, Zenon
    <3> HIDE DEF q
    <3>7. Sound(q)
      <4>1. Cap(o) >= 1 /\ Cap(o) <= MaxCap /\ o.sign \in {1, -1}
      BY <2>3, SoundFields
    <4> QED  BY <2>4, <3>3, <3>5, <3>6, <4>1, MadeSound
    <3> QED  BY <3>1, <3>2, <3>7, NormalizedSound
  <2>9. CASE f \in {"nor", "xnor"} /\ o.n = 0 /\ y.n = 0
    <3> DEFINE q == Filled(o, 0, k * LimbBytes)
               r == [q EXCEPT !.n = k]
    <3>1. g = r
      BY <2>2, <2>9 DEF Out
    <3>2. Sound(q) /\ Cap(q) = Cap(o)
      BY <2>3, FilledSound
    <3>3. q.limbs[k] # {}
      BY <1>k, <1>2, <2>3, RangeFilled
    <3> HIDE DEF q
    <3>4. Sound(r) /\ r.n = k /\ r.limbs = q.limbs
      BY <1>k, <2>3, <3>2, LengthSound
    <3> HIDE DEF r
    <3> QED  BY <1>2, <3>1, <3>3, <3>4 DEF ArithValid
  <2>10. CASE /\ ~(f = "and" /\ (o.n = 0 \/ y.n = 0)) /\ ~(f = "nand" /\ (o.n = 0 \/ y.n = 0))
              /\ ~(f = "or" /\ (o.n = 0 \/ y.n = 0))
              /\ ~(f \in {"xor", "nor", "xnor"} /\ o.n = 0 /\ y.n = 0)
    <3>1. g = Pointwise(f, o, NumberLimbs(y), k, Larger(o.n, k))
      BY <2>2, <2>10 DEF Out
    <3>2. Larger(o.n, k) \in Nat /\ Larger(o.n, k) <= Cap(o)
      BY <1>k, <2>3, <2>4 DEF Larger
    <3>3. \A i \in 1 .. MaxCap : NumberLimbs(y)[i] \in Limb
      BY NumberLimbsSound
    <3> QED  BY <1>k, <2>3, <3>1, <3>2, <3>3, PointwiseSound
  <2> QED  BY <1>k, <2>4, <2>5, <2>6, <2>7, <2>8, <2>9, <2>10
<1> QED  BY <1>1, <1>2

-----------------------------------------------------------------------------
(* The calls that make a new number *)

LEMMA ZeroedSound ==
  ASSUME NEW k \in Nat, k <= MaxCap
  PROVE  Sound(Zeroed(k)) /\ ArithValid(Zeroed(k)) /\ Cap(Zeroed(k)) = Larger(k, 1)
<1> DEFINE c == Larger(k, 1)
           f == [i \in 1 .. c |-> {}]
<1>1. c \in Nat /\ c >= 1 /\ c <= MaxCap
  BY Constants DEF Larger
<1> HIDE DEF c
<1>2. f \in [1 .. c -> Limb]
  BY Constants
<1>3. Zeroed(k) = [limbs |-> f, n |-> 0, sign |-> 1]
  BY DEF Zeroed, c
<1> HIDE DEF f
<1>4. Sound(Zeroed(k)) /\ Cap(Zeroed(k)) = c
  BY <1>1, <1>2, <1>3, MadeSound
<1>5. ArithValid(Zeroed(k))
  BY <1>3 DEF ArithValid
<1> QED  BY <1>4, <1>5 DEF c

LEMMA CopyOfSound ==
  ASSUME NEW h, Sound(h)
  PROVE  /\ Sound(CopyOf(h)) /\ Cap(CopyOf(h)) = Larger(h.n, 1)
         /\ CopyOf(h).n = h.n /\ CopyOf(h).sign = h.sign
         /\ ArithValid(h) => ArithValid(CopyOf(h))
<1> DEFINE c == Larger(h.n, 1)
           f == [i \in 1 .. c |-> LimbOf(h, i)]
<1>1. h.n \in Nat /\ c \in Nat /\ c >= 1 /\ c <= MaxCap /\ h.n <= c /\ h.sign \in {1, -1}
  BY SoundFields, Constants DEF Larger
<1> HIDE DEF c
<1>2. f \in [1 .. c -> Limb]
  BY <1>1, LimbOfSound
<1>3. h.n # 0 => f[h.n] = h.limbs[h.n]
  BY <1>1 DEF LimbOf
<1>4. CopyOf(h) = [limbs |-> f, n |-> h.n, sign |-> h.sign]
  BY DEF CopyOf, c
<1> HIDE DEF f
<1>5. Sound(CopyOf(h)) /\ Cap(CopyOf(h)) = c
  BY <1>1, <1>2, <1>4, MadeSound
<1>6. ArithValid(h) => ArithValid(CopyOf(h))
  BY <1>3, <1>4 DEF ArithValid
<1> QED  BY <1>4, <1>5, <1>6 DEF c

LEMMA OneLimbSound ==
  ASSUME NEW h, Sound(h), NEW limb \in Limb
  PROVE  Sound(OneLimb(h, limb)) /\ ArithValid(OneLimb(h, limb))
<1> DEFINE z == Zeroed(1)
           s == h.sign
           g == [z EXCEPT !.sign = s]
<1>1. Sound(z)
  BY ZeroedSound, Constants
<1>2. s \in {1, -1}
  BY SoundFields
<1> HIDE DEF z, s
<1>3. g = [limbs |-> z.limbs, n |-> z.n, sign |-> s]
  BY <1>1, ExceptField, Zenon
<1> HIDE DEF g
<1>4. Sound(g)
  BY <1>1, <1>2, <1>3, MadeSound, SoundFields
<1>5. OneLimb(h, limb) = Lowest(g, limb)
  BY DEF OneLimb, g, z, s
<1> QED  BY <1>4, <1>5, LowestSound

LEMMA MadeNewSound ==
  ASSUME NEW f \in Functions, NEW h, Sound(h), NEW e, \A i \in 1 .. MaxCap : e[i] \in Limb,
         NEW k \in Nat, k <= MaxCap, NEW s \in {1, -1}
  PROVE  Sound(Made(f, h, e, k, s)) /\ ArithValid(Made(f, h, e, k, s))
<1> DEFINE c == Larger(k, 1)
           l == [i \in 1 .. c |-> Apply(f, LimbOf(h, i), e[i], AllOnes)]
           g == [limbs |-> l, n |-> k, sign |-> s]
<1>1. c \in Nat /\ c >= 1 /\ c <= MaxCap /\ k <= c
  BY Constants DEF Larger
<1>2. Made(f, h, e, k, s) = Normalized(g)
  BY DEF Made
<1> HIDE DEF c
<1>3. \A i \in 1 .. c : Apply(f, LimbOf(h, i), e[i], AllOnes) \in Limb
  <2> SUFFICES ASSUME NEW i \in 1 .. c PROVE Apply(f, LimbOf(h, i), e[i], AllOnes) \in Limb
    OBVIOUS
  <2>1. i \in Nat \ {0} /\ i \in 1 .. MaxCap
    BY <1>1, Constants
  <2> QED  BY <2>1, LimbOfSound, ApplyLimb
<1>4. l \in [1 .. c -> Limb]
  BY <1>3
<1> HIDE DEF l
<1>5. Sound(g)
  BY <1>1, <1>4, MadeSound
<1> HIDE DEF g
<1> QED  BY <1>2, <1>5, NormalizedSound

LEMMA FunWordSound ==
  ASSUME NEW h, Sound(h), ArithValid(h), NEW f \in Functions, NEW w \in Limb
  PROVE  /\ Sound(FunWord(f, h, w))
         /\ f # "nand" => ArithValid(FunWord(f, h, w))
<1>h. /\ h.n \in Nat /\ h.n <= Cap(h) /\ h.n <= MaxCap /\ Cap(h) >= 1 /\ Cap(h) \in Nat
      /\ h.limbs[1] \in Limb
  BY SoundFields, Constants
<1>w. \A i \in 1 .. MaxCap : WordLimbs(w)[i] \in Limb
  BY WordLimbsSound
<1>1. CASE f = "and"
  <2>1. FunWord(f, h, w) = IF h.n = 0 THEN Zeroed(0) ELSE OneLimb(h, h.limbs[1] \cap w)
    BY <1>1 DEF FunWord
  <2>2. h.limbs[1] \cap w \in Limb
    BY <1>h DEF Limb
  <2>3. Sound(Zeroed(0)) /\ ArithValid(Zeroed(0))
    BY ZeroedSound, Constants
  <2> QED  BY <2>1, <2>2, <2>3, OneLimbSound
<1>2. CASE f = "nand" /\ h.n > 0
  <2> DEFINE z == Zeroed(h.n)
             l == [z.limbs EXCEPT ![1] = AllOnes \ (h.limbs[1] \cap w)]
             n == h.n
             g == [z EXCEPT !.limbs = l, !.n = n]
  <2>1. FunWord(f, h, w) = Filled(g, 1, h.n - 1)
    BY <1>2 DEF FunWord
  <2>2. Sound(z) /\ n \in Nat /\ n <= Cap(z)
    BY <1>h, ZeroedSound DEF Larger
  <2>3. AllOnes \ (h.limbs[1] \cap w) \in Limb
    BY DEF Limb
  <2> HIDE DEF z, n
  <2>4. l \in [1 .. Cap(z) -> Limb]
    BY <2>2, <2>3, SoundFields
  <2> HIDE DEF l
  <2>5. g = [limbs |-> l, n |-> n, sign |-> z.sign]
    BY <2>2, ExceptLimbs, Zenon
  <2> HIDE DEF g
  <2>6. Sound(g)
    BY <2>2, <2>4, <2>5, MadeSound, SoundFields
  <2> QED  BY <1>2, <2>1, <2>6, FilledSound
<1>3. CASE f = "or" /\ w = {}
  <2>1. FunWord(f, h, w) = CopyOf(h)
    BY <1>3 DEF FunWord
  <2> QED  BY <2>1, CopyOfSound
<1>4. CASE f = "or" /\ w # {} /\ h.n > 0
  <2> DEFINE m == Made(f, h, WordLimbs(w), h.n, 1)
             n == 0
             g == [m EXCEPT !.n = n]
  <2>1. FunWord(f, h, w) = Normalized(g)
    BY <1>4 DEF FunWord
  <2>2. Sound(m)
    BY <1>h, <1>w, MadeNewSound
  <2>3. n \in Nat /\ n <= Cap(m)
    BY <2>2, SoundFields
  <2> HIDE DEF m, n
  <2>4. Sound(g)
    BY <2>2, <2>3, LengthSound
  <2> HIDE DEF g
  <2> QED  BY <2>1, <2>4, NormalizedSound
<1>5. CASE f # "and" /\ h.n = 0 /\ ~(f = "or" /\ w = {})
  <2>1. FunWord(f, h, w) = OneLimb(h, Apply(f, {}, w, AllOnes))
    BY <1>5 DEF FunWord
  <2>2. Apply(f, {}, w, AllOnes) \in Limb
    BY ApplyLimb, Constants
  <2> QED  BY <2>1, <2>2, OneLimbSound
<1>6. CASE f \notin {"and", "nand", "or"} /\ h.n > 0
  <2>1. FunWord(f, h, w) = Made(f, h, WordLimbs(w), h.n, 1)
    BY <1>6 DEF FunWord
  <2> QED  BY <1>h, <1>w, <2>1, MadeNewSound
<1> QED  BY <1>h, <1>1, <1>2, <1>3, <1>4, <1>5, <1>6

LEMMA FunNumberSound ==
  ASSUME NEW h, Sound(h), ArithValid(h), NEW f \in Functions, NEW y \in Operands
  PROVE  /\ Sound(FunNumber(f, h, y))
         /\ f # "nand" => ArithValid(FunNumber(f, h, y))
<1> DEFINE k == Larger(h.n, y.n)
           n == Larger(k, 1)
<1>h. /\ h.n \in Nat /\ h.n <= MaxCap /\ y.n \in Nat /\ y.n <= MaxCap
      /\ k \in Nat /\ k <= MaxCap /\ n \in Nat /\ n <= MaxCap
  BY SoundFields, OperandFields, Constants DEF Larger
<1>e. \A i \in 1 .. MaxCap : NumberLimbs(y)[i] \in Limb
  BY NumberLimbsSound
<1>1. CASE f = "and" /\ (h.n = 0 \/ y.n = 0)
  <2>1. FunNumber(f, h, y) = Zeroed(0)
    BY <1>1 DEF FunNumber
  <2> QED  BY <2>1, ZeroedSound, Constants
<1>2. CASE f = "nand" /\ (h.n = 0 \/ y.n = 0)
  <2> DEFINE z == Zeroed(k)
             g == [z EXCEPT !.n = n]
  <2>1. FunNumber(f, h, y) = Filled(g, 0, n)
    BY <1>2 DEF FunNumber
  <2>2. Sound(z) /\ Cap(z) = n
    BY <1>h, ZeroedSound
  <2> HIDE DEF z, n
  <2>3. Sound(g)
    BY <1>h, <2>2, LengthSound
  <2> HIDE DEF g
  <2> QED  BY <1>2, <2>1, <2>3, FilledSound
<1>3. CASE f = "or" /\ y.n = 0
  <2>1. FunNumber(f, h, y) = CopyOf(h)
    BY <1>3 DEF FunNumber
  <2> QED  BY <2>1, CopyOfSound
<1>4. CASE f = "or" /\ y.n > 0 /\ h.n = 0
  <2>1. FunNumber(f, h, y) = CopyOf(y)
    BY <1>4 DEF FunNumber
  <2> QED  BY <1>4, <2>1, CopyOfSound, OperandFields
<1>5. CASE f = "xor" /\ h.n = 0 /\ y.n = 0
  <2>1. FunNumber(f, h, y) = Zeroed(0)
    BY <1>5 DEF FunNumber
  <2> QED  BY <2>1, ZeroedSound, Constants
<1>6. CASE f \in {"nor", "xnor"} /\ h.n = 0 /\ y.n = 0
  <2>1. FunNumber(f, h, y) = OneLimb(h, AllOnes)
    BY <1>6 DEF FunNumber
  <2> QED  BY <2>1, OneLimbSound, Constants
<1>7. CASE /\ ~(f \in {"and", "nand", "or"} /\ (h.n = 0 \/ y.n = 0))
           /\ ~(f \in {"xor", "nor", "xnor"} /\ h.n = 0 /\ y.n = 0)
  <2>1. FunNumber(f, h, y) = Made(f, h, NumberLimbs(y), k, 1)
    BY <1>7 DEF FunNumber
  <2> HIDE DEF k
  <2> QED  BY <1>h, <1>e, <2>1, MadeNewSound
<1> QED  BY <1>h, <1>1, <1>2, <1>3, <1>4, <1>5, <1>6, <1>7

LEMMA FunExSound ==
  ASSUME NEW h, Sound(h), NEW f \in Functions, NEW k \in Ranges
  PROVE  /\ \A w \in Limb : Sound(FunExWord(f, h, w, k))
         /\ \A v \in IntWords : Sound(FunExInt(f, h, v, k))
         /\ \A y \in Operands : Sound(FunExNumber(f, h, y, k))
<1>1. k \in Nat /\ k <= MaxCap /\ h.sign \in {1, -1}
  BY SoundFields, Constants DEF Ranges
<1>2. \A w \in Limb : Sound(FunExWord(f, h, w, k))
  BY <1>1, WordLimbsSound, MadeNewSound DEF FunExWord
<1>3. \A v \in IntWords : Sound(FunExInt(f, h, v, k))
  BY <1>1, IntLimbsSound, MadeNewSound DEF FunExInt
<1>4. \A y \in Operands : Sound(FunExNumber(f, h, y, k))
  BY <1>1, NumberLimbsSound, MadeNewSound DEF FunExNumber
<1> QED  BY <1>2, <1>3, <1>4

-----------------------------------------------------------------------------
(* Not and the shifts *)

LEMMA ShiftParts ==
  ASSUME NEW k \in Shifts
  PROVE  LimbShift(k) \in Nat /\ BitShift(k) \in Nat /\ BitShift(k) < Bits
<1>1. k \in Nat
  BY BitsAssumption DEF Shifts
<1>2. Bits \in Nat \ {0}
  BY Constants
<1> HIDE DEF Bits
<1>3. k \div Bits \in Nat /\ k % Bits \in 0 .. Bits - 1
  BY <1>1, <1>2
<1> QED  BY <1>2, <1>3 DEF LimbShift, BitShift

LEMMA MutNotSound ==
  ASSUME NEW h, Sound(h)
  PROVE  Sound(MutNot(h)) /\ ArithValid(MutNot(h))
<1> DEFINE l == [i \in DOMAIN h.limbs |-> IF i <= h.n THEN AllOnes \ h.limbs[i] ELSE h.limbs[i]]
           g == [h EXCEPT !.limbs = l]
<1>1. MutNot(h) = Normalized(g)
  BY DEF MutNot
<1>2. l \in [1 .. Cap(h) -> Limb]
  BY SoundFields DEF Limb
<1> HIDE DEF l
<1>3. g = [limbs |-> l, n |-> h.n, sign |-> h.sign]
  BY ExceptField, Zenon
<1> HIDE DEF g
<1>4. Sound(g)
  BY <1>2, <1>3, MadeSound, SoundFields
<1> QED  BY <1>1, <1>4, NormalizedSound

\* bigInt_not does to the copy what bigInt_mut_not does in place.
LEMMA FunNotSound ==
  ASSUME NEW h, Sound(h)
  PROVE  Sound(FunNot(h)) /\ ArithValid(FunNot(h))
<1>1. FunNot(h) = MutNot(CopyOf(h))
  <2>1. CopyOf(h).n = h.n
    BY CopyOfSound
  <2> QED  BY <2>1 DEF FunNot, MutNot
<1> QED  BY <1>1, CopyOfSound, MutNotSound

\* Bits moved within a limb and in from its neighbour stay within the limb.
LEMMA MovedBits ==
  ASSUME NEW from, NEW i, NEW last, NEW first, NEW s \in Nat, s < Bits,
         from[i] \in Limb, i > first => from[i - 1] \in Limb, i < last => from[i + 1] \in Limb
  PROVE  UpBits(from, first, last, i, s) \in Limb /\ DownBits(from, last, i, s) \in Limb
<1>1. Bits \in Nat /\ AllOnes = 0 .. Bits - 1
  BY Constants DEF AllOnes
<1>2. {b + s : b \in {b \in from[i] : b + s < Bits}} \subseteq AllOnes
  BY <1>1 DEF Limb
<1>3. i > first => {b + s - Bits : b \in {b \in from[i - 1] : b + s >= Bits}} \subseteq AllOnes
  BY <1>1 DEF Limb
<1>4. {b - s : b \in {b \in from[i] : b >= s}} \subseteq AllOnes
  BY <1>1 DEF Limb
<1>5. i < last => {b - s + Bits : b \in {b \in from[i + 1] : b < s}} \subseteq AllOnes
  BY <1>1 DEF Limb
<1>6. UpBits(from, first, last, i, s) \subseteq AllOnes
  BY <1>2, <1>3 DEF UpBits
<1>7. DownBits(from, last, i, s) \subseteq AllOnes
  BY <1>4, <1>5 DEF DownBits
<1> QED  BY <1>6, <1>7 DEF Limb

\* A number whose limbs were replaced, all at once.
LEMMA LimbsSound ==
  ASSUME NEW h, Sound(h), NEW l, l \in [1 .. Cap(h) -> Limb]
  PROVE  LET g == [h EXCEPT !.limbs = l]
         IN  Sound(g) /\ Cap(g) = Cap(h) /\ g.n = h.n /\ g.limbs = l /\ g.sign = h.sign
<1> DEFINE g == [h EXCEPT !.limbs = l]
<1>1. g = [limbs |-> l, n |-> h.n, sign |-> h.sign]
  BY ExceptField, Zenon
<1> HIDE DEF g
<1>2. Sound(g) /\ Cap(g) = Cap(h)
  BY <1>1, SoundFields, MadeSound
<1>3. g.n = h.n /\ g.limbs = l /\ g.sign = h.sign
  BY <1>1
<1> QED  BY <1>2, <1>3 DEF g

\* The loops over the bits, where the limbs they read are those of an array.
LEMMA UpLoopSound ==
  ASSUME NEW h, Sound(h), NEW from, NEW first \in Nat, NEW last \in Nat, NEW s \in Nat, s < Bits,
         first >= 1, \A i \in 1 .. last : from[i] \in Limb
  PROVE  /\ Sound(UpLoop(h, from, first, last, s)) /\ Cap(UpLoop(h, from, first, last, s)) = Cap(h)
         /\ UpLoop(h, from, first, last, s).n = h.n
<1> DEFINE l == [i \in DOMAIN h.limbs |->
                   IF s > 0 /\ i \in first .. last THEN UpBits(from, first, last, i, s) ELSE h.limbs[i]]
<1>1. UpLoop(h, from, first, last, s) = [h EXCEPT !.limbs = l]
  BY DEF UpLoop
<1>2. ASSUME NEW i \in first .. last PROVE UpBits(from, first, last, i, s) \in Limb
  <2>1. i \in 1 .. last /\ (i > first => i - 1 \in 1 .. last) /\ (i < last => i + 1 \in 1 .. last)
    OBVIOUS
  <2> QED  BY <2>1, MovedBits
<1>3. l \in [1 .. Cap(h) -> Limb]
  BY <1>2, SoundFields
<1> HIDE DEF l
<1> QED  BY <1>1, <1>3, LimbsSound

LEMMA DownLoopSound ==
  ASSUME NEW h, Sound(h), NEW from, NEW last \in Nat, NEW s \in Nat, s < Bits,
         \A i \in 1 .. last : from[i] \in Limb
  PROVE  /\ Sound(DownLoop(h, from, last, s)) /\ Cap(DownLoop(h, from, last, s)) = Cap(h)
         /\ DownLoop(h, from, last, s).n = h.n
<1> DEFINE l == [i \in DOMAIN h.limbs |-> IF s > 0 /\ i <= last THEN DownBits(from, last, i, s) ELSE h.limbs[i]]
<1>1. DownLoop(h, from, last, s) = [h EXCEPT !.limbs = l]
  BY DEF DownLoop
<1>2. ASSUME NEW i \in 1 .. last PROVE DownBits(from, last, i, s) \in Limb
  <2>1. i \in 1 .. last /\ (i < last => i + 1 \in 1 .. last) /\ ~(i > i)
    OBVIOUS
  <2> QED  BY <2>1, MovedBits
<1>3. l \in [1 .. Cap(h) -> Limb]
  <2> SUFFICES ASSUME NEW i \in 1 .. Cap(h)
               PROVE  (IF s > 0 /\ i <= last THEN DownBits(from, last, i, s) ELSE h.limbs[i]) \in Limb
    BY SoundFields
  <2>1. i <= last => i \in 1 .. last
    OBVIOUS
  <2> QED  BY <1>2, <2>1, SoundFields
<1> HIDE DEF l
<1> QED  BY <1>1, <1>3, LimbsSound

\* Whole limbs down.
LEMMA RLShiftSound ==
  ASSUME NEW h, Sound(h), NEW ls \in Nat, NEW down \in RLShift(h, ls)
  PROVE  Sound(down) /\ Cap(down) = Cap(h) /\ down.n \in Nat /\ down.n <= h.n
<1>h. h.n \in Nat /\ h.n <= Cap(h) /\ Cap(h) \in Nat
  BY SoundFields
<1>1. CASE ls = 0
  BY <1>1, <1>h DEF RLShift
<1>2. CASE ls # 0 /\ ls >= h.n
  <2> DEFINE n == 0
             s == 1
             g == [h EXCEPT !.n = n, !.sign = s]
  <2>1. down = g
    BY <1>2 DEF RLShift
  <2>2. n \in Nat /\ n <= Cap(h) /\ n <= h.n /\ s \in {1, -1}
    BY <1>h
  <2> HIDE DEF n, s
  <2>3. g = [limbs |-> h.limbs, n |-> n, sign |-> s]
    BY ExceptSign, Zenon
  <2> HIDE DEF g
  <2> QED  BY <2>1, <2>2, <2>3, MadeSound, SoundFields
<1>3. CASE ls # 0 /\ ~(ls >= h.n)
  <2> DEFINE n == h.n - ls
  <2>p. PICK from \in Sources(n, ls) :
          down = Normalized([h EXCEPT !.n = n,
            !.limbs = [i \in DOMAIN h.limbs |-> IF i <= n THEN h.limbs[from[i]] ELSE h.limbs[i]]])
    BY <1>3, Zenon DEF RLShift
  <2> DEFINE l == [i \in DOMAIN h.limbs |-> IF i <= n THEN h.limbs[from[i]] ELSE h.limbs[i]]
             g == [h EXCEPT !.limbs = l, !.n = n]
  <2>1. down = Normalized(g)
    BY <2>p
  <2>2. n \in Nat /\ n <= Cap(h) /\ n <= h.n
    BY <1>h, <1>3
  <2>3. \A i \in 1 .. Cap(h) : i <= n => from[i] \in 1 .. Cap(h)
    <3>1. \A i \in 1 .. n : from[i] \in ls + 1 .. ls + n
      BY DEF Sources
    <3> QED  BY <1>h, <1>3, <3>1
  <2> HIDE DEF n
  <2>4. l \in [1 .. Cap(h) -> Limb]
    BY <2>3, SoundFields
  <2> HIDE DEF l
  <2>5. g = [limbs |-> l, n |-> n, sign |-> h.sign]
    BY ExceptLimbs, Zenon
  <2>6. g.n = n
    BY <2>5
  <2> HIDE DEF g
  <2>7. Sound(g) /\ Cap(g) = Cap(h)
    BY <2>2, <2>4, <2>5, MadeSound, SoundFields
  <2>8. Sound(Normalized(g)) /\ Cap(Normalized(g)) = Cap(g) /\ Normalized(g).n <= g.n
    BY <2>7, NormalizedSound
  <2>9. Normalized(g).n \in Nat
    BY <2>8, SoundFields
  <2> QED  BY <1>h, <2>1, <2>2, <2>6, <2>7, <2>8, <2>9
<1> QED  BY <1>1, <1>2, <1>3

\* Whole limbs up, within the array.
LEMMA LLShiftSound ==
  ASSUME NEW h, Sound(h), NEW ls \in Nat
  PROVE  Sound(LLShift(h, ls)) /\ Cap(LLShift(h, ls)) = Cap(h)
<1>h. h.n \in Nat /\ h.n <= Cap(h) /\ Cap(h) \in Nat
  BY SoundFields
<1>1. CASE ls = 0 \/ h.n = 0
  BY <1>1 DEF LLShift
<1>2. CASE ls # 0 /\ h.n # 0 /\ ls >= Cap(h)
  <2> DEFINE n == 0
             s == 1
             g == [h EXCEPT !.n = n, !.sign = s]
  <2>1. LLShift(h, ls) = g
    BY <1>2 DEF LLShift
  <2>2. n \in Nat /\ n <= Cap(h) /\ s \in {1, -1}
    BY <1>h
  <2> HIDE DEF n, s
  <2>3. g = [limbs |-> h.limbs, n |-> n, sign |-> s]
    BY ExceptSign, Zenon
  <2> HIDE DEF g
  <2> QED  BY <2>1, <2>2, <2>3, MadeSound, SoundFields
<1>3. CASE ls # 0 /\ h.n # 0 /\ ~(ls >= Cap(h))
  <2> DEFINE n == Smaller(h.n + ls, Cap(h))
             l == [i \in DOMAIN h.limbs |-> IF i <= ls THEN {}
                     ELSE IF i - ls <= h.n THEN h.limbs[i - ls] ELSE h.limbs[i]]
             g == [h EXCEPT !.limbs = l, !.n = n]
  <2>1. LLShift(h, ls) = Normalized(g)
    BY <1>3 DEF LLShift
  <2>2. n \in Nat /\ n <= Cap(h)
    BY <1>h DEF Smaller
  <2>3. \A i \in 1 .. Cap(h) : ~(i <= ls) /\ i - ls <= h.n => i - ls \in 1 .. Cap(h)
    BY <1>h
  <2> HIDE DEF n
  <2>4. l \in [1 .. Cap(h) -> Limb]
    BY <2>3, SoundFields, Constants
  <2> HIDE DEF l
  <2>5. g = [limbs |-> l, n |-> n, sign |-> h.sign]
    BY ExceptLimbs, Zenon
  <2> HIDE DEF g
  <2>6. Sound(g) /\ Cap(g) = Cap(h)
    BY <2>2, <2>4, <2>5, MadeSound, SoundFields
  <2> QED  BY <2>1, <2>6, NormalizedSound
<1> QED  BY <1>1, <1>2, <1>3

LEMMA MutRShiftSound ==
  ASSUME NEW h, Sound(h), NEW k \in Shifts, NEW g \in MutRShift(h, k)
  PROVE  Sound(g) /\ ArithValid(g)
<1>p. PICK down \in RLShift(h, LimbShift(k)) :
        /\ down.n - LimbShift(k) >= 0
        /\ g = Normalized(DownLoop([down EXCEPT !.n = down.n - LimbShift(k)], down.limbs,
                                   down.n - LimbShift(k), BitShift(k)))
  BY Zenon DEF MutRShift
<1> DEFINE n == down.n - LimbShift(k)
           o == [down EXCEPT !.n = n]
<1>1. n >= 0 /\ g = Normalized(DownLoop(o, down.limbs, n, BitShift(k)))
  BY <1>p
<1>2. LimbShift(k) \in Nat /\ BitShift(k) \in Nat /\ BitShift(k) < Bits
  BY ShiftParts
<1>3. Sound(down)
  BY <1>2, RLShiftSound
<1>4. down.n \in Nat /\ down.n <= Cap(down) /\ Cap(down) \in Nat /\ \A i \in 1 .. Cap(down) : down.limbs[i] \in Limb
  BY <1>3, SoundFields
<1>5. n \in Nat /\ n <= Cap(down) /\ \A i \in 1 .. n : down.limbs[i] \in Limb
  BY <1>1, <1>2, <1>4
<1> HIDE DEF n
<1>6. Sound(o)
  BY <1>3, <1>5, LengthSound
<1> HIDE DEF o
<1> QED  BY <1>1, <1>2, <1>5, <1>6, DownLoopSound, NormalizedSound

LEMMA MutLShiftSound ==
  ASSUME NEW h, Sound(h), NEW k \in Shifts
  PROVE  Sound(MutLShift(h, k)) /\ ArithValid(MutLShift(h, k))
<1> DEFINE up == LLShift(h, LimbShift(k))
<1>1. MutLShift(h, k) = Normalized(UpLoop(up, up.limbs, LimbShift(k) + 1, up.n, BitShift(k)))
  BY DEF MutLShift
<1>2. LimbShift(k) \in Nat /\ BitShift(k) \in Nat /\ BitShift(k) < Bits
  BY ShiftParts
<1>3. Sound(up)
  BY <1>2, LLShiftSound
<1> HIDE DEF up
<1>4. up.n \in Nat /\ \A i \in 1 .. up.n : up.limbs[i] \in Limb
  BY <1>3, SoundFields
<1>5. LimbShift(k) + 1 \in Nat /\ LimbShift(k) + 1 >= 1
  BY <1>2
<1> QED  BY <1>1, <1>2, <1>3, <1>4, <1>5, UpLoopSound, NormalizedSound

LEMMA MutLShiftGSound ==
  ASSUME NEW h, Sound(h), NEW k \in Shifts, NEW g \in MutLShiftG(h, k)
  PROVE  Sound(g) /\ ArithValid(g)
<1> DEFINE n == h.n + LimbShift(k) + (IF BitShift(k) > 0 THEN 1 ELSE 0)
           Moved(o) == [LLShift(o, LimbShift(k)) EXCEPT !.n = n]
<1>1. MutLShiftG(h, k) = {Normalized(UpLoop(Moved(o), Moved(o).limbs, LimbShift(k) + 1, n, BitShift(k))) : o \in Grown(h, n)}
  BY DEF MutLShiftG
<1>2. LimbShift(k) \in Nat /\ BitShift(k) \in Nat /\ BitShift(k) < Bits
  BY ShiftParts
<1>3. n \in Nat
  BY <1>2, SoundFields
<1> HIDE DEF n
<1>4. PICK o \in Grown(h, n) : g = Normalized(UpLoop(Moved(o), Moved(o).limbs, LimbShift(k) + 1, n, BitShift(k)))
  BY <1>1
<1>5. Sound(o) /\ Cap(o) >= n
  BY <1>3, <1>4, GrownSound
<1>6. Sound(LLShift(o, LimbShift(k))) /\ n <= Cap(LLShift(o, LimbShift(k)))
  BY <1>2, <1>5, LLShiftSound
<1>7. Sound(Moved(o)) /\ Moved(o).n = n
  BY <1>3, <1>6, LengthSound
<1> HIDE DEF Moved
<1>8. \A i \in 1 .. n : Moved(o).limbs[i] \in Limb
  BY <1>7, SoundFields
<1>9. LimbShift(k) + 1 \in Nat /\ LimbShift(k) + 1 >= 1
  BY <1>2
<1> QED  BY <1>2, <1>3, <1>4, <1>7, <1>8, <1>9, UpLoopSound, NormalizedSound

LEMMA FunRShiftSound ==
  ASSUME NEW h, Sound(h), NEW k \in Shifts, NEW g \in FunRShift(h, k)
  PROVE  Sound(g) /\ ArithValid(g)
<1> DEFINE n == h.n - LimbShift(k)
<1>p. /\ ~(n < 0)
      /\ \E down \in RLShift(CopyOf(h), LimbShift(k)) :
           g = Normalized([DownLoop(down, h.limbs, n, BitShift(k)) EXCEPT !.n = n, !.sign = h.sign])
  BY Zenon DEF FunRShift
<1>q. PICK down \in RLShift(CopyOf(h), LimbShift(k)) :
        g = Normalized([DownLoop(down, h.limbs, n, BitShift(k)) EXCEPT !.n = n, !.sign = h.sign])
  BY <1>p
<1> DEFINE q == DownLoop(down, h.limbs, n, BitShift(k))
           s == h.sign
           o == [q EXCEPT !.n = n, !.sign = s]
<1>1. ~(n < 0) /\ g = Normalized(o)
  BY <1>p, <1>q
<1>2. LimbShift(k) \in Nat /\ BitShift(k) \in Nat /\ BitShift(k) < Bits
  BY ShiftParts
<1>3. h.n \in Nat /\ s \in {1, -1} /\ \A i \in 1 .. h.n : h.limbs[i] \in Limb
  BY SoundFields
<1>4. Sound(CopyOf(h)) /\ h.n <= Cap(CopyOf(h)) /\ Cap(CopyOf(h)) \in Nat
  BY <1>3, CopyOfSound, SoundFields
<1>5. Sound(down) /\ Cap(down) = Cap(CopyOf(h))
  BY <1>2, <1>4, RLShiftSound
<1>6. n \in Nat /\ n <= h.n /\ \A i \in 1 .. n : h.limbs[i] \in Limb
  BY <1>1, <1>2, <1>3
<1> HIDE DEF n, s
<1>7. Sound(q) /\ Cap(q) = Cap(down)
  BY <1>2, <1>5, <1>6, DownLoopSound
<1> HIDE DEF q
<1>8. o = [limbs |-> q.limbs, n |-> n, sign |-> s]
  BY <1>7, ExceptSign, Zenon
<1>9. n <= Cap(q)
  BY <1>3, <1>4, <1>5, <1>6, <1>7
<1> HIDE DEF o
<1>10. Sound(o)
  BY <1>3, <1>6, <1>7, <1>8, <1>9, MadeSound, SoundFields
<1> QED  BY <1>1, <1>10, NormalizedSound

LEMMA FunLShiftSound ==
  ASSUME NEW h, Sound(h), NEW k \in Shifts
  PROVE  Sound(FunLShift(h, k)) /\ ArithValid(FunLShift(h, k))
<1> DEFINE up == LLShift(CopyOf(h), LimbShift(k))
<1>1. FunLShift(h, k) = Normalized(UpLoop(up, h.limbs, LimbShift(k) + 1, h.n, BitShift(k)))
  BY DEF FunLShift
<1>2. LimbShift(k) \in Nat /\ BitShift(k) \in Nat /\ BitShift(k) < Bits
  BY ShiftParts
<1>3. Sound(up)
  BY <1>2, CopyOfSound, LLShiftSound
<1> HIDE DEF up
<1>4. h.n \in Nat /\ \A i \in 1 .. h.n : h.limbs[i] \in Limb
  BY SoundFields
<1>5. LimbShift(k) + 1 \in Nat /\ LimbShift(k) + 1 >= 1
  BY <1>2
<1> QED  BY <1>1, <1>2, <1>3, <1>4, <1>5, UpLoopSound, NormalizedSound

LEMMA FunLShiftGSound ==
  ASSUME NEW h, Sound(h), NEW k \in Shifts, Cap(FunLShiftG(h, k)) <= MaxCap
  PROVE  Sound(FunLShiftG(h, k))
<1> DEFINE n == h.n + LimbShift(k) + (IF BitShift(k) > 0 THEN 1 ELSE 0)
           c == Larger(n, 1)
           l == [i \in 1 .. c |-> IF i <= LimbShift(k) THEN {} ELSE LimbOf(h, i - LimbShift(k))]
           s == h.sign
           up == [limbs |-> l, n |-> n, sign |-> s]
           q == UpLoop(up, up.limbs, LimbShift(k) + 1, n, BitShift(k))
<1>1. FunLShiftG(h, k) = Normalized(q)
  BY DEF FunLShiftG
<1>2. LimbShift(k) \in Nat /\ BitShift(k) \in Nat /\ BitShift(k) < Bits
  BY ShiftParts
<1>3. n \in Nat /\ s \in {1, -1}
  BY <1>2, SoundFields
<1>4. c \in Nat /\ c >= 1 /\ n <= c
  BY <1>3 DEF Larger
<1> HIDE DEF n, c, s
<1>5. l \in [1 .. c -> Limb]
  <2> SUFFICES ASSUME NEW i \in 1 .. c
               PROVE  (IF i <= LimbShift(k) THEN {} ELSE LimbOf(h, i - LimbShift(k))) \in Limb
    OBVIOUS
  <2>1. ~(i <= LimbShift(k)) => i - LimbShift(k) \in Nat \ {0}
    BY <1>2, <1>4
  <2> QED  BY <2>1, LimbOfSound, Constants
<1>6. Len(l) = c /\ DOMAIN l = 1 .. c
  BY <1>4
<1>7. c <= MaxCap
  <2>1. DOMAIN q.limbs = 1 .. c /\ q.limbs = [i \in 1 .. c |-> q.limbs[i]]
    BY <1>6 DEF UpLoop
  <2>2. Normalized(q).limbs = q.limbs
    BY DEF Normalized, UpLoop
  <2>3. Len(q.limbs) = c
    BY <1>4, <2>1
  <2> QED  BY <1>1, <2>2, <2>3 DEF Cap
<1> HIDE DEF l
<1>8. Sound(up) /\ Cap(up) = c
  BY <1>3, <1>4, <1>5, <1>7, MadeSound
<1>9. up.n = n /\ \A i \in 1 .. n : up.limbs[i] \in Limb
  BY <1>3, <1>4, <1>5
<1>10. LimbShift(k) + 1 \in Nat /\ LimbShift(k) + 1 >= 1
  BY <1>2
<1> HIDE DEF up
<1>11. Sound(q)
  BY <1>2, <1>3, <1>8, <1>9, <1>10, UpLoopSound
<1> HIDE DEF q
<1> QED  BY <1>1, <1>11, NormalizedSound

-----------------------------------------------------------------------------
(* The invariant, one lemma for each kind of call *)

LEMMA FreshSound ==
  ASSUME NEW h \in Fresh
  PROVE  Sound(h)
<1>1. PICK c \in 1 .. MaxCap : h \in [limbs : [1 .. c -> Limb], n : {0}, sign : {1}]
  BY DEF Fresh
<1>2. PICK l \in [1 .. c -> Limb] : h = [limbs |-> l, n |-> 0, sign |-> 1]
  BY <1>1
<1>3. c \in Nat /\ c >= 1 /\ c <= MaxCap
  BY Constants
<1> QED  BY <1>2, <1>3, MadeSound

LEMMA InPlaceStep ==
  ASSUME IInv, CallWord \/ CallNumber \/ CallExWord \/ CallExInt \/ CallExNumber
  PROVE  IInv'
<1>1. CASE CallWord
  BY <1>1, MutWordSound DEF CallWord, Returns, IInv, Words
<1>2. CASE CallNumber
  BY <1>2, MutNumberSound DEF CallNumber, Returns, IInv
<1>3. CASE CallExWord
  BY <1>3, MutExWordSound DEF CallExWord, Returns, IInv, Words
<1>4. CASE CallExInt
  BY <1>4, MutExIntSound DEF CallExInt, Returns, IInv
<1>5. CASE CallExNumber
  BY <1>5, MutExNumberSound DEF CallExNumber, Returns, IInv
<1> QED  BY <1>1, <1>2, <1>3, <1>4, <1>5

LEMMA ShiftStep ==
  ASSUME IInv, CallNot \/ CallShift
  PROVE  IInv'
<1>1. CASE CallNot
  BY <1>1, MutNotSound DEF CallNot, Returns, IInv
<1>2. CASE CallShift
  <2>1. PICK k \in Shifts : \/ \E h \in MutRShift(x, k) \cup MutLShiftG(x, k) : x' = h
                            \/ x' = MutLShift(x, k)
    BY <1>2 DEF CallShift, Returns
  <2> QED  BY <2>1, MutRShiftSound, MutLShiftGSound, MutLShiftSound DEF IInv
<1> QED  BY <1>1, <1>2

LEMMA TransferStep ==
  ASSUME IInv, CallAndTransfer
  PROVE  IInv'
<1>1. CASE \E f \in Functions, w \in Words : Returns(FunWord(f, x, w))
  BY <1>1, FunWordSound DEF Returns, IInv, Words
<1>2. CASE \E f \in Functions, y \in Operands : Returns(FunNumber(f, x, y))
  BY <1>2, FunNumberSound DEF Returns, IInv
<1>3. CASE \E f \in Functions, k \in Ranges :
             \/ \E w \in Words : Returns(FunExWord(f, x, w, k))
             \/ \E v \in IntWords : Returns(FunExInt(f, x, v, k))
             \/ \E y \in Operands : Returns(FunExNumber(f, x, y, k))
  BY <1>3, FunExSound DEF Returns, IInv, Words
<1>4. CASE Returns(FunNot(x))
  BY <1>4, FunNotSound DEF Returns, IInv
<1>5. CASE \E k \in Shifts :
             \/ \E h \in FunRShift(x, k) \cup {FunLShift(x, k)} : Returns(h)
             \/ Cap(FunLShiftG(x, k)) <= MaxCap /\ Returns(FunLShiftG(x, k))
  <2>1. PICK k \in Shifts :
          \/ \E h \in FunRShift(x, k) : x' = h
          \/ x' = FunLShift(x, k)
          \/ Cap(FunLShiftG(x, k)) <= MaxCap /\ x' = FunLShiftG(x, k)
    BY <1>5 DEF Returns
  <2> QED  BY <2>1, FunRShiftSound, FunLShiftSound, FunLShiftGSound DEF IInv
<1> QED  BY <1>1, <1>2, <1>3, <1>4, <1>5 DEF CallAndTransfer

LEMMA AssignStep ==
  ASSUME IInv, Assign
  PROVE  IInv'
<1>1. CASE \E w \in Words : x' = [Lowest(x, w) EXCEPT !.sign = 1]
  <2>1. PICK w \in Limb : x' = [Lowest(x, w) EXCEPT !.sign = 1]
    BY <1>1 DEF Words
  <2> DEFINE o == Lowest(x, w)
             s == 1
             g == [o EXCEPT !.sign = s]
  <2>2. x' = g
    BY <2>1
  <2>3. Sound(o)
    BY LowestSound DEF IInv
  <2>4. s \in {1, -1}
    OBVIOUS
  <2> HIDE DEF o, s
  <2>5. g = [limbs |-> o.limbs, n |-> o.n, sign |-> s]
    BY <2>3, ExceptField, Zenon
  <2> HIDE DEF g
  <2>6. Sound(g)
    BY <2>3, <2>4, <2>5, MadeSound, SoundFields
  <2> QED  BY <2>2, <2>6 DEF IInv
<1>2. CASE \E y \in Operands : y.n > 0 /\ x' = y
  BY <1>2, OperandFields DEF IInv
<1> QED  BY <1>1, <1>2 DEF Assign

\* Whatever calls follow each other, and whichever of them fails for lack of memory, the array
\* is one the client had allocated and the length is within it.
THEOREM SoundInvariant == Spec => []IInv
<1>1. Init => IInv
  BY FreshSound DEF Init, IInv
<1>2. ASSUME IInv, [Next]_vars PROVE IInv'
  <2>1. CASE CallFails
    BY <1>2, <2>1 DEF CallFails, IInv
  <2>2. CASE Renew
    BY <2>2, FreshSound DEF Renew, IInv
  <2>3. CASE UNCHANGED vars
    BY <1>2, <2>3 DEF vars, IInv
  <2> QED  BY <1>2, <2>1, <2>2, <2>3, InPlaceStep, ShiftStep, TransferStep, AssignStep DEF Next
<1> QED  BY <1>1, <1>2, PTL DEF Spec

LEMMA InvariantIsContract ==
  ASSUME IInv
  PROVE  CoreContract
BY SoundFields DEF IInv, CoreContract, CoreValid

\* What the next call would leave: a number it may be called with again.
LEMMA InvariantStaysNormal ==
  ASSUME IInv
  PROVE  StaysNormal
<1> USE DEF IInv, Words
<1>1. ASSUME ArithValid(x)
      PROVE  ArithValid(MutNot(x)) /\ ArithValid(FunNot(x))
  BY MutNotSound, FunNotSound
<1>2. ASSUME ArithValid(x), NEW k \in Shifts
      PROVE  /\ \A h \in MutLShiftG(x, k) \cup MutRShift(x, k) \cup FunRShift(x, k) : ArithValid(h)
             /\ ArithValid(MutLShift(x, k)) /\ ArithValid(FunLShift(x, k))
  BY MutLShiftGSound, MutRShiftSound, FunRShiftSound, MutLShiftSound, FunLShiftSound
<1>3. ASSUME ArithValid(x), NEW f \in Functions \ {"nand"}
      PROVE  /\ \A w \in Words : ArithValid(MutWord(f, x, w)) /\ ArithValid(FunWord(f, x, w))
             /\ \A y \in Operands :
                  /\ ArithValid(FunNumber(f, x, y))
                  /\ ~(f = "or" /\ x.n = 0) => \A h \in MutNumber(f, x, y) : ArithValid(h)
  <2>1. \A w \in Words : ArithValid(MutWord(f, x, w)) /\ ArithValid(FunWord(f, x, w))
    BY <1>3, MutWordSound, FunWordSound
  <2>2. \A y \in Operands : ArithValid(FunNumber(f, x, y))
    BY <1>3, FunNumberSound
  <2>3. \A y \in Operands : ~(f = "or" /\ x.n = 0) => \A h \in MutNumber(f, x, y) : ArithValid(h)
    BY <1>3, MutNumberSound
  <2> QED  BY <2>1, <2>2, <2>3
<1>4. ASSUME ArithValid(x), NEW f \in Functions, NEW k \in Ranges
      PROVE  /\ \A w \in Words : \A h \in MutExWord(f, x, w, k) : ArithValid(h)
             /\ \A y \in Operands : \A h \in MutExNumber(f, x, y, k) : ArithValid(h)
  BY <1>4, MutExWordSound, MutExNumberSound
<1> QED  BY <1>1, <1>2, <1>3, <1>4, InvariantIsContract DEF StaysNormal

\* Rules 1 to 4 of BIGNUM_CONTRACT.txt after every call, and every call that is not excused leaves
\* a number with a non-zero top limb, or zero with its positive sign, which the assertion at the
\* head of the next call accepts.
THEOREM BitsStayNormal == Spec => []StaysNormal
BY SoundInvariant, InvariantStaysNormal, PTL

-----------------------------------------------------------------------------
(* The bits of a number: the bit b of limb i has the place (i - 1) * Bits + b. *)

Place(i, b) == (i - 1) * Bits + b

\* A multiple of a larger number is larger by a limb at least.
LEMMA LimbsApart ==
  ASSUME NEW i \in Nat, NEW j \in Nat, i < j
  PROVE  i * Bits \in Nat /\ j * Bits \in Nat /\ i * Bits + Bits <= j * Bits
<1>1. PICK k \in Nat : j = i + 1 + k
  <2>1. j - i - 1 \in Nat /\ j = i + 1 + (j - i - 1)
    OBVIOUS
  <2> QED  BY <2>1
<1>2. Bits \in Nat
  BY Constants
<1>3. j * Bits = i * Bits + Bits + k * Bits /\ k * Bits \in Nat /\ i * Bits \in Nat
  BY <1>1, <1>2
<1> QED  BY <1>2, <1>3

LEMMA PlaceInRange ==
  ASSUME NEW i \in Nat \ {0}, NEW b \in AllOnes, NEW k \in Nat
  PROVE  Place(i, b) \in Nat /\ (Place(i, b) \in Window(k) <=> i <= k)
<1>1. b \in Nat /\ b < Bits /\ Bits \in Nat
  BY Constants DEF AllOnes
<1>2. i - 1 \in Nat /\ (i - 1) * Bits \in Nat /\ k * Bits \in Nat
  BY <1>1
<1>3. Place(i, b) \in Nat
  BY <1>1, <1>2 DEF Place
<1>4. ASSUME i <= k PROVE Place(i, b) < k * Bits
  <2>1. i - 1 < k
    BY <1>4
  <2> QED  BY <1>1, <1>2, <2>1, LimbsApart DEF Place
<1>5. ASSUME k < i PROVE k * Bits <= Place(i, b)
  <2>1. k = i - 1 \/ k < i - 1
    BY <1>5
  <2>2. CASE k = i - 1
    BY <1>1, <1>2, <2>2 DEF Place
  <2>3. CASE k < i - 1
    BY <1>1, <1>2, <2>3, LimbsApart DEF Place
  <2> QED  BY <2>1, <2>2, <2>3
<1>6. Place(i, b) \in Window(k) <=> Place(i, b) < k * Bits
  BY <1>2, <1>3 DEF Window
<1> QED  BY <1>2, <1>3, <1>4, <1>5, <1>6

\* A place has one limb and one bit.
LEMMA PlaceUnique ==
  ASSUME NEW i \in Nat \ {0}, NEW b \in AllOnes, NEW j \in Nat \ {0}, NEW c \in AllOnes,
         Place(i, b) = Place(j, c)
  PROVE  i = j /\ b = c
<1>1. b \in Nat /\ b < Bits /\ c \in Nat /\ c < Bits /\ Bits \in Nat
  BY Constants DEF AllOnes
<1>2. Place(i, b) \in Window(i) /\ Place(j, c) \in Window(j)
  BY PlaceInRange
<1>3. i <= j /\ j <= i
  BY <1>2, PlaceInRange
<1>4. i = j
  BY <1>3
<1>5. (i - 1) * Bits \in Nat
  BY <1>1
<1> QED  BY <1>1, <1>4, <1>5 DEF Place

\* And every place has them.
LEMMA PlaceOf ==
  ASSUME NEW p \in Nat
  PROVE  \E i \in Nat \ {0}, b \in AllOnes : p = Place(i, b)
<1> DEFINE q == p \div Bits
           r == p % Bits
<1>1. q \in Nat /\ r \in 0 .. Bits - 1 /\ p = Bits * q + r
  BY Constants
<1> HIDE DEF q, r
<1>2. (q + 1) - 1 = q /\ q + 1 \in Nat \ {0} /\ r \in AllOnes
  BY <1>1 DEF AllOnes
<1>3. Bits * q = q * Bits
  BY <1>1, Constants
<1>4. p = Place(q + 1, r)
  BY <1>1, <1>2, <1>3 DEF Place
<1> QED  BY <1>2, <1>4

\* Sets of places are equal when they have the same bits in every limb.
LEMMA SameBits ==
  ASSUME NEW S, NEW T, S \subseteq Nat, T \subseteq Nat,
         \A i \in Nat \ {0}, b \in AllOnes : Place(i, b) \in S <=> Place(i, b) \in T
  PROVE  S = T
<1>1. ASSUME NEW p \in Nat PROVE p \in S <=> p \in T
  BY PlaceOf
<1> QED  BY <1>1

\* A number whose limbs are limbs.
Clean(h) == h.n \in Nat /\ \A i \in Nat \ {0} : LimbOf(h, i) \subseteq AllOnes

LEMMA SoundClean ==
  ASSUME NEW h, Sound(h)
  PROVE  Clean(h)
<1>1. h.n \in Nat
  BY SoundFields
<1>2. \A i \in Nat \ {0} : LimbOf(h, i) \in Limb
  BY LimbOfSound
<1> QED  BY <1>1, <1>2 DEF Clean, Limb

LEMMA OperandClean ==
  ASSUME NEW y \in Operands
  PROVE  Clean(y) /\ y.n <= MaxCap
<1>1. y.n \in Nat /\ y.n <= MaxCap /\ \A i \in Nat \ {0} : LimbOf(y, i) \in Limb
  BY OperandFields
<1> QED  BY <1>1 DEF Clean, Limb

\* The bits of a number are those of its limbs.
LEMMA NumberBits ==
  ASSUME NEW h, Clean(h)
  PROVE  /\ Number(h) \subseteq Nat
         /\ \A i \in Nat \ {0}, b \in AllOnes : Place(i, b) \in Number(h) <=> b \in LimbOf(h, i)
<1>1. h.n \in Nat /\ \A i \in Nat \ {0} : LimbOf(h, i) \subseteq AllOnes
  BY DEF Clean
<1>2. \A j \in 1 .. h.n : j \in Nat \ {0} /\ LimbOf(h, j) = h.limbs[j] /\ h.limbs[j] \subseteq AllOnes
  BY <1>1 DEF LimbOf
<1>3. \A p : p \in Number(h) <=> \E j \in 1 .. h.n : \E c \in h.limbs[j] : p = Place(j, c)
  BY DEF Number, Place
<1>4. ASSUME NEW p \in Number(h) PROVE p \in Nat
  <2>1. PICK j \in 1 .. h.n : \E c \in h.limbs[j] : p = Place(j, c)
    BY <1>3
  <2>2. PICK c \in h.limbs[j] : p = Place(j, c)
    BY <2>1
  <2>3. j \in Nat \ {0} /\ c \in AllOnes
    BY <1>2, <2>1, <2>2
  <2> QED  BY <1>1, <2>2, <2>3, PlaceInRange
<1>5. ASSUME NEW i \in Nat \ {0}, NEW b \in AllOnes, Place(i, b) \in Number(h) PROVE b \in LimbOf(h, i)
  <2>1. PICK j \in 1 .. h.n : \E c \in h.limbs[j] : Place(i, b) = Place(j, c)
    BY <1>3, <1>5
  <2>2. PICK c \in h.limbs[j] : Place(i, b) = Place(j, c)
    BY <2>1
  <2>3. j \in Nat \ {0} /\ c \in AllOnes
    BY <1>2, <2>1, <2>2
  <2>4. i = j /\ b = c
    BY <2>2, <2>3, PlaceUnique
  <2> QED  BY <1>2, <2>1, <2>2, <2>4
<1>6. ASSUME NEW i \in Nat \ {0}, NEW b \in AllOnes, b \in LimbOf(h, i) PROVE Place(i, b) \in Number(h)
  <2>1. i <= h.n /\ b \in h.limbs[i]
    BY <1>6 DEF LimbOf
  <2>2. i \in 1 .. h.n
    BY <1>1, <2>1
  <2> QED  BY <1>3, <2>1, <2>2
<1> QED  BY <1>4, <1>5, <1>6

\* A number that has the same limbs has the same bits.
LEMMA SameLimbs ==
  ASSUME NEW g, Clean(g), NEW h, Clean(h), \A i \in Nat \ {0} : LimbOf(g, i) = LimbOf(h, i)
  PROVE  Number(g) = Number(h)
<1>1. \A i \in Nat \ {0}, b \in AllOnes : Place(i, b) \in Number(g) <=> Place(i, b) \in Number(h)
  BY NumberBits
<1>2. Number(g) \subseteq Nat /\ Number(h) \subseteq Nat
  BY NumberBits
<1> QED  BY <1>1, <1>2, SameBits

\* No bit lies above the length.
LEMMA NumberInWindow ==
  ASSUME NEW h, Clean(h), NEW k \in Nat, h.n <= k
  PROVE  Number(h) \subseteq Window(k)
<1>1. ASSUME NEW p \in Number(h) PROVE p \in Window(k)
  <2>1. p \in Nat
    BY NumberBits
  <2>2. PICK i \in Nat \ {0}, b \in AllOnes : p = Place(i, b)
    BY <2>1, PlaceOf
  <2>3. b \in LimbOf(h, i)
    BY <2>2, NumberBits
  <2>4. i <= h.n /\ h.n \in Nat
    BY <2>3 DEF LimbOf, Clean
  <2>5. i <= k
    BY <2>4
  <2> QED  BY <2>2, <2>5, PlaceInRange
<1> QED  BY <1>1

\* A number that is no limb longer than a limb is that limb.
LEMMA OneLimbNumber ==
  ASSUME NEW h, Clean(h), h.n <= 1
  PROVE  Number(h) = LimbOf(h, 1)
<1>1. LimbOf(h, 1) \subseteq AllOnes /\ h.n \in Nat
  BY DEF Clean
<1>2. \A b \in AllOnes : Place(1, b) = b /\ b \in Nat
  BY Constants DEF Place
<1>3. ASSUME NEW i \in Nat \ {0}, NEW b \in AllOnes
      PROVE  Place(i, b) \in Number(h) <=> Place(i, b) \in LimbOf(h, 1)
  <2>1. Place(i, b) \in Number(h) <=> b \in LimbOf(h, i)
    BY NumberBits
  <2>2. CASE i = 1
    BY <1>2, <2>1, <2>2
  <2>3. CASE i # 1
    <3>1. LimbOf(h, i) = {}
      BY <1>1, <2>3 DEF LimbOf
    <3>2. Place(i, b) \notin AllOnes
      <4>1. ASSUME Place(i, b) \in AllOnes PROVE FALSE
        <5>1. Place(i, b) = Place(1, Place(i, b))
          BY <1>2, <4>1
        <5> QED  BY <2>3, <4>1, <5>1, PlaceUnique
      <4> QED  BY <4>1
    <3> QED  BY <1>1, <2>1, <3>1, <3>2
  <2> QED  BY <2>2, <2>3
<1>4. Number(h) \subseteq Nat /\ LimbOf(h, 1) \subseteq Nat
  BY <1>1, NumberBits, Constants
<1> QED  BY <1>3, <1>4, SameBits

-----------------------------------------------------------------------------
(* The binary operations, bit by bit *)

LEMMA ApplySame ==
  ASSUME NEW f \in Functions, NEW p, NEW q, NEW a, NEW b, NEW u, NEW c, NEW d, NEW v,
         p \in a <=> q \in c, p \in b <=> q \in d, p \in u <=> q \in v
  PROVE  p \in Apply(f, a, b, u) <=> q \in Apply(f, c, d, v)
BY DEF Functions, Apply

LEMMA ApplyInside ==
  ASSUME NEW f \in Functions, NEW u, NEW a, NEW b, a \subseteq u, b \subseteq u
  PROVE  Apply(f, a, b, u) \subseteq u
BY DEF Functions, Apply

\* The k lowest limbs of g are those of h, operated on by e, whose bits are those of Y.
Operates(f, g, h, k, Y, e) ==
  /\ \A i \in 1 .. k : \A b \in AllOnes : b \in e[i] <=> Place(i, b) \in Y
  /\ \A i \in 1 .. k : LimbOf(g, i) = Apply(f, LimbOf(h, i), e[i], AllOnes)

\* Then the operation on the numbers is that on the limbs.
LEMMA OperationBelow ==
  ASSUME NEW f \in Functions, NEW g, Clean(g), NEW h, Clean(h), NEW k \in Nat, NEW Y, NEW e,
         Operates(f, g, h, k, Y, e),
         NEW i \in Nat \ {0}, NEW b \in AllOnes
  PROVE  /\ i <= k => (Place(i, b) \in Number(g)
                        <=> Place(i, b) \in Apply(f, Number(h) \cap Window(k), Y \cap Window(k), Window(k)))
         /\ ~(i <= k) => Place(i, b) \notin Apply(f, Number(h) \cap Window(k), Y \cap Window(k), Window(k))
<1> DEFINE p == Place(i, b)
           W == Window(k)
<1>1. p \in W <=> i <= k
  BY PlaceInRange
<1>2. (p \in Number(g) <=> b \in LimbOf(g, i)) /\ (p \in Number(h) <=> b \in LimbOf(h, i))
  BY NumberBits
<1> HIDE DEF p, W
<1>3. ASSUME i <= k
      PROVE  p \in Number(g) <=> p \in Apply(f, Number(h) \cap W, Y \cap W, W)
  <2>1. i \in 1 .. k
    BY <1>3
  <2>2. b \in e[i] <=> p \in Y \cap W
    BY <1>1, <1>3, <2>1 DEF p, Operates
  <2>3. b \in LimbOf(h, i) <=> p \in Number(h) \cap W
    BY <1>1, <1>2, <1>3
  <2>4. b \in Apply(f, LimbOf(h, i), e[i], AllOnes) <=> p \in Apply(f, Number(h) \cap W, Y \cap W, W)
    BY <1>1, <1>3, <2>2, <2>3, ApplySame
  <2>5. LimbOf(g, i) = Apply(f, LimbOf(h, i), e[i], AllOnes)
    BY <2>1 DEF Operates
  <2> QED  BY <1>2, <2>4, <2>5
<1>4. ASSUME ~(i <= k) PROVE p \notin Apply(f, Number(h) \cap W, Y \cap W, W)
  <2>1. Apply(f, Number(h) \cap W, Y \cap W, W) \subseteq W
    BY ApplyInside
  <2> QED  BY <1>1, <1>4, <2>1
<1> QED  BY <1>3, <1>4 DEF p, W

\* The operation over k limbs, and nothing above them.
LEMMA OperationExact ==
  ASSUME NEW f \in Functions, NEW g, Clean(g), NEW h, Clean(h), NEW k \in Nat, NEW Y, NEW e,
         Operates(f, g, h, k, Y, e),
         \A i \in Nat \ {0} : i > k => LimbOf(g, i) = {}
  PROVE  Number(g) = Apply(f, Number(h) \cap Window(k), Y \cap Window(k), Window(k))
<1> DEFINE W == Window(k)
           A == Apply(f, Number(h) \cap W, Y \cap W, W)
<1>1. ASSUME NEW i \in Nat \ {0}, NEW b \in AllOnes
      PROVE  /\ i <= k => (Place(i, b) \in Number(g) <=> Place(i, b) \in A)
             /\ ~(i <= k) => Place(i, b) \notin A
  BY OperationBelow
<1>2. A \subseteq W
  <2> HIDE DEF W
  <2> QED  BY ApplyInside
<1> HIDE DEF A
<1>3. W \subseteq Nat
  BY DEF Window
<1> HIDE DEF W
<1>4. ASSUME NEW i \in Nat \ {0}, NEW b \in AllOnes
      PROVE  Place(i, b) \in Number(g) <=> Place(i, b) \in A
  <2>1. ~(i <= k) => i > k
    OBVIOUS
  <2>2. ~(i <= k) => LimbOf(g, i) = {}
    BY <2>1
  <2>3. ~(i <= k) => Place(i, b) \notin Number(g)
    BY <2>2, NumberBits
  <2> QED  BY <1>1, <2>3
<1>5. A \subseteq Nat /\ Number(g) \subseteq Nat
  BY <1>2, <1>3, NumberBits
<1>6. Number(g) = A
  BY <1>4, <1>5, SameBits
<1> QED  BY <1>6 DEF A, W

\* The operation over the k lowest limbs, and the others stay.
LEMMA OperationStays ==
  ASSUME NEW f \in Functions, NEW g, Clean(g), NEW h, Clean(h), NEW k \in Nat, NEW Y, NEW e,
         Operates(f, g, h, k, Y, e),
         \A i \in Nat \ {0} : i > k => LimbOf(g, i) = LimbOf(h, i)
  PROVE  Number(g) = (Number(h) \ Window(k))
                     \cup Apply(f, Number(h) \cap Window(k), Y \cap Window(k), Window(k))
<1> DEFINE W == Window(k)
           A == Apply(f, Number(h) \cap W, Y \cap W, W)
           S == (Number(h) \ W) \cup A
<1>1. ASSUME NEW i \in Nat \ {0}, NEW b \in AllOnes
      PROVE  /\ i <= k => (Place(i, b) \in Number(g) <=> Place(i, b) \in A)
             /\ ~(i <= k) => Place(i, b) \notin A
  BY OperationBelow
<1>2. A \subseteq W
  <2> HIDE DEF W
  <2> QED  BY ApplyInside
<1> HIDE DEF A
<1>3. W \subseteq Nat
  BY DEF Window
<1>w. ASSUME NEW i \in Nat \ {0}, NEW b \in AllOnes
      PROVE  Place(i, b) \in W <=> i <= k
  BY PlaceInRange
<1> HIDE DEF W
<1>4. ASSUME NEW i \in Nat \ {0}, NEW b \in AllOnes
      PROVE  Place(i, b) \in Number(g) <=> Place(i, b) \in S
  <2>1. ~(i <= k) => i > k
    OBVIOUS
  <2>2. ~(i <= k) => LimbOf(g, i) = LimbOf(h, i)
    BY <2>1
  <2>3. ~(i <= k) => (Place(i, b) \in Number(g) <=> Place(i, b) \in Number(h))
    BY <2>2, NumberBits
  <2> QED  BY <1>1, <1>w, <2>3
<1>5. S \subseteq Nat /\ Number(g) \subseteq Nat
  BY <1>2, <1>3, NumberBits
<1> HIDE DEF S
<1>6. Number(g) = S
  BY <1>4, <1>5, SameBits
<1> QED  BY <1>6 DEF S, A, W

\* A set of places within the window loses nothing there.
LEMMA WithinWindow ==
  ASSUME NEW h, Clean(h), NEW k \in Nat, h.n <= k
  PROVE  Number(h) \cap Window(k) = Number(h)
BY NumberInWindow

-----------------------------------------------------------------------------
(* The limbs that the helpers leave *)

LEMMA NormalizedLimbs ==
  ASSUME NEW f, NEW n \in Nat, NEW s, NEW h, h = [limbs |-> f, n |-> n, sign |-> s]
  PROVE  /\ Normalized(h).n \in Nat /\ Normalized(h).n <= n
         /\ \A i \in Nat \ {0} : LimbOf(Normalized(h), i) = LimbOf(h, i)
<1> DEFINE Top(m) == /\ m > 0 => f[m] # {}
                     /\ \A i \in m + 1 .. n : f[i] = {}
           m == CHOOSE m \in 0 .. n : Top(m)
           s2 == IF m = 0 THEN 1 ELSE s
           o == [h EXCEPT !.n = m]
<1>1. m \in 0 .. n /\ Top(m)
  BY TopLimb
<1>2. h.limbs = f /\ h.n = n /\ h.sign = s
  OBVIOUS
<1>3. Normalized(h) = [o EXCEPT !.sign = s2]
  <2>1. Normalized(h) = [h EXCEPT !.n = m, !.sign = s2]
    BY <1>2 DEF Normalized
  <2> HIDE DEF m, s2
  <2> QED  BY <2>1, Zenon
<1>4. \A i \in m + 1 .. n : f[i] = {}
  BY <1>1
<1> HIDE DEF Top, m, s2
<1>5. o = [limbs |-> f, n |-> m, sign |-> s]
  OBVIOUS
<1>6. Normalized(h) = [limbs |-> f, n |-> m, sign |-> s2]
  BY <1>3, <1>5
<1>7. m \in Nat /\ m <= n
  BY <1>1
<1>8. ASSUME NEW i \in Nat \ {0} PROVE LimbOf(Normalized(h), i) = LimbOf(h, i)
  <2>1. LimbOf(Normalized(h), i) = IF i <= m THEN f[i] ELSE {}
    BY <1>6 DEF LimbOf
  <2>2. LimbOf(h, i) = IF i <= n THEN f[i] ELSE {}
    BY <1>2 DEF LimbOf
  <2>3. i <= n /\ ~(i <= m) => i \in m + 1 .. n
    BY <1>7
  <2> QED  BY <1>4, <1>7, <2>1, <2>2, <2>3
<1> QED  BY <1>6, <1>7, <1>8

LEMMA NormalizedNumber ==
  ASSUME NEW h, Sound(h)
  PROVE  /\ Clean(Normalized(h)) /\ Number(Normalized(h)) = Number(h)
         /\ \A i \in Nat \ {0} : LimbOf(Normalized(h), i) = LimbOf(h, i)
<1>1. h = [limbs |-> h.limbs, n |-> h.n, sign |-> h.sign] /\ h.n \in Nat
  BY SoundFields
<1>2. \A i \in Nat \ {0} : LimbOf(Normalized(h), i) = LimbOf(h, i)
  BY <1>1, NormalizedLimbs
<1>3. Clean(Normalized(h)) /\ Clean(h)
  BY NormalizedSound, SoundClean
<1> QED  BY <1>2, <1>3, SameLimbs

\* One limb, or none.
LEMMA LowestNumber ==
  ASSUME NEW h, Sound(h), NEW limb \in Limb
  PROVE  /\ Clean(Lowest(h, limb)) /\ Number(Lowest(h, limb)) = limb
         /\ \A i \in Nat \ {0} : LimbOf(Lowest(h, limb), i) = IF i = 1 THEN limb ELSE {}
<1> DEFINE f == [h.limbs EXCEPT ![1] = limb]
           n == IF limb = {} THEN 0 ELSE 1
           s == IF limb = {} THEN 1 ELSE h.sign
<1>1. f[1] = limb
  BY SoundFields
<1>2. Lowest(h, limb) = [limbs |-> f, n |-> n, sign |-> s]
  <2>1. Lowest(h, limb) = [h EXCEPT !.limbs = f, !.n = n, !.sign = s]
    BY DEF Lowest
  <2> HIDE DEF f, n, s
  <2>2. [h EXCEPT !.limbs = f, !.n = n, !.sign = s] = [limbs |-> f, n |-> n, sign |-> s]
    BY ExceptAll, Zenon
  <2> QED  BY <2>1, <2>2, Zenon
<1>3. Lowest(h, limb).n = n /\ Lowest(h, limb).limbs = f
  BY <1>2
<1> HIDE DEF f
<1>4. \A i \in Nat \ {0} : LimbOf(Lowest(h, limb), i) = IF i = 1 THEN limb ELSE {}
  BY <1>1, <1>3 DEF LimbOf
<1>5. Clean(Lowest(h, limb))
  BY LowestSound, SoundClean
<1>6. Lowest(h, limb).n <= 1
  BY <1>3
<1>7. 1 \in Nat \ {0}
  OBVIOUS
<1> QED  BY <1>4, <1>5, <1>6, <1>7, OneLimbNumber

\* The same number in a longer array.
LEMMA GrownNumber ==
  ASSUME NEW h, Sound(h), NEW k \in Nat, NEW g \in Grown(h, k)
  PROVE  /\ Clean(g) /\ Number(g) = Number(h)
         /\ \A i \in Nat \ {0} : LimbOf(g, i) = LimbOf(h, i)
<1>1. /\ Sound(g) /\ g.n = h.n
      /\ \A i \in 1 .. Cap(h) : g.limbs[i] = h.limbs[i]
  BY GrownSound
<1>2. h.n \in Nat /\ h.n <= Cap(h) /\ Cap(h) \in Nat
  BY SoundFields
<1>3. \A i \in Nat \ {0} : LimbOf(g, i) = LimbOf(h, i)
  BY <1>1, <1>2 DEF LimbOf
<1>4. Clean(g) /\ Clean(h)
  BY <1>1, SoundClean
<1> QED  BY <1>3, <1>4, SameLimbs

-----------------------------------------------------------------------------
(* The second operands, as the loops see them *)

\* A word is its own number, whose limbs above the first are zero.
LEMMA WordPlaces ==
  ASSUME NEW w \in Limb
  PROVE  /\ w \subseteq AllOnes /\ w \subseteq Nat
         /\ \A i \in Nat \ {0}, b \in AllOnes : Place(i, b) \in w <=> i = 1 /\ b \in w
<1>1. w \subseteq AllOnes /\ AllOnes \subseteq Nat
  BY Constants DEF Limb
<1>2. \A b \in AllOnes : Place(1, b) = b /\ b \in Nat
  BY Constants DEF Place
<1>3. ASSUME NEW i \in Nat \ {0}, NEW b \in AllOnes, Place(i, b) \in w
      PROVE  i = 1 /\ b \in w
  <2>1. Place(i, b) \in AllOnes
    BY <1>1, <1>3
  <2>2. Place(i, b) = Place(1, Place(i, b))
    BY <1>2, <2>1
  <2>3. 1 \in Nat \ {0}
    OBVIOUS
  <2>4. i = 1 /\ b = Place(i, b)
    BY <2>1, <2>2, <2>3, PlaceUnique
  <2> QED  BY <1>3, <2>4
<1> QED  BY <1>1, <1>2, <1>3

LEMMA WordBits ==
  ASSUME NEW w \in Limb, NEW k \in Nat, k <= MaxCap
  PROVE  \A i \in 1 .. k : \A b \in AllOnes : b \in WordLimbs(w)[i] <=> Place(i, b) \in w
<1> SUFFICES ASSUME NEW i \in 1 .. k, NEW b \in AllOnes
             PROVE  b \in WordLimbs(w)[i] <=> Place(i, b) \in w
  OBVIOUS
<1>1. i \in Nat \ {0} /\ i \in 1 .. MaxCap
  BY Constants
<1>2. WordLimbs(w)[i] = IF i = 1 THEN w ELSE {}
  BY <1>1 DEF WordLimbs
<1> QED  BY <1>1, <1>2, WordPlaces

LEMMA OperandBits ==
  ASSUME NEW y \in Operands, NEW k \in Nat, k <= MaxCap
  PROVE  \A i \in 1 .. k : \A b \in AllOnes : b \in NumberLimbs(y)[i] <=> Place(i, b) \in Number(y)
<1> SUFFICES ASSUME NEW i \in 1 .. k, NEW b \in AllOnes
             PROVE  b \in NumberLimbs(y)[i] <=> Place(i, b) \in Number(y)
  OBVIOUS
<1>1. i \in Nat \ {0} /\ i \in 1 .. MaxCap
  BY Constants
<1>2. NumberLimbs(y)[i] = LimbOf(y, i)
  BY <1>1 DEF NumberLimbs
<1>3. Clean(y)
  BY OperandClean
<1> QED  BY <1>1, <1>2, <1>3, NumberBits

\* k limbs taken for a number.
LEMMA LimbsBits ==
  ASSUME NEW e, NEW k \in Nat, \A i \in 1 .. k : e[i] \in Limb
  PROVE  LET h == [limbs |-> e, n |-> k]
         IN  /\ Number(h) \subseteq Window(k)
             /\ \A i \in 1 .. k : \A b \in AllOnes : b \in e[i] <=> Place(i, b) \in Number(h)
<1> DEFINE h == [limbs |-> e, n |-> k]
<1>1. h.limbs = e /\ h.n = k
  OBVIOUS
<1> HIDE DEF h
<1>2. \A i \in 1 .. k : LimbOf(h, i) = e[i]
  BY <1>1 DEF LimbOf
<1>3. \A i \in Nat \ {0} : LimbOf(h, i) \subseteq AllOnes
  BY <1>1 DEF LimbOf, Limb
<1>4. Clean(h)
  BY <1>1, <1>3 DEF Clean
<1>5. \A i \in 1 .. k : \A b \in AllOnes : b \in e[i] <=> Place(i, b) \in Number(h)
  BY <1>2, <1>4, NumberBits
<1>6. Number(h) \subseteq Window(k)
  BY <1>1, <1>4, NumberInWindow
<1> QED  BY <1>5, <1>6 DEF h

\* e has the limbs that a loop over k limbs needs, and they have the bits of Y.
Sees(e, k, Y) ==
  /\ \A i \in 1 .. MaxCap : e[i] \in Limb
  /\ \A i \in 1 .. k : \A b \in AllOnes : b \in e[i] <=> Place(i, b) \in Y

LEMMA OperandsSeen ==
  ASSUME NEW k \in Nat, k <= MaxCap
  PROVE  /\ \A w \in Limb : Sees(WordLimbs(w), k, w)
         /\ \A y \in Operands : Sees(NumberLimbs(y), k, Number(y))
BY WordLimbsSound, WordBits, NumberLimbsSound, OperandBits DEF Sees

LEMMA LimbsSeen ==
  ASSUME NEW k \in Nat, k <= MaxCap, NEW e, \A i \in 1 .. MaxCap : e[i] \in Limb
  PROVE  LET Y == Number([limbs |-> e, n |-> k]) IN Sees(e, k, Y) /\ Y \subseteq Window(k)
<1> DEFINE Y == Number([limbs |-> e, n |-> k])
<1>1. \A i \in 1 .. k : e[i] \in Limb
  BY Constants
<1>2. Y \subseteq Window(k) /\ \A i \in 1 .. k : \A b \in AllOnes : b \in e[i] <=> Place(i, b) \in Y
  BY <1>1, LimbsBits
<1> QED  BY <1>2 DEF Sees

-----------------------------------------------------------------------------
(* The loops *)

LEMMA PointwiseLimbs ==
  ASSUME NEW f \in Functions, NEW h, Sound(h), NEW e, \A i \in 1 .. MaxCap : e[i] \in Limb,
         NEW k \in Nat, k <= Cap(h), NEW n \in Nat, n <= Cap(h)
  PROVE  /\ Clean(Pointwise(f, h, e, k, n))
         /\ \A i \in Nat \ {0} : LimbOf(Pointwise(f, h, e, k, n), i)
              = IF i > n THEN {} ELSE IF i <= k THEN Apply(f, LimbOf(h, i), e[i], AllOnes) ELSE h.limbs[i]
<1> DEFINE new(i) == Apply(f, LimbOf(h, i), e[i], AllOnes)
           l == [i \in DOMAIN h.limbs |-> IF i <= k THEN new(i) ELSE h.limbs[i]]
           g == [h EXCEPT !.limbs = l, !.n = n]
<1>1. Pointwise(f, h, e, k, n) = Normalized(g)
  BY DEF Pointwise
<1>2. Clean(Pointwise(f, h, e, k, n))
  BY PointwiseSound, SoundClean
<1> HIDE DEF new
<1>3. \A i \in 1 .. Cap(h) : l[i] = IF i <= k THEN new(i) ELSE h.limbs[i]
  BY SoundFields
<1> HIDE DEF l
<1>4. g = [limbs |-> l, n |-> n, sign |-> h.sign]
  BY ExceptLimbs, Zenon
<1> HIDE DEF g
<1>5. \A i \in Nat \ {0} : LimbOf(Normalized(g), i) = LimbOf(g, i)
  BY <1>4, NormalizedLimbs
<1>6. \A i \in Nat \ {0} : LimbOf(g, i) = IF i > n THEN {} ELSE l[i]
  BY <1>4 DEF LimbOf
<1>7. \A i \in Nat \ {0} : i <= n => i \in 1 .. Cap(h)
  BY SoundFields
<1>8. \A i \in Nat \ {0} : LimbOf(Normalized(g), i) = IF i > n THEN {} ELSE IF i <= k THEN new(i) ELSE h.limbs[i]
  BY <1>3, <1>5, <1>6, <1>7
<1> QED  BY <1>1, <1>2, <1>8 DEF new

\* All limbs of the number, and of the other operand.
LEMMA PointwiseExact ==
  ASSUME NEW f \in Functions, NEW h, Sound(h), NEW e,
         NEW k \in Nat, k <= Cap(h), h.n <= k, NEW Y, Y \subseteq Window(k),
         Sees(e, k, Y)
  PROVE  Number(Pointwise(f, h, e, k, k)) = Apply(f, Number(h), Y, Window(k))
<1> DEFINE g == Pointwise(f, h, e, k, k)
<1>e. /\ \A i \in 1 .. MaxCap : e[i] \in Limb
      /\ \A i \in 1 .. k : \A b \in AllOnes : b \in e[i] <=> Place(i, b) \in Y
  BY DEF Sees
<1>1. Clean(g) /\ \A i \in Nat \ {0} : LimbOf(g, i)
              = IF i > k THEN {} ELSE IF i <= k THEN Apply(f, LimbOf(h, i), e[i], AllOnes) ELSE h.limbs[i]
  BY <1>e, PointwiseLimbs
<1> HIDE DEF g
<1>2. \A i \in 1 .. k : i \in Nat \ {0} /\ ~(i > k) /\ i <= k
  OBVIOUS
<1>3. Operates(f, g, h, k, Y, e)
  BY <1>1, <1>2, <1>e DEF Operates
<1>4. Clean(h)
  BY SoundClean
<1>5. \A i \in Nat \ {0} : i > k => LimbOf(g, i) = {}
  BY <1>1
<1>6. Number(g) = Apply(f, Number(h) \cap Window(k), Y \cap Window(k), Window(k))
  BY <1>1, <1>3, <1>4, <1>5, OperationExact
<1>7. Number(h) \cap Window(k) = Number(h) /\ Y \cap Window(k) = Y
  BY <1>4, WithinWindow
<1> QED  BY <1>6, <1>7 DEF g

\* The k lowest limbs, and those above stay.
LEMMA PointwiseStays ==
  ASSUME NEW f \in Functions, NEW h, Sound(h), NEW e,
         NEW k \in Nat, k <= Cap(h), NEW Y, Y \subseteq Window(k),
         Sees(e, k, Y)
  PROVE  Number(Pointwise(f, h, e, k, Larger(h.n, k)))
           = (Number(h) \ Window(k)) \cup Apply(f, Number(h) \cap Window(k), Y, Window(k))
<1> DEFINE n == Larger(h.n, k)
           g == Pointwise(f, h, e, k, n)
<1>0. h.n \in Nat /\ h.n <= Cap(h) /\ Cap(h) \in Nat
  BY SoundFields
<1>n. n \in Nat /\ n <= Cap(h) /\ k <= n /\ h.n <= n /\ (n = h.n \/ n = k)
  BY <1>0 DEF Larger
<1> HIDE DEF n
<1>e. /\ \A i \in 1 .. MaxCap : e[i] \in Limb
      /\ \A i \in 1 .. k : \A b \in AllOnes : b \in e[i] <=> Place(i, b) \in Y
  BY DEF Sees
<1>1. Clean(g) /\ \A i \in Nat \ {0} : LimbOf(g, i)
              = IF i > n THEN {} ELSE IF i <= k THEN Apply(f, LimbOf(h, i), e[i], AllOnes) ELSE h.limbs[i]
  BY <1>n, <1>e, PointwiseLimbs
<1> HIDE DEF g
<1>2. \A i \in 1 .. k : i \in Nat \ {0} /\ ~(i > n) /\ i <= k
  BY <1>n
<1>3. Operates(f, g, h, k, Y, e)
  BY <1>1, <1>2, <1>e DEF Operates
<1>4. Clean(h)
  BY SoundClean
<1>5. \A i \in Nat \ {0} : i > k => LimbOf(g, i) = LimbOf(h, i)
  BY <1>0, <1>1, <1>n DEF LimbOf
<1>6. Number(g) = (Number(h) \ Window(k)) \cup Apply(f, Number(h) \cap Window(k), Y \cap Window(k), Window(k))
  BY <1>1, <1>3, <1>4, <1>5, OperationStays
<1>7. Y \cap Window(k) = Y
  OBVIOUS
<1> QED  BY <1>6, <1>7 DEF g, n

\* A new number of k limbs.
LEMMA MadeExact ==
  ASSUME NEW f \in Functions, NEW h, Sound(h), NEW e, NEW k \in Nat, k <= MaxCap,
         NEW s \in {1, -1}, NEW Y, Sees(e, k, Y)
  PROVE  Number(Made(f, h, e, k, s)) = Apply(f, Number(h) \cap Window(k), Y \cap Window(k), Window(k))
<1> DEFINE new(i) == Apply(f, LimbOf(h, i), e[i], AllOnes)
           l == [i \in 1 .. Larger(k, 1) |-> new(i)]
           q == [limbs |-> l, n |-> k, sign |-> s]
           g == Made(f, h, e, k, s)
<1>0. /\ \A i \in 1 .. MaxCap : e[i] \in Limb
      /\ \A i \in 1 .. k : \A b \in AllOnes : b \in e[i] <=> Place(i, b) \in Y
  BY DEF Sees
<1>1. g = Normalized(q)
  BY DEF Made
<1>2. Clean(g)
  BY <1>0, MadeNewSound, SoundClean
<1> HIDE DEF g, new
<1>3. \A i \in 1 .. k : l[i] = new(i)
  BY DEF Larger
<1> HIDE DEF l
<1>4. \A i \in Nat \ {0} : LimbOf(Normalized(q), i) = LimbOf(q, i)
  BY NormalizedLimbs
<1>5. \A i \in Nat \ {0} : LimbOf(q, i) = IF i > k THEN {} ELSE l[i]
  BY DEF LimbOf
<1> HIDE DEF q
<1>6. \A i \in Nat \ {0} : i > k => LimbOf(g, i) = {}
  BY <1>1, <1>4, <1>5
<1>7. \A i \in 1 .. k : LimbOf(g, i) = new(i)
  BY <1>1, <1>3, <1>4, <1>5
<1>8. Operates(f, g, h, k, Y, e)
  BY <1>0, <1>7 DEF Operates, new
<1>9. Clean(h)
  BY SoundClean
<1> QED  BY <1>2, <1>6, <1>8, <1>9, OperationExact DEF g

\* A memset of no bytes, and one of k limbs.
LEMMA FilledLimbs ==
  ASSUME NEW h, Sound(h), NEW from, NEW m
  PROVE  /\ Clean(Filled(h, from, m)) /\ Filled(h, from, m).n = h.n
         /\ \A i \in 1 .. Cap(h) : Filled(h, from, m).limbs[i]
              = h.limbs[i] \cup {b \in AllOnes : i > from /\ (i - from - 1) * Bits + b < m * ByteBits}
<1> DEFINE new(i) == {b \in AllOnes : i > from /\ (i - from - 1) * Bits + b < m * ByteBits}
           f == [i \in DOMAIN h.limbs |-> h.limbs[i] \cup new(i)]
<1>1. Filled(h, from, m) = [h EXCEPT !.limbs = f]
  BY DEF Filled
<1> HIDE DEF new
<1>2. \A i \in 1 .. Cap(h) : f[i] = h.limbs[i] \cup new(i)
  BY SoundFields
<1> HIDE DEF f
<1>3. Filled(h, from, m) = [limbs |-> f, n |-> h.n, sign |-> h.sign]
  BY <1>1, ExceptField, Zenon
<1>4. Clean(Filled(h, from, m))
  BY FilledSound, SoundClean
<1>5. Filled(h, from, m).limbs = f /\ Filled(h, from, m).n = h.n
  BY <1>3
<1> QED  BY <1>2, <1>4, <1>5 DEF new

LEMMA NothingFilled ==
  ASSUME NEW h, Sound(h), NEW from \in Nat
  PROVE  Number(Filled(h, from, 0)) = Number(h)
<1> DEFINE g == Filled(h, from, 0)
<1>1. /\ Clean(g) /\ g.n = h.n
      /\ \A i \in 1 .. Cap(h) : g.limbs[i]
           = h.limbs[i] \cup {b \in AllOnes : i > from /\ (i - from - 1) * Bits + b < 0 * ByteBits}
  BY FilledLimbs
<1> HIDE DEF g
<1>2. 0 * ByteBits = 0 /\ Bits \in Nat
  BY Constants
<1>3. ASSUME NEW i \in 1 .. Cap(h), NEW b \in AllOnes, i > from, (i - from - 1) * Bits + b < 0 PROVE FALSE
  <2>1. i - from - 1 \in Nat /\ b \in Nat
    BY <1>3, Constants
  <2>2. (i - from - 1) * Bits \in Nat
    BY <1>2, <2>1
  <2> QED  BY <1>3, <2>1, <2>2
<1>4. \A i \in 1 .. Cap(h) : g.limbs[i] = h.limbs[i]
  <2> SUFFICES ASSUME NEW i \in 1 .. Cap(h) PROVE g.limbs[i] = h.limbs[i]
    OBVIOUS
  <2>1. {b \in AllOnes : i > from /\ (i - from - 1) * Bits + b < 0 * ByteBits} = {}
    BY <1>2, <1>3
  <2>2. g.limbs[i] = h.limbs[i] \cup {b \in AllOnes : i > from /\ (i - from - 1) * Bits + b < 0 * ByteBits}
    BY <1>1
  <2> QED  BY <2>1, <2>2
<1>5. h.n \in Nat /\ h.n <= Cap(h) /\ Cap(h) \in Nat
  BY SoundFields
<1>6. \A i \in Nat \ {0} : LimbOf(g, i) = LimbOf(h, i)
  BY <1>1, <1>4, <1>5 DEF LimbOf
<1>7. Clean(h)
  BY SoundClean
<1> QED  BY <1>1, <1>6, <1>7, SameLimbs DEF g

LEMMA WholeLimbsFilled ==
  ASSUME NEW h, Sound(h), NEW k \in Nat
  PROVE  \A i \in 1 .. Cap(h) : Filled(h, 0, k * LimbBytes).limbs[i] = IF i <= k THEN AllOnes ELSE h.limbs[i]
<1>1. ASSUME NEW i \in 1 .. Cap(h)
      PROVE  Filled(h, 0, k * LimbBytes).limbs[i] = IF i <= k THEN AllOnes ELSE h.limbs[i]
  <2>1. Filled(h, 0, k * LimbBytes).limbs[i]
          = h.limbs[i] \cup {b \in AllOnes : i > 0 /\ (i - 0 - 1) * Bits + b < (k * LimbBytes) * ByteBits}
    BY FilledLimbs
  <2>2. (k * LimbBytes) * ByteBits = k * Bits /\ k * Bits \in Nat
    <3>1. (k * LimbBytes) * ByteBits = k * (LimbBytes * ByteBits)
      BY Constants
    <3> QED  BY <3>1, Constants
  <2>3. i \in Nat \ {0} /\ i > 0 /\ i - 0 - 1 = i - 1 /\ h.limbs[i] \subseteq AllOnes
    BY SoundFields
  <2>4. ASSUME NEW b \in AllOnes PROVE (i - 1) * Bits + b < k * Bits <=> i <= k
    <3>1. Place(i, b) \in Nat /\ (Place(i, b) \in Window(k) <=> i <= k)
      BY <2>3, PlaceInRange
    <3>2. Place(i, b) \in Window(k) <=> Place(i, b) < k * Bits
      BY <2>2, <3>1 DEF Window
    <3> QED  BY <3>1, <3>2 DEF Place
  <2>5. {b \in AllOnes : i > 0 /\ (i - 0 - 1) * Bits + b < (k * LimbBytes) * ByteBits}
          = IF i <= k THEN AllOnes ELSE {}
    BY <2>2, <2>3, <2>4
  <2> QED  BY <2>1, <2>3, <2>5
<1> QED  BY <1>1

-----------------------------------------------------------------------------
(* Each binary call is the operation of its name *)

LEMMA Windows ==
  /\ Window(0) = {} /\ Window(1) = AllOnes
  /\ \A i, j \in Nat : i <= j => Window(i) \subseteq Window(j)
<1>1. Bits \in Nat /\ 0 * Bits = 0 /\ 1 * Bits = Bits
  BY Constants
<1>2. Window(0) = {} /\ Window(1) = AllOnes
  BY <1>1 DEF Window, AllOnes
<1>3. ASSUME NEW i \in Nat, NEW j \in Nat, i <= j PROVE Window(i) \subseteq Window(j)
  <2>1. CASE i = j
    BY <2>1
  <2>2. CASE i < j
    <3>1. i * Bits \in Nat /\ j * Bits \in Nat /\ i * Bits + Bits <= j * Bits
      BY <2>2, LimbsApart
    <3> QED  BY <1>1, <3>1 DEF Window
  <2> QED  BY <1>3, <2>1, <2>2
<1> QED  BY <1>2, <1>3

\* Zero has no bit, and the bits of the first limb are their own places.
LEMMA ZeroNumber ==
  ASSUME NEW h, h.n = 0
  PROVE  Number(h) = {}
BY DEF Number

LEMMA LowBits ==
  ASSUME NEW h, Clean(h), NEW w \in Limb
  PROVE  Number(h) \cap w = LimbOf(h, 1) \cap w
<1>1. w \subseteq AllOnes
  BY DEF Limb
<1>2. \A b \in AllOnes : Place(1, b) = b
  BY Constants DEF Place
<1>3. 1 \in Nat \ {0}
  OBVIOUS
<1>4. \A b \in AllOnes : Place(1, b) \in Number(h) <=> b \in LimbOf(h, 1)
  BY <1>3, NumberBits
<1>5. \A b \in AllOnes : b \in Number(h) <=> b \in LimbOf(h, 1)
  BY <1>2, <1>4
<1> QED  BY <1>1, <1>5

\* One limb of a number changed.
LEMMA FirstLimbBits ==
  ASSUME NEW h, Sound(h), h.n > 0, NEW limb \in Limb
  PROVE  LET g == [h EXCEPT !.limbs[1] = limb]
         IN  /\ Clean(g) /\ g.n = h.n
             /\ \A i \in Nat \ {0} : LimbOf(g, i) = IF i = 1 THEN limb ELSE LimbOf(h, i)
<1> DEFINE f == [h.limbs EXCEPT ![1] = limb]
           g == [h EXCEPT !.limbs = f]
<1>1. g = [h EXCEPT !.limbs[1] = limb]
  OBVIOUS
<1>2. f[1] = limb /\ \A i \in 1 .. Cap(h) : i # 1 => f[i] = h.limbs[i]
  BY SoundFields
<1>3. Sound([h EXCEPT !.limbs[1] = limb])
  BY FirstLimbSound
<1> HIDE DEF f
<1>4. g = [limbs |-> f, n |-> h.n, sign |-> h.sign]
  BY ExceptField, Zenon
<1> HIDE DEF g
<1>5. Clean(g)
  BY <1>1, <1>3, SoundClean
<1>6. g.n = h.n /\ g.limbs = f
  BY <1>4
<1>7. h.n \in Nat /\ h.n <= Cap(h) /\ Cap(h) \in Nat
  BY SoundFields
<1>8. \A i \in Nat \ {0} : LimbOf(g, i) = IF i = 1 THEN limb ELSE LimbOf(h, i)
  BY <1>2, <1>6, <1>7 DEF LimbOf
<1> QED  BY <1>1, <1>5, <1>6, <1>8

\* Or with a word is in the first limb.
LEMMA OrFirstLimb ==
  ASSUME NEW h, Sound(h), h.n > 0, NEW w \in Limb
  PROVE  Number([h EXCEPT !.limbs[1] = h.limbs[1] \cup w]) = Number(h) \cup w
<1> DEFINE limb == h.limbs[1] \cup w
           g == [h EXCEPT !.limbs[1] = limb]
<1>h. /\ h.n \in Nat /\ h.n <= Cap(h) /\ Cap(h) >= 1 /\ Cap(h) \in Nat
      /\ h.limbs[1] \in Limb /\ Clean(h)
  BY SoundFields, SoundClean
<1>2. limb \in Limb
  BY <1>h DEF Limb
<1>3. \A b : b \in limb <=> b \in LimbOf(h, 1) \/ b \in w
  BY <1>h DEF LimbOf
<1> HIDE DEF limb
<1>4. Clean(g) /\ \A i \in Nat \ {0} : LimbOf(g, i) = IF i = 1 THEN limb ELSE LimbOf(h, i)
  BY <1>2, FirstLimbBits
<1> HIDE DEF g
<1>5. ASSUME NEW i \in Nat \ {0}, NEW b \in AllOnes
      PROVE  Place(i, b) \in Number(g) <=> Place(i, b) \in Number(h) \cup w
  <2>1. Place(i, b) \in Number(g) <=> b \in LimbOf(g, i)
    BY <1>4, NumberBits
  <2>2. Place(i, b) \in Number(h) <=> b \in LimbOf(h, i)
    BY <1>h, NumberBits
  <2>3. Place(i, b) \in w <=> i = 1 /\ b \in w
    BY WordPlaces
  <2> QED  BY <1>3, <1>4, <2>1, <2>2, <2>3
<1>6. Number(g) \subseteq Nat /\ Number(h) \cup w \subseteq Nat
  BY <1>h, <1>4, NumberBits, WordPlaces
<1>7. Number(g) = Number(h) \cup w
  BY <1>5, <1>6, SameBits
<1> QED  BY <1>7 DEF g, limb

\* In place with a word.
LEMMA MutWordBits ==
  ASSUME NEW h, Sound(h), NEW f \in Functions, NEW w \in Limb, ~(f = "nand" /\ h.n > 1)
  PROVE  Number(MutWord(f, h, w)) = Apply(f, Number(h), w, Window(Larger(1, h.n)))
<1>h. /\ h.n \in Nat /\ h.n <= Cap(h) /\ Cap(h) >= 1 /\ Cap(h) \in Nat /\ h.n <= MaxCap /\ MaxCap \in Nat
      /\ h.limbs[1] \in Limb /\ Clean(h)
  BY SoundFields, SoundClean, Constants
<1>w. w \subseteq AllOnes /\ {} \cap w = {} /\ {} \cup w = w
  BY DEF Limb
<1>l. h.n > 0 => LimbOf(h, 1) = h.limbs[1]
  BY <1>h DEF LimbOf
<1>z. h.n = 0 => Number(h) = {} /\ Window(Larger(1, h.n)) = AllOnes
  BY ZeroNumber, Windows DEF Larger
<1>1. CASE f = "and" /\ h.n = 0
  <2>1. MutWord(f, h, w) = h
    BY <1>1 DEF MutWord
  <2> QED  BY <1>1, <1>z, <2>1 DEF Apply
<1>2. CASE f = "and" /\ h.n > 0
  <2>1. MutWord(f, h, w) = Lowest(h, h.limbs[1] \cap w)
    BY <1>2 DEF MutWord
  <2>2. h.limbs[1] \cap w \in Limb
    BY <1>h DEF Limb
  <2>3. Number(Lowest(h, h.limbs[1] \cap w)) = h.limbs[1] \cap w
    BY <2>2, LowestNumber
  <2>4. Number(h) \cap w = h.limbs[1] \cap w
    BY <1>2, <1>h, <1>l, LowBits
  <2> QED  BY <1>2, <2>1, <2>3, <2>4 DEF Apply
<1>3. CASE f = "nand" /\ h.n = 0
  <2>1. MutWord(f, h, w) = Lowest(h, AllOnes)
    BY <1>3 DEF MutWord
  <2>2. Number(Lowest(h, AllOnes)) = AllOnes
    BY LowestNumber, Constants
  <2>3. Apply(f, {}, w, AllOnes) = AllOnes
    BY <1>3 DEF Apply
  <2> QED  BY <1>3, <1>z, <2>1, <2>2, <2>3
<1>4. CASE f = "nand" /\ h.n = 1
  <2> DEFINE limb == AllOnes \ (h.limbs[1] \cap w)
             g == [h EXCEPT !.limbs[1] = limb]
  <2>1. MutWord(f, h, w) = Filled(g, 1, 0)
    <3>1. MutWord(f, h, w) = Filled(g, 1, h.n - 1)
      BY <1>4 DEF MutWord
    <3> QED  BY <1>4, <3>1
  <2>2. limb \in Limb
    BY DEF Limb
  <2>3. Number(h) = h.limbs[1]
    BY <1>4, <1>h, <1>l, OneLimbNumber
  <2>4. Window(Larger(1, h.n)) = AllOnes
    BY <1>4, Windows DEF Larger
  <2>5. Apply(f, Number(h), w, AllOnes) = limb
    BY <1>4, <2>3 DEF Apply
  <2> HIDE DEF limb
  <2>6. Sound(g)
    BY <2>2, FirstLimbSound
  <2>7. Clean(g) /\ g.n = h.n /\ LimbOf(g, 1) = limb
    <3>1. 1 \in Nat \ {0} /\ h.n > 0
      BY <1>4
    <3> QED  BY <2>2, <3>1, FirstLimbBits
  <2> HIDE DEF g
  <2>8. Number(g) = limb
    BY <1>4, <2>7, OneLimbNumber
  <2>9. Number(Filled(g, 1, 0)) = Number(g)
    BY <2>6, NothingFilled
  <2> QED  BY <2>1, <2>4, <2>5, <2>8, <2>9
<1>5. CASE f = "or" /\ h.n > 0
  <2>1. MutWord(f, h, w) = [h EXCEPT !.limbs[1] = h.limbs[1] \cup w]
    BY <1>5 DEF MutWord
  <2>2. Number([h EXCEPT !.limbs[1] = h.limbs[1] \cup w]) = Number(h) \cup w
    BY <1>5, OrFirstLimb
  <2> QED  BY <1>5, <2>1, <2>2 DEF Apply
<1>6. CASE f \notin {"and", "nand"} /\ h.n = 0
  <2>1. MutWord(f, h, w) = Lowest(h, Apply(f, {}, w, AllOnes))
    BY <1>6 DEF MutWord
  <2>2. Apply(f, {}, w, AllOnes) \in Limb
    BY ApplyLimb, Constants
  <2> QED  BY <1>6, <1>z, <2>1, <2>2, LowestNumber
<1>7. CASE f \notin {"and", "nand", "or"} /\ h.n > 0
  <2>1. MutWord(f, h, w) = Pointwise(f, h, WordLimbs(w), h.n, h.n)
    BY <1>7 DEF MutWord
  <2>3. Larger(1, h.n) = h.n
    BY <1>7, <1>h DEF Larger
  <2>4. w \subseteq Window(h.n)
    BY <1>7, <1>h, <1>w, Windows
  <2>5. Sees(WordLimbs(w), h.n, w)
    BY <1>h, OperandsSeen
  <2>6. h.n <= h.n
    BY <1>h
  <2>7. Number(Pointwise(f, h, WordLimbs(w), h.n, h.n)) = Apply(f, Number(h), w, Window(h.n))
    BY <1>h, <2>4, <2>5, <2>6, PointwiseExact
  <2> QED  BY <2>1, <2>3, <2>7
<1> QED  BY <1>h, <1>1, <1>2, <1>3, <1>4, <1>5, <1>6, <1>7

\* In place with a number.
LEMMA MutNumberBits ==
  ASSUME NEW h, Sound(h), NEW f \in Functions, NEW y \in Operands, NEW g \in MutNumber(f, h, y),
         ~(f = "nand" /\ (h.n = 0 \/ y.n = 0)), ~(f = "or" /\ h.n = 0)
  PROVE  Number(g) = Apply(f, Number(h), Number(y), Window(Larger(1, Larger(h.n, y.n))))
<1>h. h.n \in Nat /\ y.n \in Nat /\ y.n <= MaxCap /\ Clean(h) /\ Clean(y) /\ MaxCap \in Nat /\ h.n <= MaxCap
  BY SoundFields, OperandFields, SoundClean, OperandClean, Constants
<1> DEFINE k == Larger(h.n, y.n)
<1>k. k \in Nat /\ h.n <= k /\ y.n <= k /\ k <= MaxCap /\ (k = h.n \/ k = y.n)
  BY <1>h DEF Larger
<1>z. (h.n = 0 => Number(h) = {}) /\ (y.n = 0 => Number(y) = {})
  BY ZeroNumber
<1>1. CASE f = "and" /\ y.n = 0
  <2>1. g = Reset(h)
    BY <1>1 DEF MutNumber
  <2>2. Reset(h).n = 0
    BY SoundFields DEF Reset
  <2>3. Number(g) = {}
    BY <2>1, <2>2, ZeroNumber
  <2> QED  BY <1>1, <1>z, <2>3 DEF Apply
<1>2. CASE f = "and" /\ y.n > 0 /\ h.n = 0
  <2>1. g = h
    BY <1>2 DEF MutNumber
  <2> QED  BY <1>2, <1>z, <2>1 DEF Apply
<1>3. CASE f = "or" /\ y.n = 0
  <2>1. g = h
    BY <1>3 DEF MutNumber
  <2> QED  BY <1>3, <1>z, <2>1 DEF Apply
<1>4. CASE f = "xor" /\ h.n = 0 /\ y.n = 0
  <2>1. g = h
    BY <1>4 DEF MutNumber
  <2> QED  BY <1>4, <1>z, <2>1 DEF Apply
<1>5. CASE f \in {"nor", "xnor"} /\ h.n = 0 /\ y.n = 0
  <2>1. g = Lowest(h, AllOnes)
    BY <1>5 DEF MutNumber
  <2>2. Number(g) = AllOnes
    BY <2>1, LowestNumber, Constants
  <2>3. Window(Larger(1, Larger(h.n, y.n))) = AllOnes
    BY <1>5, Windows DEF Larger
  <2>4. Apply(f, {}, {}, AllOnes) = AllOnes
    BY <1>5 DEF Apply
  <2> QED  BY <1>5, <1>z, <2>2, <2>3, <2>4
<1>6. CASE /\ ~(f = "and" /\ (y.n = 0 \/ h.n = 0)) /\ ~(f = "or" /\ y.n = 0)
           /\ ~(f \in {"xor", "nor", "xnor"} /\ h.n = 0 /\ y.n = 0)
  <2>1. MutNumber(f, h, y) = {Pointwise(f, o, NumberLimbs(y), k, k) : o \in Grown(h, k)}
    BY <1>6 DEF MutNumber
  <2>2. PICK o \in Grown(h, k) : g = Pointwise(f, o, NumberLimbs(y), k, k)
    BY <2>1
  <2>3. Larger(1, k) = k
    BY <1>6, <1>h, <1>k DEF Larger, Functions
  <2> HIDE DEF k
  <2>4. Sound(o) /\ k <= Cap(o) /\ o.n = h.n
    BY <1>k, <2>2, GrownSound
  <2>5. Number(o) = Number(h)
    BY <1>k, <2>2, GrownNumber
  <2>6. Number(y) \subseteq Window(k)
    BY <1>h, <1>k, NumberInWindow
  <2>7. Sees(NumberLimbs(y), k, Number(y))
    BY <1>k, OperandsSeen
  <2>8. o.n <= k
    BY <1>k, <2>4
  <2>9. Number(Pointwise(f, o, NumberLimbs(y), k, k)) = Apply(f, Number(o), Number(y), Window(k))
    BY <1>k, <2>4, <2>6, <2>7, <2>8, PointwiseExact
  <2> QED  BY <2>2, <2>3, <2>5, <2>9 DEF k
<1> QED  BY <1>h, <1>1, <1>2, <1>3, <1>4, <1>5, <1>6

\* New numbers of at most one limb, and copies.
LEMMA OneLimbBits ==
  ASSUME NEW h, Sound(h), NEW limb \in Limb
  PROVE  Number(OneLimb(h, limb)) = limb
<1> DEFINE z == Zeroed(1)
           s == h.sign
           g == [z EXCEPT !.sign = s]
<1>1. Sound(z)
  BY ZeroedSound, Constants
<1>2. s \in {1, -1}
  BY SoundFields
<1> HIDE DEF z, s
<1>3. g = [limbs |-> z.limbs, n |-> z.n, sign |-> s]
  BY <1>1, ExceptField, Zenon
<1> HIDE DEF g
<1>4. Sound(g)
  BY <1>1, <1>2, <1>3, MadeSound, SoundFields
<1>5. OneLimb(h, limb) = Lowest(g, limb)
  BY DEF OneLimb, g, z, s
<1> QED  BY <1>4, <1>5, LowestNumber

LEMMA CopyBits ==
  ASSUME NEW h, Clean(h)
  PROVE  /\ Clean(CopyOf(h)) /\ CopyOf(h).n = h.n /\ Number(CopyOf(h)) = Number(h)
         /\ \A i \in Nat \ {0} : LimbOf(CopyOf(h), i) = LimbOf(h, i)
<1> DEFINE f == [i \in 1 .. Larger(h.n, 1) |-> LimbOf(h, i)]
           g == CopyOf(h)
<1>1. g.n = h.n /\ g.limbs = f /\ h.n \in Nat
  BY DEF CopyOf, Clean
<1>2. \A i \in Nat \ {0} : i <= h.n => f[i] = LimbOf(h, i)
  BY <1>1 DEF Larger
<1> HIDE DEF f, g
<1>3. \A i \in Nat \ {0} : ~(i <= h.n) => LimbOf(h, i) = {}
  BY DEF LimbOf
<1>4. \A i \in Nat \ {0} : LimbOf(g, i) = LimbOf(h, i)
  BY <1>1, <1>2, <1>3 DEF LimbOf
<1>5. Clean(g)
  BY <1>1, <1>4 DEF Clean
<1> QED  BY <1>1, <1>4, <1>5, SameLimbs DEF g

\* The calls with a word that make a new number.
LEMMA FunWordBits ==
  ASSUME NEW h, Sound(h), NEW f \in Functions, NEW w \in Limb,
         ~(f = "nand" /\ h.n > 1), ~(f = "or" /\ h.n > 0 /\ w # {})
  PROVE  Number(FunWord(f, h, w)) = Apply(f, Number(h), w, Window(Larger(1, h.n)))
<1>h. /\ h.n \in Nat /\ h.n <= Cap(h) /\ Cap(h) >= 1 /\ Cap(h) \in Nat /\ h.n <= MaxCap /\ MaxCap \in Nat
      /\ h.limbs[1] \in Limb /\ Clean(h)
  BY SoundFields, SoundClean, Constants
<1>w. w \subseteq AllOnes /\ 1 \in {1, -1}
  BY DEF Limb
<1>l. h.n > 0 => LimbOf(h, 1) = h.limbs[1]
  BY <1>h DEF LimbOf
<1>z. h.n = 0 => Number(h) = {} /\ Window(Larger(1, h.n)) = AllOnes
  BY ZeroNumber, Windows DEF Larger
<1>1. CASE f = "and" /\ h.n = 0
  <2>1. FunWord(f, h, w) = Zeroed(0)
    BY <1>1 DEF FunWord
  <2>2. Number(Zeroed(0)) = {}
    BY ZeroNumber DEF Zeroed
  <2> QED  BY <1>1, <1>z, <2>1, <2>2 DEF Apply
<1>2. CASE f = "and" /\ h.n > 0
  <2>1. FunWord(f, h, w) = OneLimb(h, h.limbs[1] \cap w)
    BY <1>2 DEF FunWord
  <2>2. h.limbs[1] \cap w \in Limb
    BY <1>h DEF Limb
  <2>3. Number(OneLimb(h, h.limbs[1] \cap w)) = h.limbs[1] \cap w
    BY <2>2, OneLimbBits
  <2>4. Number(h) \cap w = h.limbs[1] \cap w
    BY <1>2, <1>h, <1>l, LowBits
  <2> QED  BY <1>2, <2>1, <2>3, <2>4 DEF Apply
<1>3. CASE f = "nand" /\ h.n = 1
  <2> DEFINE z == Zeroed(1)
             limb == AllOnes \ (h.limbs[1] \cap w)
             l == [z.limbs EXCEPT ![1] = limb]
             n == 1
             g == [z EXCEPT !.limbs = l, !.n = n]
  <2>1. FunWord(f, h, w) = Filled(g, 1, 0)
    <3>1. FunWord(f, h, w) = Filled([Zeroed(h.n) EXCEPT !.limbs[1] = limb, !.n = h.n], 1, h.n - 1)
      BY <1>3 DEF FunWord
    <3>2. Zeroed(h.n) = z /\ h.n - 1 = 0 /\ h.n = n
      BY <1>3
    <3>3. [Zeroed(h.n) EXCEPT !.limbs[1] = limb, !.n = h.n] = g
      BY <3>2
    <3> QED  BY <3>1, <3>2, <3>3
  <2>2. Sound(z) /\ n \in Nat /\ n <= Cap(z)
    BY <1>h, ZeroedSound, Constants DEF Larger
  <2>3. limb \in Limb
    BY DEF Limb
  <2>4. Number(h) = h.limbs[1]
    BY <1>3, <1>h, <1>l, OneLimbNumber
  <2>5. Window(Larger(1, h.n)) = AllOnes
    BY <1>3, Windows DEF Larger
  <2>6. Apply(f, Number(h), w, AllOnes) = limb
    BY <1>3, <2>4 DEF Apply
  <2>7. n = 1
    OBVIOUS
  <2> HIDE DEF z, n, limb
  <2>8. l \in [1 .. Cap(z) -> Limb] /\ l[1] = limb
    BY <2>2, <2>3, SoundFields
  <2> HIDE DEF l
  <2>9. g = [limbs |-> l, n |-> n, sign |-> z.sign]
    BY <2>2, ExceptLimbs, Zenon
  <2> HIDE DEF g
  <2>10. Sound(g)
    BY <2>2, <2>8, <2>9, MadeSound, SoundFields
  <2>11. Clean(g) /\ g.n <= 1 /\ LimbOf(g, 1) = limb
    BY <2>7, <2>8, <2>9, <2>10, SoundClean DEF LimbOf
  <2>12. Number(g) = limb
    BY <2>11, OneLimbNumber
  <2>13. Number(Filled(g, 1, 0)) = Number(g)
    BY <2>10, NothingFilled
  <2> QED  BY <2>1, <2>5, <2>6, <2>12, <2>13
<1>4. CASE f = "or" /\ w = {}
  <2>1. FunWord(f, h, w) = CopyOf(h)
    BY <1>4 DEF FunWord
  <2> QED  BY <1>4, <1>h, <2>1, CopyBits DEF Apply
<1>5. CASE f # "and" /\ h.n = 0 /\ ~(f = "or" /\ w = {})
  <2>1. FunWord(f, h, w) = OneLimb(h, Apply(f, {}, w, AllOnes))
    BY <1>5 DEF FunWord
  <2>2. Apply(f, {}, w, AllOnes) \in Limb
    BY ApplyLimb, Constants
  <2> QED  BY <1>5, <1>z, <2>1, <2>2, OneLimbBits
<1>6. CASE f \notin {"and", "nand", "or"} /\ h.n > 0
  <2>1. FunWord(f, h, w) = Made(f, h, WordLimbs(w), h.n, 1)
    BY <1>6 DEF FunWord
  <2>3. Larger(1, h.n) = h.n
    BY <1>6, <1>h DEF Larger
  <2>4. w \subseteq Window(h.n)
    BY <1>6, <1>h, <1>w, Windows
  <2>5. Sees(WordLimbs(w), h.n, w)
    BY <1>h, OperandsSeen
  <2>6. Number(Made(f, h, WordLimbs(w), h.n, 1))
          = Apply(f, Number(h) \cap Window(h.n), w \cap Window(h.n), Window(h.n))
    BY <1>h, <1>w, <2>5, MadeExact
  <2>7. h.n <= h.n
    BY <1>h
  <2>8. Number(h) \cap Window(h.n) = Number(h) /\ w \cap Window(h.n) = w
    BY <1>h, <2>4, <2>7, WithinWindow
  <2> QED  BY <2>1, <2>3, <2>6, <2>8
<1> QED  BY <1>h, <1>1, <1>2, <1>3, <1>4, <1>5, <1>6

LEMMA FunNumberBits ==
  ASSUME NEW h, Sound(h), NEW f \in Functions, NEW y \in Operands,
         ~(f = "nand" /\ (h.n = 0 \/ y.n = 0))
  PROVE  Number(FunNumber(f, h, y)) = Apply(f, Number(h), Number(y), Window(Larger(1, Larger(h.n, y.n))))
<1>h. /\ h.n \in Nat /\ y.n \in Nat /\ y.n <= MaxCap /\ Clean(h) /\ Clean(y) /\ MaxCap \in Nat /\ h.n <= MaxCap
      /\ 1 \in {1, -1}
  BY SoundFields, OperandFields, SoundClean, OperandClean, Constants
<1> DEFINE k == Larger(h.n, y.n)
<1>k. k \in Nat /\ h.n <= k /\ y.n <= k /\ k <= MaxCap /\ (k = h.n \/ k = y.n)
  BY <1>h DEF Larger
<1>z. (h.n = 0 => Number(h) = {}) /\ (y.n = 0 => Number(y) = {}) /\ Number(Zeroed(0)) = {}
  BY ZeroNumber DEF Zeroed
<1>1. CASE f = "and" /\ (h.n = 0 \/ y.n = 0)
  <2>1. FunNumber(f, h, y) = Zeroed(0)
    BY <1>1 DEF FunNumber
  <2>2. Number(h) \cap Number(y) = {}
    BY <1>1, <1>z
  <2> QED  BY <1>1, <1>z, <2>1, <2>2 DEF Apply
<1>2. CASE f = "or" /\ y.n = 0
  <2>1. FunNumber(f, h, y) = CopyOf(h)
    BY <1>2 DEF FunNumber
  <2> QED  BY <1>2, <1>h, <1>z, <2>1, CopyBits DEF Apply
<1>3. CASE f = "or" /\ y.n > 0 /\ h.n = 0
  <2>1. FunNumber(f, h, y) = CopyOf(y)
    BY <1>3 DEF FunNumber
  <2> QED  BY <1>3, <1>h, <1>z, <2>1, CopyBits DEF Apply
<1>4. CASE f = "xor" /\ h.n = 0 /\ y.n = 0
  <2>1. FunNumber(f, h, y) = Zeroed(0)
    BY <1>4 DEF FunNumber
  <2> QED  BY <1>4, <1>z, <2>1 DEF Apply
<1>5. CASE f \in {"nor", "xnor"} /\ h.n = 0 /\ y.n = 0
  <2>1. FunNumber(f, h, y) = OneLimb(h, AllOnes)
    BY <1>5 DEF FunNumber
  <2>2. Number(OneLimb(h, AllOnes)) = AllOnes
    BY OneLimbBits, Constants
  <2>3. Window(Larger(1, Larger(h.n, y.n))) = AllOnes
    BY <1>5, Windows DEF Larger
  <2>4. Apply(f, {}, {}, AllOnes) = AllOnes
    BY <1>5 DEF Apply
  <2> QED  BY <1>5, <1>z, <2>1, <2>2, <2>3, <2>4
<1>6. CASE /\ ~(f \in {"and", "nand", "or"} /\ (h.n = 0 \/ y.n = 0))
           /\ ~(f \in {"xor", "nor", "xnor"} /\ h.n = 0 /\ y.n = 0)
  <2>1. FunNumber(f, h, y) = Made(f, h, NumberLimbs(y), k, 1)
    BY <1>6 DEF FunNumber
  <2>3. Larger(1, k) = k
    BY <1>6, <1>h, <1>k DEF Larger, Functions
  <2> HIDE DEF k
  <2>4. Sees(NumberLimbs(y), k, Number(y))
    BY <1>k, OperandsSeen
  <2>5. Number(Made(f, h, NumberLimbs(y), k, 1))
          = Apply(f, Number(h) \cap Window(k), Number(y) \cap Window(k), Window(k))
    BY <1>h, <1>k, <2>4, MadeExact
  <2>6. Number(h) \cap Window(k) = Number(h) /\ Number(y) \cap Window(k) = Number(y)
    BY <1>h, <1>k, WithinWindow
  <2> QED  BY <2>1, <2>3, <2>5, <2>6 DEF k
<1> QED  BY <1>h, <1>1, <1>2, <1>3, <1>4, <1>5, <1>6

\* Over k limbs, for a new number.
LEMMA FunExWordBits ==
  ASSUME NEW h, Sound(h), NEW f \in Functions, NEW k \in Ranges, NEW w \in Limb
  PROVE  Number(FunExWord(f, h, w, k)) = Apply(f, Number(h) \cap Window(k), w \cap Window(k), Window(k))
<1>1. k \in Nat /\ k <= MaxCap /\ h.sign \in {1, -1} /\ MaxCap \in Nat
  BY SoundFields, Constants DEF Ranges
<1>2. Sees(WordLimbs(w), k, w)
  BY <1>1, OperandsSeen
<1> QED  BY <1>1, <1>2, MadeExact DEF FunExWord

LEMMA FunExIntBits ==
  ASSUME NEW h, Sound(h), NEW f \in Functions, NEW k \in Ranges, NEW v \in IntWords
  PROVE  Number(FunExInt(f, h, v, k))
           = Apply(f, Number(h) \cap Window(k), Number([limbs |-> IntLimbs(v), n |-> k]), Window(k))
<1> DEFINE Y == Number([limbs |-> IntLimbs(v), n |-> k])
<1>1. k \in Nat /\ k <= MaxCap /\ h.sign \in {1, -1} /\ MaxCap \in Nat
  BY SoundFields, Constants DEF Ranges
<1>2. \A i \in 1 .. MaxCap : IntLimbs(v)[i] \in Limb
  BY IntLimbsSound
<1>3. Y \subseteq Window(k) /\ Sees(IntLimbs(v), k, Y)
  BY <1>1, <1>2, LimbsSeen
<1> HIDE DEF Y
<1>4. Number(FunExInt(f, h, v, k)) = Apply(f, Number(h) \cap Window(k), Y \cap Window(k), Window(k))
  BY <1>1, <1>3, MadeExact DEF FunExInt
<1>5. Y \cap Window(k) = Y
  BY <1>3
<1> QED  BY <1>4, <1>5 DEF Y

LEMMA FunExNumberBits ==
  ASSUME NEW h, Sound(h), NEW f \in Functions, NEW k \in Ranges, NEW y \in Operands
  PROVE  Number(FunExNumber(f, h, y, k))
           = Apply(f, Number(h) \cap Window(k), Number(y) \cap Window(k), Window(k))
<1>1. k \in Nat /\ k <= MaxCap /\ h.sign \in {1, -1} /\ MaxCap \in Nat
  BY SoundFields, Constants DEF Ranges
<1>2. Sees(NumberLimbs(y), k, Number(y))
  BY <1>1, OperandsSeen
<1> QED  BY <1>1, <1>2, MadeExact DEF FunExNumber

-----------------------------------------------------------------------------
(* In place over k limbs *)

\* g is h with the operation applied to its k lowest limbs.
Changed(g, h, f, e, k) ==
  Number(g) = (Number(h) \ Window(k))
              \cup Apply(f, Number(h) \cap Window(k), Number([limbs |-> e, n |-> k]), Window(k))

LEMMA NothingChanged ==
  ASSUME NEW h, NEW f \in Functions, NEW e
  PROVE  Changed(h, h, f, e, 0)
<1>1. Number([limbs |-> e, n |-> 0]) = {}
  BY ZeroNumber
<1>2. Apply(f, Number(h) \cap {}, {}, {}) = {}
  BY DEF Functions, Apply
<1> QED  BY <1>1, <1>2, Windows DEF Changed

LEMMA PointwiseChanges ==
  ASSUME NEW f \in Functions, NEW h, Sound(h), NEW e, \A i \in 1 .. MaxCap : e[i] \in Limb,
         NEW k \in Nat, k <= Cap(h)
  PROVE  Changed(Pointwise(f, h, e, k, Larger(h.n, k)), h, f, e, k)
<1> DEFINE Y == Number([limbs |-> e, n |-> k])
<1>1. k <= MaxCap
  BY SoundFields, Constants
<1>2. Sees(e, k, Y) /\ Y \subseteq Window(k)
  BY <1>1, LimbsSeen
<1> HIDE DEF Y
<1>3. Number(Pointwise(f, h, e, k, Larger(h.n, k)))
           = (Number(h) \ Window(k)) \cup Apply(f, Number(h) \cap Window(k), Y, Window(k))
  BY <1>2, PointwiseStays
<1> QED  BY <1>3 DEF Changed, Y

\* What the operand is, within the range.
LEMMA WordSeen ==
  ASSUME NEW w \in Limb, NEW k \in Nat, k # 0, k <= MaxCap
  PROVE  Number([limbs |-> WordLimbs(w), n |-> k]) = w
<1> DEFINE h == [limbs |-> WordLimbs(w), n |-> k]
<1>1. h.limbs = WordLimbs(w) /\ h.n = k
  OBVIOUS
<1> HIDE DEF h
<1>2. ASSUME NEW i \in Nat \ {0} PROVE LimbOf(h, i) = IF i = 1 THEN w ELSE {}
  <2>1. CASE i <= k
    <3>1. i \in 1 .. MaxCap
      BY <2>1, Constants
    <3> QED  BY <1>1, <2>1, <3>1 DEF LimbOf, WordLimbs
  <2>2. CASE ~(i <= k)
    <3>1. i # 1
      BY <2>2
    <3> QED  BY <1>1, <2>2, <3>1 DEF LimbOf
  <2> QED  BY <2>1, <2>2
<1>3. Clean(h)
  BY <1>1, <1>2 DEF Clean, Limb
<1>4. ASSUME NEW i \in Nat \ {0}, NEW b \in AllOnes PROVE Place(i, b) \in Number(h) <=> Place(i, b) \in w
  BY <1>2, <1>3, NumberBits, WordPlaces
<1>5. Number(h) \subseteq Nat /\ w \subseteq Nat
  BY <1>3, NumberBits, WordPlaces
<1>6. Number(h) = w
  BY <1>4, <1>5, SameBits
<1> QED  BY <1>6 DEF h

LEMMA NumberSeen ==
  ASSUME NEW y \in Operands, NEW k \in Nat, k <= MaxCap
  PROVE  /\ Number([limbs |-> NumberLimbs(y), n |-> k]) = Number(y) \cap Window(k)
         /\ \A i \in 1 .. k : NumberLimbs(y)[i] = LimbOf(y, i)
<1> DEFINE h == [limbs |-> NumberLimbs(y), n |-> k]
<1>1. h.limbs = NumberLimbs(y) /\ h.n = k
  OBVIOUS
<1> HIDE DEF h
<1>2. \A i \in 1 .. k : NumberLimbs(y)[i] = LimbOf(y, i)
  BY Constants DEF NumberLimbs
<1>3. ASSUME NEW i \in Nat \ {0} PROVE LimbOf(h, i) = IF i <= k THEN LimbOf(y, i) ELSE {}
  <2>1. i <= k => i \in 1 .. k
    OBVIOUS
  <2>2. LimbOf(h, i) = IF i <= k THEN NumberLimbs(y)[i] ELSE {}
    BY <1>1 DEF LimbOf
  <2> QED  BY <1>2, <2>1, <2>2
<1>4. Clean(y)
  BY OperandClean
<1>5. Clean(h)
  BY <1>1, <1>3, <1>4 DEF Clean
<1>6. ASSUME NEW i \in Nat \ {0}, NEW b \in AllOnes
      PROVE  Place(i, b) \in Number(h) <=> Place(i, b) \in Number(y) \cap Window(k)
  <2>1. Place(i, b) \in Window(k) <=> i <= k
    BY PlaceInRange
  <2>2. (Place(i, b) \in Number(h) <=> b \in LimbOf(h, i)) /\ (Place(i, b) \in Number(y) <=> b \in LimbOf(y, i))
    BY <1>4, <1>5, NumberBits
  <2> QED  BY <1>3, <2>1, <2>2
<1>7. Number(h) \subseteq Nat /\ Number(y) \subseteq Nat
  BY <1>4, <1>5, NumberBits
<1>8. Number(y) \cap Window(k) \subseteq Nat
  BY <1>7
<1>9. Number(h) = Number(y) \cap Window(k)
  BY <1>6, <1>7, <1>8, SameBits
<1> QED  BY <1>2, <1>9 DEF h

LEMMA MutExWordBits ==
  ASSUME NEW h, Sound(h), NEW f \in Functions, NEW w \in Limb, NEW k \in Ranges,
         NEW g \in MutExWord(f, h, w, k), ~(f = "and" /\ k < h.n)
  PROVE  Changed(g, h, f, WordLimbs(w), k)
<1>k. k \in Nat /\ k <= MaxCap /\ MaxCap \in Nat
  BY Constants DEF Ranges
<1>1. CASE k = 0
  <2>1. g = h
    BY <1>1 DEF MutExWord
  <2> QED  BY <1>1, <2>1, NothingChanged
<1>2. CASE k # 0
  <2> DEFINE Out(o) ==
        CASE f = "and" /\ o.n = 0 -> o
          [] f = "and" /\ o.n > 0 -> Lowest(o, o.limbs[1] \cap w)
          [] f = "or" /\ w = {} -> o
          [] f = "or" /\ w # {} /\ o.n > 0 -> [o EXCEPT !.limbs[1] = @ \cup w]
          [] f = "or" /\ w # {} /\ o.n = 0 -> Lowest(o, w)
          [] f = "xor" /\ o.n = 0 -> Lowest(o, w)
          [] OTHER -> Pointwise(f, o, WordLimbs(w), k, Larger(o.n, k))
             Y == Number([limbs |-> WordLimbs(w), n |-> k])
             W == Window(k)
  <2>1. MutExWord(f, h, w, k) = {Out(o) : o \in Grown(h, k)}
    BY <1>2 DEF MutExWord
  <2> HIDE DEF Out
  <2>2. PICK o \in Grown(h, k) : g = Out(o)
    BY <2>1
  <2>3. Sound(o) /\ Cap(o) >= k /\ o.n = h.n /\ Number(o) = Number(h) /\ Clean(o)
    BY <1>k, <2>2, GrownSound, GrownNumber
  <2>4. /\ o.n \in Nat /\ o.n <= Cap(o) /\ Cap(o) >= 1 /\ Cap(o) \in Nat /\ o.limbs[1] \in Limb
        /\ (o.n > 0 => LimbOf(o, 1) = o.limbs[1])
    BY <2>3, SoundFields DEF LimbOf
  <2>5. Y = w /\ w \subseteq W
    <3>1. w \subseteq AllOnes /\ 1 \in Nat /\ 1 <= k
      BY <1>2, <1>k DEF Limb
    <3>2. AllOnes \subseteq W
      BY <1>k, <3>1, Windows
    <3> QED  BY <1>2, <1>k, <3>1, <3>2, WordSeen
  <2>6. /\ o.n = 0 => Number(o) = {}
        /\ o.n <= k => Number(o) \subseteq W
    BY <1>k, <2>3, ZeroNumber, NumberInWindow
  <2> HIDE DEF W
  <2>7. Changed(g, h, f, WordLimbs(w), k)
          <=> Number(g) = (Number(o) \ W) \cup Apply(f, Number(o) \cap W, w, W)
    BY <2>3, <2>5 DEF Changed, W
  <2> HIDE DEF Y
  <2>8. CASE f = "and" /\ o.n = 0
    <3>1. g = o
      BY <2>2, <2>8 DEF Out
    <3> QED  BY <2>6, <2>7, <2>8, <3>1 DEF Apply
  <2>9. CASE f = "and" /\ o.n > 0
    <3>1. g = Lowest(o, o.limbs[1] \cap w)
      BY <2>2, <2>9 DEF Out
    <3>2. o.limbs[1] \cap w \in Limb
      BY <2>4 DEF Limb
    <3>3. Number(g) = o.limbs[1] \cap w
      BY <2>3, <3>1, <3>2, LowestNumber
    <3>4. Number(o) \cap w = o.limbs[1] \cap w
      BY <2>3, <2>4, <2>9, LowBits
    <3>5. Number(o) \subseteq W
      BY <1>k, <2>3, <2>4, <2>6, <2>9
    <3>6. Number(g) = (Number(o) \ W) \cup ((Number(o) \cap W) \cap w)
      BY <3>3, <3>4, <3>5
    <3> QED  BY <2>7, <2>9, <3>6 DEF Apply
  <2>10. CASE f = "or" /\ w = {}
    <3>1. g = o
      BY <2>2, <2>10 DEF Out
    <3>2. Number(o) = (Number(o) \ W) \cup ((Number(o) \cap W) \cup w)
      BY <2>10
    <3> QED  BY <2>7, <2>10, <3>1, <3>2 DEF Apply
  <2>11. CASE f = "or" /\ w # {} /\ o.n > 0
    <3>1. g = [o EXCEPT !.limbs[1] = o.limbs[1] \cup w]
      BY <2>2, <2>11 DEF Out
    <3>2. Number(g) = Number(o) \cup w
      BY <2>3, <2>11, <3>1, OrFirstLimb
    <3>3. Number(o) \cup w = (Number(o) \ W) \cup ((Number(o) \cap W) \cup w)
      OBVIOUS
    <3> QED  BY <2>7, <2>11, <3>2, <3>3 DEF Apply
  <2>12. CASE f \in {"or", "xor"} /\ o.n = 0 /\ ~(f = "or" /\ w = {})
    <3>1. g = Lowest(o, w)
      BY <2>2, <2>12 DEF Out
    <3>2. Number(g) = w
      BY <2>3, <3>1, LowestNumber
    <3>3. Apply(f, Number(o) \cap W, w, W) = w /\ Number(o) \ W = {}
      BY <2>6, <2>12 DEF Apply
    <3> QED  BY <2>7, <3>2, <3>3
  <2>13. CASE f \notin {"and", "or"} /\ ~(f = "xor" /\ o.n = 0)
    <3>1. g = Pointwise(f, o, WordLimbs(w), k, Larger(o.n, k))
      BY <2>2, <2>13 DEF Out
    <3>2. \A i \in 1 .. MaxCap : WordLimbs(w)[i] \in Limb
      BY WordLimbsSound
    <3>3. k <= Cap(o)
      BY <1>k, <2>3, <2>4
    <3>4. Changed(g, o, f, WordLimbs(w), k)
      BY <1>k, <2>3, <3>1, <3>2, <3>3, PointwiseChanges
    <3> QED  BY <2>3, <3>4 DEF Changed
  <2> QED  BY <2>4, <2>8, <2>9, <2>10, <2>11, <2>12, <2>13
<1> QED  BY <1>1, <1>2

LEMMA MutExIntBits ==
  ASSUME NEW h, Sound(h), NEW f \in Functions, NEW v \in IntWords, NEW k \in Ranges,
         NEW g \in MutExInt(f, h, v, k)
  PROVE  Changed(g, h, f, IntLimbs(v), k)
<1>k. k \in Nat
  BY Constants DEF Ranges
<1>1. CASE k = 0
  <2>1. g = h
    BY <1>1 DEF MutExInt
  <2> QED  BY <1>1, <2>1, NothingChanged
<1>2. CASE k # 0
  <2> DEFINE Out(o) == IF f = "and" /\ o.n = 0 THEN o ELSE Pointwise(f, o, IntLimbs(v), k, Larger(o.n, k))
  <2>1. MutExInt(f, h, v, k) = {Out(o) : o \in Grown(h, k)}
    BY <1>2 DEF MutExInt
  <2> HIDE DEF Out
  <2>2. PICK o \in Grown(h, k) : g = Out(o)
    BY <2>1
  <2>3. Sound(o) /\ Cap(o) >= k /\ o.n = h.n /\ Number(o) = Number(h)
    BY <1>k, <2>2, GrownSound, GrownNumber
  <2>4. CASE f = "and" /\ o.n = 0
    <3>1. g = o /\ Number(o) = {}
      BY <2>2, <2>4, ZeroNumber DEF Out
    <3> QED  BY <2>3, <2>4, <3>1 DEF Changed, Apply
  <2>5. CASE ~(f = "and" /\ o.n = 0)
    <3>1. g = Pointwise(f, o, IntLimbs(v), k, Larger(o.n, k))
      BY <2>2, <2>5 DEF Out
    <3>2. \A i \in 1 .. MaxCap : IntLimbs(v)[i] \in Limb
      BY IntLimbsSound
    <3>3. k <= Cap(o)
      BY <1>k, <2>3, SoundFields
    <3>4. Changed(g, o, f, IntLimbs(v), k)
      BY <1>k, <2>3, <3>1, <3>2, <3>3, PointwiseChanges
    <3> QED  BY <2>3, <3>4 DEF Changed
  <2> QED  BY <2>4, <2>5
<1> QED  BY <1>1, <1>2

LEMMA MutExNumberBits ==
  ASSUME NEW h, Sound(h), NEW f \in Functions, NEW y \in Operands, NEW k \in Ranges,
         NEW g \in MutExNumber(f, h, y, k),
         ~(f = "and" /\ y.n = 0 /\ k < h.n), ~(f = "nand" /\ (h.n = 0 \/ y.n = 0))
  PROVE  Changed(g, h, f, NumberLimbs(y), k)
<1>k. k \in Nat /\ k <= MaxCap /\ MaxCap \in Nat /\ y.n \in Nat /\ Clean(y)
  BY Constants, OperandFields, OperandClean DEF Ranges
<1>1. CASE k = 0
  <2>1. g = h
    BY <1>1 DEF MutExNumber
  <2> QED  BY <1>1, <2>1, NothingChanged
<1>2. CASE k # 0
  <2> DEFINE Lower(o) == [o EXCEPT !.n = Smaller(y.n, k),
               !.limbs = [i \in DOMAIN @ |-> IF i <= Smaller(y.n, k) THEN y.limbs[i] ELSE @[i]]]
             Out(o) ==
        CASE f = "and" /\ o.n = 0 -> o
          [] f = "and" /\ o.n > 0 /\ y.n = 0 -> Reset(o)
          [] f = "nand" /\ (o.n = 0 \/ y.n = 0) -> Filled(o, 0, k)
          [] f = "or" /\ o.n = 0 -> Normalized(Lower(o))
          [] f = "or" /\ o.n > 0 /\ y.n = 0 -> o
          [] f = "xor" /\ o.n = 0 /\ y.n = 0 -> o
          [] f \in {"nor", "xnor"} /\ o.n = 0 /\ y.n = 0 -> [Filled(o, 0, k * LimbBytes) EXCEPT !.n = k]
          [] OTHER -> Pointwise(f, o, NumberLimbs(y), k, Larger(o.n, k))
             W == Window(k)
             Y == Number(y) \cap W
  <2>1. MutExNumber(f, h, y, k) = {Out(o) : o \in Grown(h, k)}
    BY <1>2 DEF MutExNumber
  <2> HIDE DEF Out
  <2>2. PICK o \in Grown(h, k) : g = Out(o)
    BY <2>1
  <2>3. Sound(o) /\ Cap(o) >= k /\ o.n = h.n /\ Number(o) = Number(h) /\ Clean(o)
    BY <1>k, <2>2, GrownSound, GrownNumber
  <2>4. o.n \in Nat /\ o.n <= Cap(o) /\ Cap(o) \in Nat /\ k <= Cap(o)
    BY <1>k, <2>3, SoundFields
  <2>5. Number([limbs |-> NumberLimbs(y), n |-> k]) = Y
    BY <1>k, NumberSeen
  <2>6. /\ o.n = 0 => Number(o) = {}
        /\ y.n = 0 => Y = {}
        /\ o.n <= k => Number(o) \subseteq W
    BY <1>k, <2>3, ZeroNumber, NumberInWindow
  <2>7. Changed(g, h, f, NumberLimbs(y), k)
          <=> Number(g) = (Number(o) \ W) \cup Apply(f, Number(o) \cap W, Y, W)
    BY <2>3, <2>5 DEF Changed
  <2>8. CASE f = "and" /\ o.n = 0
    <3>1. g = o
      BY <2>2, <2>8 DEF Out
    <3> HIDE DEF W, Y
    <3> QED  BY <2>6, <2>7, <2>8, <3>1 DEF Apply
  <2>9. CASE f = "and" /\ o.n > 0 /\ y.n = 0
    <3>1. g = Reset(o)
      BY <2>2, <2>9 DEF Out
    <3>2. Reset(o).n = 0
      BY <2>3, SoundFields DEF Reset
    <3>3. Number(g) = {}
      BY <3>1, <3>2, ZeroNumber
    <3>4. Number(o) \subseteq W /\ Y = {}
      BY <1>k, <2>3, <2>4, <2>6, <2>9
    <3> HIDE DEF W, Y
    <3>5. Apply(f, Number(o) \cap W, Y, W) = {} /\ Number(o) \ W = {}
      BY <2>9, <3>4 DEF Apply
    <3> QED  BY <2>7, <3>3, <3>5
  <2>10. CASE f = "or" /\ o.n = 0
    <3> DEFINE n == Smaller(y.n, k)
               l == [i \in DOMAIN o.limbs |-> IF i <= n THEN y.limbs[i] ELSE o.limbs[i]]
               q == [o EXCEPT !.limbs = l, !.n = n]
    <3>1. g = Normalized(Lower(o))
      BY <2>2, <2>10 DEF Out
    <3>2. Lower(o) = q
      OBVIOUS
    <3>3. n \in Nat /\ n <= y.n /\ n <= k /\ n <= Cap(o) /\ (n = y.n \/ n = k)
      BY <1>k, <2>3, <2>4 DEF Smaller
    <3> HIDE DEF n, Lower
    <3>4. \A i \in 1 .. Cap(o) : i <= n => y.limbs[i] \in Limb
      BY <3>3, <1>k, OperandFields
    <3>5. l \in [1 .. Cap(o) -> Limb] /\ \A i \in 1 .. n : l[i] = y.limbs[i]
      <4>1. DOMAIN o.limbs = 1 .. Cap(o) /\ \A i \in 1 .. Cap(o) : o.limbs[i] \in Limb
        BY <2>3, SoundFields
      <4> QED  BY <2>4, <3>3, <3>4, <4>1
    <3> HIDE DEF l
    <3>6. q = [limbs |-> l, n |-> n, sign |-> o.sign]
      BY <2>3, ExceptLimbs, Zenon
    <3> HIDE DEF q
    <3>7. Sound(q)
      <4>1. Cap(o) >= 1 /\ Cap(o) <= MaxCap /\ o.sign \in {1, -1}
        BY <2>3, SoundFields
      <4> QED  BY <2>4, <3>3, <3>5, <3>6, <4>1, MadeSound
    <3>8. Clean(g) /\ \A i \in Nat \ {0} : LimbOf(g, i) = LimbOf(q, i)
      BY <3>1, <3>2, <3>7, NormalizedNumber
    <3>9. ASSUME NEW i \in Nat \ {0} PROVE LimbOf(g, i) = IF i <= k THEN LimbOf(y, i) ELSE {}
      <4>1. LimbOf(q, i) = IF i <= n THEN l[i] ELSE {}
        BY <3>6 DEF LimbOf
      <4>2. i <= n => l[i] = y.limbs[i] /\ i <= y.n /\ i <= k
        BY <1>k, <3>3, <3>5
      <4>3. ~(i <= n) => ~(i <= y.n) \/ ~(i <= k)
        BY <1>k, <3>3
      <4> QED  BY <3>8, <4>1, <4>2, <4>3 DEF LimbOf
    <3>10. ASSUME NEW i \in Nat \ {0}, NEW b \in AllOnes PROVE Place(i, b) \in Number(g) <=> Place(i, b) \in Y
      <4>1. Place(i, b) \in W <=> i <= k
        BY <1>k, PlaceInRange
      <4>2. (Place(i, b) \in Number(g) <=> b \in LimbOf(g, i)) /\ (Place(i, b) \in Number(y) <=> b \in LimbOf(y, i))
        BY <1>k, <3>8, NumberBits
      <4> HIDE DEF W
      <4> QED  BY <3>9, <4>1, <4>2
    <3>11. Number(g) \subseteq Nat /\ Y \subseteq Nat
      BY <1>k, <3>8, NumberBits
    <3>12. Number(g) = Y
      <4> HIDE DEF Y
      <4> QED  BY <3>10, <3>11, SameBits
    <3> HIDE DEF W, Y
    <3> QED  BY <2>6, <2>7, <2>10, <3>12 DEF Apply
  <2>11. CASE f = "or" /\ o.n > 0 /\ y.n = 0
    <3>1. g = o
      BY <2>2, <2>11 DEF Out
    <3> HIDE DEF W, Y
    <3>2. Number(o) = (Number(o) \ W) \cup ((Number(o) \cap W) \cup Y)
      BY <2>6, <2>11
    <3> QED  BY <2>7, <2>11, <3>1, <3>2 DEF Apply
  <2>12. CASE f = "xor" /\ o.n = 0 /\ y.n = 0
    <3>1. g = o
      BY <2>2, <2>12 DEF Out
    <3> HIDE DEF W, Y
    <3> QED  BY <2>6, <2>7, <2>12, <3>1 DEF Apply
  <2>13. CASE f \in {"nor", "xnor"} /\ o.n = 0 /\ y.n = 0
    <3> DEFINE q == Filled(o, 0, k * LimbBytes)
               r == [q EXCEPT !.n = k]
    <3>1. g = r
      BY <2>2, <2>13 DEF Out
    <3>2. Sound(q) /\ Cap(q) = Cap(o)
      BY <2>3, FilledSound
    <3>3. \A i \in 1 .. Cap(o) : q.limbs[i] = IF i <= k THEN AllOnes ELSE o.limbs[i]
      BY <1>k, <2>3, WholeLimbsFilled
    <3> HIDE DEF q
    <3>4. Sound(r) /\ r.n = k /\ r.limbs = q.limbs
      BY <1>k, <2>4, <3>2, LengthSound
    <3> HIDE DEF r
    <3>5. Clean(g)
      BY <3>1, <3>4, SoundClean
    <3>6. \A i \in Nat \ {0} : LimbOf(g, i) = IF i <= k THEN AllOnes ELSE {}
      BY <1>k, <2>4, <3>1, <3>3, <3>4 DEF LimbOf
    <3>7. ASSUME NEW i \in Nat \ {0}, NEW b \in AllOnes PROVE Place(i, b) \in Number(g) <=> Place(i, b) \in W
      <4>1. Place(i, b) \in W <=> i <= k
        BY <1>k, PlaceInRange
      <4>2. Place(i, b) \in Number(g) <=> b \in LimbOf(g, i)
        BY <3>5, NumberBits
      <4> HIDE DEF W
      <4> QED  BY <3>6, <4>1, <4>2
    <3>8. Number(g) \subseteq Nat /\ W \subseteq Nat
      BY <3>5, NumberBits DEF Window
    <3>9. Number(g) = W
      <4> HIDE DEF W
      <4> QED  BY <3>7, <3>8, SameBits
    <3> HIDE DEF W, Y
    <3>10. Apply(f, Number(o) \cap W, Y, W) = W
      BY <2>6, <2>13 DEF Apply
    <3> QED  BY <2>6, <2>7, <2>13, <3>9, <3>10
  <2>14. CASE /\ f \notin {"and", "nand", "or"} \/ (o.n > 0 /\ y.n > 0)
              /\ ~(f \in {"xor", "nor", "xnor"} /\ o.n = 0 /\ y.n = 0)
    <3>1. g = Pointwise(f, o, NumberLimbs(y), k, Larger(o.n, k))
      BY <2>2, <2>14 DEF Out
    <3>2. \A i \in 1 .. MaxCap : NumberLimbs(y)[i] \in Limb
      BY NumberLimbsSound
    <3>3. Changed(g, o, f, NumberLimbs(y), k)
      BY <1>k, <2>3, <2>4, <3>1, <3>2, PointwiseChanges
    <3> QED  BY <2>3, <3>3 DEF Changed
  <2> QED  BY <1>k, <2>3, <2>4, <2>8, <2>9, <2>10, <2>11, <2>12, <2>13, <2>14
<1> QED  BY <1>1, <1>2

LEMMA BinaryExact ==
  ASSUME IInv
  PROVE  MutativeExact /\ FunctionalExact /\ ExplicitExact
<1> USE DEF IInv, Words
<1>1. MutativeExact
  BY MutWordBits, MutNumberBits DEF MutativeExact
<1>2. FunctionalExact
  BY FunWordBits, FunNumberBits DEF FunctionalExact
<1>3. \A g, f, e, k : AppliedBelow(g, f, e, k) <=> Changed(g, x, f, e, k)
  BY DEF AppliedBelow, Changed
<1>4. ASSUME NEW f \in Functions, NEW k \in Ranges, NEW w \in Limb
      PROVE  (f = "and" /\ k < x.n) \/ \A h \in MutExWord(f, x, w, k) : AppliedBelow(h, f, WordLimbs(w), k)
  BY <1>3, MutExWordBits
<1>5. ASSUME NEW f \in Functions, NEW k \in Ranges, NEW v \in IntWords
      PROVE  \A h \in MutExInt(f, x, v, k) : AppliedBelow(h, f, IntLimbs(v), k)
  BY <1>3, MutExIntBits
<1>6. ASSUME NEW f \in Functions, NEW k \in Ranges, NEW y \in Operands
      PROVE  \/ f = "and" /\ y.n = 0 /\ k < x.n
             \/ f = "nand" /\ (x.n = 0 \/ y.n = 0)
             \/ \A h \in MutExNumber(f, x, y, k) : AppliedBelow(h, f, NumberLimbs(y), k)
  BY <1>3, MutExNumberBits
<1>7. ExplicitExact
  <2>1. ASSUME NEW f \in Functions, NEW k \in Ranges, NEW w \in Limb
        PROVE  Number(FunExWord(f, x, w, k)) = Apply(f, Number(x) \cap Window(k), w \cap Window(k), Window(k))
    BY FunExWordBits
  <2>2. ASSUME NEW f \in Functions, NEW k \in Ranges, NEW v \in IntWords
        PROVE  Number(FunExInt(f, x, v, k))
                 = Apply(f, Number(x) \cap Window(k), Number([limbs |-> IntLimbs(v), n |-> k]), Window(k))
    BY FunExIntBits
  <2>3. ASSUME NEW f \in Functions, NEW k \in Ranges, NEW y \in Operands
        PROVE  Number(FunExNumber(f, x, y, k))
                 = Apply(f, Number(x) \cap Window(k), Number(y) \cap Window(k), Window(k))
    BY FunExNumberBits
  <2> QED  BY <1>4, <1>5, <1>6, <2>1, <2>2, <2>3, Zenon DEF ExplicitExact
<1> QED  BY <1>1, <1>2, <1>7

-----------------------------------------------------------------------------
(* Shifts.  A limb of the number moved up or down by ls limbs and s bits. *)

UpLimb(h, ls, s, i) ==
  {b \in AllOnes : \/ i > ls /\ b >= s /\ b - s \in LimbOf(h, i - ls)
                   \/ i > ls + 1 /\ b < s /\ b - s + Bits \in LimbOf(h, i - ls - 1)}

DownLimb(h, ls, s, i) ==
  {b \in AllOnes : \/ b + s < Bits /\ b + s \in LimbOf(h, i + ls)
                   \/ b + s >= Bits /\ b + s - Bits \in LimbOf(h, i + ls + 1)}

UpBy(h, k)   == {b + k : b \in Number(h)}
DownBy(h, k) == {b - k : b \in {b \in Number(h) : b >= k}}

\* A shift is of whole limbs and of bits.
LEMMA ShiftIs ==
  ASSUME NEW k \in Shifts
  PROVE  /\ k \in Nat /\ LimbShift(k) \in Nat /\ BitShift(k) \in Nat /\ BitShift(k) < Bits
         /\ LimbShift(k) * Bits \in Nat /\ k = LimbShift(k) * Bits + BitShift(k)
         /\ k < Bits => LimbShift(k) = 0 /\ BitShift(k) = k
<1> DEFINE q == k \div Bits
           r == k % Bits
<1>1. k \in Nat
  BY BitsAssumption DEF Shifts
<1>2. q \in Nat /\ r \in 0 .. Bits - 1 /\ k = Bits * q + r /\ Bits \in Nat
  <2>1. Bits \in Nat \ {0}
    BY Constants
  <2> HIDE DEF Bits
  <2> QED  BY <1>1, <2>1
<1> HIDE DEF q, r
<1>3. Bits * q = q * Bits /\ q * Bits \in Nat
  BY <1>2
<1>4. ASSUME k < Bits PROVE q = 0 /\ r = k
  <2>1. q # 0 => 0 * Bits + Bits <= q * Bits
    BY <1>2, LimbsApart
  <2> QED  BY <1>1, <1>2, <1>3, <1>4, <2>1
<1>5. LimbShift(k) = q /\ BitShift(k) = r
  BY DEF LimbShift, BitShift, q, r
<1> QED  BY <1>1, <1>2, <1>3, <1>4, <1>5

\* Limbs further up.
LEMMA PlaceMoved ==
  ASSUME NEW i \in Nat \ {0}, NEW b \in Nat, NEW s \in Nat, NEW ls \in Nat
  PROVE  /\ Place(i + ls, b + s) = Place(i, b) + (ls * Bits + s)
         /\ Place(i + ls + 1, b + s - Bits) = Place(i, b) + (ls * Bits + s)
<1>1. Bits \in Nat /\ i - 1 \in Int
  BY Constants
<1>2. (i + ls - 1) * Bits = (i - 1) * Bits + ls * Bits /\ (i - 1) * Bits \in Int /\ ls * Bits \in Int
  BY <1>1
<1>3. (i + ls + 1 - 1) * Bits = (i - 1) * Bits + ls * Bits + Bits
  BY <1>1
<1> QED  BY <1>1, <1>2, <1>3 DEF Place

LEMMA DownPlaces ==
  ASSUME NEW h, Clean(h), NEW k \in Shifts, NEW i \in Nat \ {0}, NEW b \in AllOnes
  PROVE  Place(i, b) \in DownBy(h, k) <=> b \in DownLimb(h, LimbShift(k), BitShift(k), i)
<1> DEFINE ls == LimbShift(k)
           s == BitShift(k)
<1>k. k \in Nat /\ ls \in Nat /\ s \in Nat /\ s < Bits /\ ls * Bits \in Nat /\ k = ls * Bits + s
  BY ShiftIs
<1> HIDE DEF ls, s
<1>b. b \in Nat /\ b < Bits /\ Bits \in Nat /\ AllOnes = 0 .. Bits - 1
  BY Constants DEF AllOnes
<1>n. b \in Nat
  BY <1>b
<1>1. Place(i, b) \in Nat /\ Number(h) \subseteq Nat
  BY PlaceInRange, NumberBits
<1>2. Place(i, b) \in DownBy(h, k) <=> Place(i, b) + k \in Number(h)
  <2>1. ASSUME Place(i, b) \in DownBy(h, k) PROVE Place(i, b) + k \in Number(h)
    <3>1. PICK p \in Number(h) : p >= k /\ Place(i, b) = p - k
      BY <2>1 DEF DownBy
    <3>2. p \in Nat /\ Place(i, b) + k = p
      BY <1>1, <1>k, <3>1
    <3> QED  BY <3>1, <3>2
  <2>2. ASSUME Place(i, b) + k \in Number(h) PROVE Place(i, b) \in DownBy(h, k)
    <3>1. Place(i, b) + k >= k /\ (Place(i, b) + k) - k = Place(i, b)
      BY <1>1, <1>k
    <3> QED  BY <2>2, <3>1 DEF DownBy
  <2> QED  BY <2>1, <2>2
<1>3. CASE b + s < Bits
  <2>1. b + s \in AllOnes /\ i + ls \in Nat \ {0} /\ b + s \in Int
    BY <1>3, <1>b, <1>k
  <2>2. Place(i + ls, b + s) = Place(i, b) + k
    <3>1. Place(i + ls, b + s) = Place(i, b) + (ls * Bits + s)
      BY <1>n, <1>k, PlaceMoved
    <3> QED  BY <1>k, <3>1
  <2>3. Place(i + ls, b + s) \in Number(h) <=> b + s \in LimbOf(h, i + ls)
    BY <2>1, NumberBits
  <2> QED  BY <1>2, <1>3, <1>b, <1>k, <2>2, <2>3 DEF DownLimb, ls, s
<1>4. CASE b + s >= Bits
  <2>1. b + s - Bits \in AllOnes /\ i + ls + 1 \in Nat \ {0} /\ b + s \in Int
    BY <1>4, <1>b, <1>k
  <2>2. Place(i + ls + 1, b + s - Bits) = Place(i, b) + k
    <3>1. Place(i + ls + 1, b + s - Bits) = Place(i, b) + (ls * Bits + s)
      BY <1>n, <1>k, PlaceMoved
    <3> QED  BY <1>k, <3>1
  <2>3. Place(i + ls + 1, b + s - Bits) \in Number(h) <=> b + s - Bits \in LimbOf(h, i + ls + 1)
    BY <2>1, NumberBits
  <2> QED  BY <1>2, <1>4, <1>b, <1>k, <2>2, <2>3 DEF DownLimb, ls, s
<1> QED  BY <1>3, <1>4, <1>b, <1>k

LEMMA UpPlaces ==
  ASSUME NEW h, Clean(h), NEW k \in Shifts, NEW i \in Nat \ {0}, NEW b \in AllOnes
  PROVE  Place(i, b) \in UpBy(h, k) <=> b \in UpLimb(h, LimbShift(k), BitShift(k), i)
<1> DEFINE ls == LimbShift(k)
           s == BitShift(k)
<1>k. k \in Nat /\ ls \in Nat /\ s \in Nat /\ s < Bits /\ ls * Bits \in Nat /\ k = ls * Bits + s
  BY ShiftIs
<1> HIDE DEF ls, s
<1>b. b \in Nat /\ b < Bits /\ Bits \in Nat /\ AllOnes = 0 .. Bits - 1
  BY Constants DEF AllOnes
<1>1. Place(i, b) \in Nat /\ Number(h) \subseteq Nat
  BY PlaceInRange, NumberBits
<1>2. Place(i, b) \in UpBy(h, k) <=> \E p \in Number(h) : Place(i, b) = p + k
  BY DEF UpBy
<1>u. b \in UpLimb(h, ls, s, i) <=> \/ i > ls /\ b >= s /\ b - s \in LimbOf(h, i - ls)
                                    \/ i > ls + 1 /\ b < s /\ b - s + Bits \in LimbOf(h, i - ls - 1)
  BY DEF UpLimb
<1>3. ASSUME NEW p \in Number(h), Place(i, b) = p + k PROVE b \in UpLimb(h, ls, s, i)
  <2>1. PICK j \in Nat \ {0}, c \in AllOnes : p = Place(j, c)
    BY <1>1, PlaceOf
  <2>2. c \in LimbOf(h, j) /\ c \in Nat /\ c < Bits
    BY <1>3, <1>b, <2>1, NumberBits
  <2>3. Place(j + ls, c + s) = p + k /\ Place(j + ls + 1, c + s - Bits) = p + k
    BY <1>k, <2>1, <2>2, PlaceMoved
  <2>4. CASE c + s < Bits
    <3>1. c + s \in AllOnes /\ c + s \in Int /\ j + ls \in Nat \ {0}
      BY <1>b, <1>k, <2>2, <2>4
    <3>3. Place(j + ls, c + s) = Place(i, b)
      BY <1>3, <2>3
    <3>4. i = j + ls /\ b = c + s
      BY <3>1, <3>3, PlaceUnique
    <3>5. i > ls /\ b >= s /\ b - s = c /\ i - ls = j
      BY <1>k, <2>2, <3>4
    <3> QED  BY <1>u, <2>2, <3>5
  <2>5. CASE c + s >= Bits
    <3>1. c + s - Bits \in AllOnes /\ c + s \in Int /\ j + ls + 1 \in Nat \ {0}
      BY <1>b, <1>k, <2>2, <2>5
    <3>3. Place(j + ls + 1, c + s - Bits) = Place(i, b)
      BY <1>3, <2>3
    <3>4. i = j + ls + 1 /\ b = c + s - Bits
      BY <3>1, <3>3, PlaceUnique
    <3>5. i > ls + 1 /\ b < s /\ b - s + Bits = c /\ i - ls - 1 = j
      BY <1>b, <1>k, <2>2, <3>4
    <3> QED  BY <1>u, <2>2, <3>5
  <2> QED  BY <1>b, <1>k, <2>2, <2>4, <2>5
<1>4. ASSUME i > ls, b >= s, b - s \in LimbOf(h, i - ls) PROVE \E p \in Number(h) : Place(i, b) = p + k
  <2> DEFINE j == i - ls
             c == b - s
  <2>1. j \in Nat \ {0} /\ c \in AllOnes /\ c \in Nat
    BY <1>4, <1>b, <1>k
  <2>2. i = j + ls /\ b = c + s /\ c + s \in Int
    BY <1>b, <1>k
  <2>3. c \in LimbOf(h, j)
    BY <1>4
  <2> HIDE DEF j, c
  <2>4. Place(j, c) \in Number(h)
    BY <2>1, <2>3, NumberBits
  <2>5. Place(j + ls, c + s) = Place(j, c) + k
    BY <1>k, <2>1, PlaceMoved
  <2>7. Place(i, b) = Place(j, c) + k
    BY <2>2, <2>5
  <2> QED  BY <2>4, <2>7
<1>5. ASSUME i > ls + 1, b < s, b - s + Bits \in LimbOf(h, i - ls - 1) PROVE \E p \in Number(h) : Place(i, b) = p + k
  <2> DEFINE j == i - ls - 1
             c == b - s + Bits
  <2>1. j \in Nat \ {0} /\ c \in AllOnes /\ c \in Nat
    BY <1>5, <1>b, <1>k
  <2>2. i = j + ls + 1 /\ b = c + s - Bits /\ c + s \in Int
    BY <1>b, <1>k
  <2>3. c \in LimbOf(h, j)
    BY <1>5
  <2> HIDE DEF j, c
  <2>4. Place(j, c) \in Number(h)
    BY <2>1, <2>3, NumberBits
  <2>5. Place(j + ls + 1, c + s - Bits) = Place(j, c) + k
    BY <1>k, <2>1, PlaceMoved
  <2>7. Place(i, b) = Place(j, c) + k
    BY <2>2, <2>5
  <2> QED  BY <2>4, <2>7
<1> QED  BY <1>2, <1>3, <1>4, <1>5, <1>u DEF ls, s

-----------------------------------------------------------------------------
(* What a loop has written is what the shift is *)

Lifts(l, n, h, k)  == \A i \in 1 .. n : l[i] = UpLimb(h, LimbShift(k), BitShift(k), i)
Lowers(l, n, h, k) == \A i \in 1 .. n : l[i] = DownLimb(h, LimbShift(k), BitShift(k), i)

LEMMA RecordBits ==
  ASSUME NEW l, NEW n \in Nat, NEW s, NEW h, h = [limbs |-> l, n |-> n, sign |-> s],
         \A i \in 1 .. n : l[i] \subseteq AllOnes
  PROVE  LET g == Normalized(h)
         IN  /\ Number(g) \subseteq Window(n) /\ Number(g) \subseteq Nat
             /\ \A i \in Nat \ {0}, b \in AllOnes : Place(i, b) \in Number(g) <=> i <= n /\ b \in l[i]
<1> DEFINE g == Normalized(h)
<1>1. g.n \in Nat /\ g.n <= n /\ \A i \in Nat \ {0} : LimbOf(g, i) = LimbOf(h, i)
  BY NormalizedLimbs
<1> HIDE DEF g
<1>2. \A i \in Nat \ {0} : LimbOf(h, i) = IF i <= n THEN l[i] ELSE {}
  BY DEF LimbOf
<1>3. \A i \in Nat \ {0} : LimbOf(g, i) \subseteq AllOnes
  BY <1>1, <1>2
<1>4. Clean(g)
  BY <1>1, <1>3 DEF Clean
<1>5. \A i \in Nat \ {0}, b \in AllOnes : Place(i, b) \in Number(g) <=> i <= n /\ b \in l[i]
  BY <1>1, <1>2, <1>4, NumberBits
<1>6. Number(g) \subseteq Window(n) /\ Number(g) \subseteq Nat
  BY <1>1, <1>4, NumberInWindow, NumberBits
<1> QED  BY <1>5, <1>6 DEF g

LEMMA LiftsExact ==
  ASSUME NEW h, Clean(h), NEW k \in Shifts, NEW l, NEW n \in Nat, NEW s, Lifts(l, n, h, k)
  PROVE  Number(Normalized([limbs |-> l, n |-> n, sign |-> s])) = UpBy(h, k) \cap Window(n)
<1> DEFINE g == Normalized([limbs |-> l, n |-> n, sign |-> s])
<1>1. \A i \in 1 .. n : l[i] \subseteq AllOnes
  BY DEF Lifts, UpLimb
<1>2. /\ Number(g) \subseteq Nat
      /\ \A i \in Nat \ {0}, b \in AllOnes : Place(i, b) \in Number(g) <=> i <= n /\ b \in l[i]
  BY <1>1, RecordBits
<1> HIDE DEF g
<1>3. ASSUME NEW i \in Nat \ {0}, NEW b \in AllOnes
      PROVE  Place(i, b) \in Number(g) <=> Place(i, b) \in UpBy(h, k) \cap Window(n)
  <2>1. Place(i, b) \in Window(n) <=> i <= n
    BY PlaceInRange
  <2>2. Place(i, b) \in UpBy(h, k) <=> b \in UpLimb(h, LimbShift(k), BitShift(k), i)
    BY UpPlaces
  <2>3. i <= n => l[i] = UpLimb(h, LimbShift(k), BitShift(k), i)
    BY DEF Lifts
  <2> QED  BY <1>2, <2>1, <2>2, <2>3
<1>4. UpBy(h, k) \cap Window(n) \subseteq Nat
  BY DEF Window
<1>5. Number(g) = UpBy(h, k) \cap Window(n)
  BY <1>2, <1>3, <1>4, SameBits
<1> QED  BY <1>5 DEF g

\* Nothing is lost in an array that is long enough.
LEMMA NothingLost ==
  ASSUME NEW h, Clean(h), NEW k \in Shifts, NEW n \in Nat,
         n >= h.n + LimbShift(k) + (IF BitShift(k) > 0 THEN 1 ELSE 0)
  PROVE  UpBy(h, k) \subseteq Window(n)
<1>k. k \in Nat /\ LimbShift(k) \in Nat /\ BitShift(k) \in Nat /\ h.n \in Nat
  BY ShiftIs DEF Clean
<1>1. ASSUME NEW p \in UpBy(h, k) PROVE p \in Window(n)
  <2>1. p \in Nat
    BY <1>1, <1>k, NumberBits DEF UpBy
  <2>2. PICK i \in Nat \ {0}, b \in AllOnes : p = Place(i, b)
    BY <2>1, PlaceOf
  <2>3. b \in UpLimb(h, LimbShift(k), BitShift(k), i)
    BY <1>1, <2>2, UpPlaces
  <2>4. b \in Nat
    BY Constants
  <2>5. \/ i > LimbShift(k) /\ i - LimbShift(k) <= h.n
        \/ i > LimbShift(k) + 1 /\ BitShift(k) > 0 /\ i - LimbShift(k) - 1 <= h.n
    BY <1>k, <2>3, <2>4 DEF UpLimb, LimbOf
  <2>6. i <= n
    BY <1>k, <2>5
  <2> QED  BY <2>2, <2>6, PlaceInRange
<1> QED  BY <1>1

LEMMA LowersExact ==
  ASSUME NEW h, Clean(h), NEW k \in Shifts, NEW l, NEW n \in Nat, NEW s, Lowers(l, n, h, k),
         n >= h.n - LimbShift(k)
  PROVE  Number(Normalized([limbs |-> l, n |-> n, sign |-> s])) = DownBy(h, k)
<1> DEFINE g == Normalized([limbs |-> l, n |-> n, sign |-> s])
<1>k. k \in Nat /\ LimbShift(k) \in Nat /\ h.n \in Nat
  BY ShiftIs DEF Clean
<1>1. \A i \in 1 .. n : l[i] \subseteq AllOnes
  BY DEF Lowers, DownLimb
<1>2. /\ Number(g) \subseteq Nat
      /\ \A i \in Nat \ {0}, b \in AllOnes : Place(i, b) \in Number(g) <=> i <= n /\ b \in l[i]
  BY <1>1, RecordBits
<1> HIDE DEF g
<1>3. ASSUME NEW i \in Nat \ {0}, NEW b \in AllOnes
      PROVE  Place(i, b) \in Number(g) <=> Place(i, b) \in DownBy(h, k)
  <2>1. Place(i, b) \in DownBy(h, k) <=> b \in DownLimb(h, LimbShift(k), BitShift(k), i)
    BY DownPlaces
  <2>2. i <= n => l[i] = DownLimb(h, LimbShift(k), BitShift(k), i)
    BY DEF Lowers
  <2>3. ~(i <= n) => DownLimb(h, LimbShift(k), BitShift(k), i) = {}
    <3>1. ~(i <= n) => LimbOf(h, i + LimbShift(k)) = {} /\ LimbOf(h, i + LimbShift(k) + 1) = {}
      BY <1>k DEF LimbOf
    <3> QED  BY <3>1 DEF DownLimb
  <2> QED  BY <1>2, <2>1, <2>2, <2>3
<1>4. DownBy(h, k) \subseteq Nat
  BY <1>k, NumberBits DEF DownBy
<1>5. Number(g) = DownBy(h, k)
  BY <1>2, <1>3, <1>4, SameBits
<1> QED  BY <1>5 DEF g

\* The loops over the bits of a limb.
LEMMA UpBitsLimb ==
  ASSUME NEW h, Clean(h), NEW ls \in Nat, NEW s \in Nat, s < Bits, NEW from, NEW last,
         NEW i \in Nat \ {0}, i > ls, from[i] = LimbOf(h, i - ls),
         i > ls + 1 => from[i - 1] = LimbOf(h, i - ls - 1)
  PROVE  UpBits(from, ls + 1, last, i, s) = UpLimb(h, ls, s, i)
<1>b. Bits \in Nat /\ AllOnes = 0 .. Bits - 1
  BY Constants DEF AllOnes
<1>1. LimbOf(h, i - ls) \subseteq AllOnes
  BY DEF Clean
<1>2. i > ls + 1 => LimbOf(h, i - ls - 1) \subseteq AllOnes
  BY DEF Clean
<1>3. ASSUME NEW c
      PROVE  c \in {b + s : b \in {b \in from[i] : b + s < Bits}}
               <=> c \in AllOnes /\ c >= s /\ c - s \in LimbOf(h, i - ls)
  <2> DEFINE L == LimbOf(h, i - ls)
  <2>1. c \in {b + s : b \in {b \in from[i] : b + s < Bits}} <=> \E b \in L : b + s < Bits /\ c = b + s
    BY Zenon
  <2> HIDE DEF L
  <2>2. \A b \in L : b \in Nat /\ b < Bits
    BY <1>b, <1>1 DEF L
  <2>3. ASSUME NEW b \in L, b + s < Bits, c = b + s PROVE c \in AllOnes /\ c >= s /\ c - s \in L
    <3>1. c - s = b /\ c \in AllOnes /\ c >= s
      BY <1>b, <2>2, <2>3
    <3> QED  BY <3>1
  <2>4. ASSUME c \in AllOnes, c >= s, c - s \in L PROVE \E b \in L : b + s < Bits /\ c = b + s
    <3>1. (c - s) + s < Bits /\ c = (c - s) + s
      BY <1>b, <2>4
    <3> QED  BY <2>4, <3>1
  <2> QED  BY <2>1, <2>3, <2>4 DEF L
<1>4. ASSUME NEW c, i > ls + 1
      PROVE  c \in {b + s - Bits : b \in {b \in from[i - 1] : b + s >= Bits}}
               <=> c \in AllOnes /\ c < s /\ c - s + Bits \in LimbOf(h, i - ls - 1)
  <2> DEFINE L == LimbOf(h, i - ls - 1)
  <2>1. c \in {b + s - Bits : b \in {b \in from[i - 1] : b + s >= Bits}}
          <=> \E b \in L : b + s >= Bits /\ c = b + s - Bits
    BY <1>4, Zenon
  <2> HIDE DEF L
  <2>2. \A b \in L : b \in Nat /\ b < Bits
    BY <1>4, <1>b, <1>2 DEF L
  <2>3. ASSUME NEW b \in L, b + s >= Bits, c = b + s - Bits PROVE c \in AllOnes /\ c < s /\ c - s + Bits \in L
    <3>1. c - s + Bits = b /\ c \in AllOnes /\ c < s
      BY <1>b, <2>2, <2>3
    <3> QED  BY <3>1
  <2>4. ASSUME c \in AllOnes, c < s, c - s + Bits \in L PROVE \E b \in L : b + s >= Bits /\ c = b + s - Bits
    <3>1. (c - s + Bits) + s >= Bits /\ c = (c - s + Bits) + s - Bits
      BY <1>b, <2>4
    <3> QED  BY <2>4, <3>1
  <2> QED  BY <2>1, <2>3, <2>4 DEF L
<1> QED  BY <1>3, <1>4 DEF UpBits, UpLimb

LEMMA DownBitsLimb ==
  ASSUME NEW h, Clean(h), NEW ls \in Nat, NEW s \in Nat, s < Bits, NEW from, NEW last \in Nat,
         NEW i \in Nat \ {0}, i <= last, from[i] = LimbOf(h, i + ls),
         i < last => from[i + 1] = LimbOf(h, i + ls + 1), h.n <= last + ls
  PROVE  DownBits(from, last, i, s) = DownLimb(h, ls, s, i)
<1>b. Bits \in Nat /\ AllOnes = 0 .. Bits - 1
  BY Constants DEF AllOnes
<1>1. LimbOf(h, i + ls) \subseteq AllOnes /\ LimbOf(h, i + ls + 1) \subseteq AllOnes /\ h.n \in Nat
  BY DEF Clean
<1>2. ~(i < last) => LimbOf(h, i + ls + 1) = {}
  BY <1>1 DEF LimbOf
<1>3. ASSUME NEW c
      PROVE  c \in {b - s : b \in {b \in from[i] : b >= s}}
               <=> c \in AllOnes /\ c + s < Bits /\ c + s \in LimbOf(h, i + ls)
  BY <1>b, <1>1
<1>4. ASSUME NEW c, i < last
      PROVE  c \in {b - s + Bits : b \in {b \in from[i + 1] : b < s}}
               <=> c \in AllOnes /\ c + s >= Bits /\ c + s - Bits \in LimbOf(h, i + ls + 1)
  <2> DEFINE L == LimbOf(h, i + ls + 1)
  <2>1. c \in {b - s + Bits : b \in {b \in from[i + 1] : b < s}} <=> \E b \in L : b < s /\ c = b - s + Bits
    BY <1>4, Zenon
  <2> HIDE DEF L
  <2>2. \A b \in L : b \in Nat /\ b < Bits
    BY <1>b, <1>1 DEF L
  <2>3. ASSUME NEW b \in L, b < s, c = b - s + Bits PROVE c \in AllOnes /\ c + s >= Bits /\ c + s - Bits \in L
    <3>1. c + s - Bits = b /\ c \in AllOnes /\ c + s >= Bits
      BY <1>b, <2>2, <2>3
    <3> QED  BY <3>1
  <2>4. ASSUME c \in AllOnes, c + s >= Bits, c + s - Bits \in L PROVE \E b \in L : b < s /\ c = b - s + Bits
    <3>1. c + s - Bits < s /\ c = (c + s - Bits) - s + Bits
      BY <1>b, <2>4
    <3> QED  BY <2>4, <3>1
  <2> QED  BY <2>1, <2>3, <2>4 DEF L
<1> QED  BY <1>2, <1>3, <1>4 DEF DownBits, DownLimb

\* A shift by whole limbs.
LEMMA WholeLimbs ==
  ASSUME NEW h, Clean(h), NEW ls \in Nat, NEW i \in Nat \ {0}
  PROVE  /\ UpLimb(h, ls, 0, i) = IF i > ls THEN LimbOf(h, i - ls) ELSE {}
         /\ DownLimb(h, ls, 0, i) = LimbOf(h, i + ls)
<1>b. Bits \in Nat /\ AllOnes = 0 .. Bits - 1
  BY Constants DEF AllOnes
<1>1. LimbOf(h, i + ls) \subseteq AllOnes
  BY DEF Clean
<1>2. i > ls => LimbOf(h, i - ls) \subseteq AllOnes
  BY DEF Clean
<1>3. UpLimb(h, ls, 0, i) = IF i > ls THEN LimbOf(h, i - ls) ELSE {}
  BY <1>b, <1>2 DEF UpLimb
<1>4. DownLimb(h, ls, 0, i) = LimbOf(h, i + ls)
  BY <1>b, <1>1 DEF DownLimb
<1> QED  BY <1>3, <1>4

-----------------------------------------------------------------------------
(* The shift calls *)

\* The limbs 1 .. n of u are those of h, ls limbs up, or ls limbs down.
LimbsUp(u, n, h, ls)   == \A i \in 1 .. n : u[i] = IF i > ls THEN LimbOf(h, i - ls) ELSE {}
LimbsDown(u, n, h, ls) == \A i \in 1 .. n : u[i] = LimbOf(h, i + ls)

\* A left shift's loop reads limbs that were moved already.
LEMMA UpLoopLifts ==
  ASSUME NEW h, Clean(h), NEW k \in Shifts, NEW up, NEW n \in Nat, NEW last \in Nat, NEW from,
         DOMAIN up.limbs \in SUBSET Nat, 1 .. n \subseteq DOMAIN up.limbs,
         LimbsUp(up.limbs, n, h, LimbShift(k)), up = [limbs |-> up.limbs, n |-> up.n, sign |-> up.sign],
         BitShift(k) > 0 => last >= n /\ LimbsUp(from, last, h, LimbShift(k))
  PROVE  Lifts(UpLoop(up, from, LimbShift(k) + 1, last, BitShift(k)).limbs, n, h, k)
<1> DEFINE ls == LimbShift(k)
           s == BitShift(k)
           l == [i \in DOMAIN up.limbs |->
                   IF s > 0 /\ i \in ls + 1 .. last THEN UpBits(from, ls + 1, last, i, s) ELSE up.limbs[i]]
<1>k. ls \in Nat /\ s \in Nat /\ s < Bits
  BY ShiftIs
<1>1. UpLoop(up, from, ls + 1, last, s).limbs = l
  <2>1. UpLoop(up, from, ls + 1, last, s) = [up EXCEPT !.limbs = l]
    BY DEF UpLoop
  <2> HIDE DEF l
  <2> QED  BY <2>1
<1> HIDE DEF ls, s
<1>2. ASSUME NEW i \in 1 .. n PROVE l[i] = UpLimb(h, ls, s, i)
  <2>1. i \in Nat \ {0} /\ i \in DOMAIN up.limbs
    OBVIOUS
  <2>2. up.limbs[i] = IF i > ls THEN LimbOf(h, i - ls) ELSE {}
    BY DEF LimbsUp, ls
  <2>3. CASE s = 0
    <3>1. l[i] = up.limbs[i]
      BY <2>1, <2>3
    <3>2. UpLimb(h, ls, 0, i) = IF i > ls THEN LimbOf(h, i - ls) ELSE {}
      BY <1>k, <2>1, WholeLimbs
    <3> QED  BY <2>2, <2>3, <3>1, <3>2
  <2>4. CASE s > 0 /\ i > ls
    <3>1. i \in ls + 1 .. last /\ i \in 1 .. last /\ LimbsUp(from, last, h, ls)
      BY <1>k, <2>4 DEF ls, s
    <3>2. from[i] = LimbOf(h, i - ls)
      BY <2>4, <3>1 DEF LimbsUp
    <3>3. i > ls + 1 => from[i - 1] = LimbOf(h, i - ls - 1)
      <4> SUFFICES ASSUME i > ls + 1 PROVE from[i - 1] = LimbOf(h, i - ls - 1)
        OBVIOUS
      <4>1. i - 1 \in 1 .. last /\ i - 1 > ls /\ (i - 1) - ls = i - ls - 1
        BY <1>k, <3>1
      <4> QED  BY <3>1, <4>1 DEF LimbsUp
    <3>4. UpBits(from, ls + 1, last, i, s) = UpLimb(h, ls, s, i)
      BY <1>k, <2>1, <2>4, <3>2, <3>3, UpBitsLimb
    <3> QED  BY <2>1, <2>4, <3>1, <3>4
  <2>5. CASE s > 0 /\ ~(i > ls)
    <3>1. l[i] = {}
      BY <1>k, <2>1, <2>2, <2>5
    <3>2. UpLimb(h, ls, s, i) = {}
      BY <1>k, <2>5 DEF UpLimb
    <3> QED  BY <3>1, <3>2
  <2> QED  BY <1>k, <2>3, <2>4, <2>5
<1> HIDE DEF l
<1> QED  BY <1>1, <1>2 DEF Lifts, ls, s

\* A right shift's loop, likewise or the limbs of the operand.
LEMMA DownLoopLowers ==
  ASSUME NEW h, Clean(h), NEW k \in Shifts, NEW down, NEW n \in Nat, NEW from,
         1 .. n \subseteq DOMAIN down.limbs,
         down = [limbs |-> down.limbs, n |-> down.n, sign |-> down.sign],
         h.n <= n + LimbShift(k),
         BitShift(k) = 0 => LimbsDown(down.limbs, n, h, LimbShift(k)),
         BitShift(k) > 0 => LimbsDown(from, n, h, LimbShift(k))
  PROVE  Lowers(DownLoop(down, from, n, BitShift(k)).limbs, n, h, k)
<1> DEFINE ls == LimbShift(k)
           s == BitShift(k)
           l == [i \in DOMAIN down.limbs |-> IF s > 0 /\ i <= n THEN DownBits(from, n, i, s) ELSE down.limbs[i]]
<1>k. ls \in Nat /\ s \in Nat /\ s < Bits
  BY ShiftIs
<1>1. DownLoop(down, from, n, s).limbs = l
  <2>1. DownLoop(down, from, n, s) = [down EXCEPT !.limbs = l]
    BY DEF DownLoop
  <2> HIDE DEF l
  <2> QED  BY <2>1
<1>h. h.n <= n + ls
  OBVIOUS
<1> HIDE DEF ls, s
<1>2. ASSUME NEW i \in 1 .. n PROVE l[i] = DownLimb(h, ls, s, i)
  <2>1. i \in Nat \ {0} /\ i \in DOMAIN down.limbs /\ i <= n
    OBVIOUS
  <2>3. CASE s = 0
    <3>1. l[i] = down.limbs[i]
      BY <2>1, <2>3
    <3>2. DownLimb(h, ls, 0, i) = LimbOf(h, i + ls)
      BY <1>k, <2>1, WholeLimbs
    <3>3. down.limbs[i] = LimbOf(h, i + ls)
      BY <2>3 DEF LimbsDown, ls, s
    <3> QED  BY <2>3, <3>1, <3>2, <3>3
  <2>4. CASE s > 0
    <3>1. LimbsDown(from, n, h, ls)
      BY <2>4 DEF ls, s
    <3>2. from[i] = LimbOf(h, i + ls)
      BY <3>1 DEF LimbsDown
    <3>3. i < n => from[i + 1] = LimbOf(h, i + ls + 1)
      <4> SUFFICES ASSUME i < n PROVE from[i + 1] = LimbOf(h, i + ls + 1)
        OBVIOUS
      <4>1. i + 1 \in 1 .. n /\ (i + 1) + ls = i + ls + 1
        BY <1>k
      <4> QED  BY <3>1, <4>1 DEF LimbsDown
    <3>4. DownBits(from, n, i, s) = DownLimb(h, ls, s, i)
      BY <1>h, <1>k, <2>1, <3>2, <3>3, DownBitsLimb
    <3> QED  BY <2>1, <2>4, <3>4
  <2> QED  BY <1>k, <2>3, <2>4
<1> HIDE DEF l
<1> QED  BY <1>1, <1>2 DEF Lowers, ls, s

\* The loops change the limbs only.
LEMMA LoopRecord ==
  ASSUME NEW h, h = [limbs |-> h.limbs, n |-> h.n, sign |-> h.sign], NEW from, NEW first, NEW last, NEW s
  PROVE  /\ UpLoop(h, from, first, last, s)
              = [limbs |-> UpLoop(h, from, first, last, s).limbs, n |-> h.n, sign |-> h.sign]
         /\ DownLoop(h, from, last, s)
              = [limbs |-> DownLoop(h, from, last, s).limbs, n |-> h.n, sign |-> h.sign]
<1>1. ASSUME NEW l PROVE LET g == [h EXCEPT !.limbs = l] IN g = [limbs |-> g.limbs, n |-> h.n, sign |-> h.sign]
  <2>1. PICK a, b, c : h = [limbs |-> a, n |-> b, sign |-> c]
    OBVIOUS
  <2>2. [h EXCEPT !.limbs = l] = [limbs |-> l, n |-> b, sign |-> c] /\ h.n = b /\ h.sign = c
    BY <2>1
  <2> QED  BY <2>2
<1>2. \E l : UpLoop(h, from, first, last, s) = [h EXCEPT !.limbs = l]
  BY DEF UpLoop
<1>3. \E l : DownLoop(h, from, last, s) = [h EXCEPT !.limbs = l]
  BY DEF DownLoop
<1> QED  BY <1>1, <1>2, <1>3

\* A valid number is normal already.
LEMMA NormalizedSame ==
  ASSUME NEW h, Sound(h), ArithValid(h)
  PROVE  Normalized(h) = h
<1> DEFINE Top(m) == /\ m > 0 => h.limbs[m] # {}
                     /\ \A i \in m + 1 .. h.n : h.limbs[i] = {}
           m == CHOOSE m \in 0 .. h.n : Top(m)
<1>1. h.n \in Nat
  BY SoundFields
<1>2. \E k \in 0 .. h.n : Top(k)
  BY <1>1, TopLimb
<1>3. m \in 0 .. h.n /\ Top(m)
  BY <1>2
<1>4. Normalized(h) = [h EXCEPT !.n = m, !.sign = IF m = 0 THEN 1 ELSE @]
  BY DEF Normalized
<1>5. \A i \in m + 1 .. h.n : h.limbs[i] = {}
  BY <1>3
<1> HIDE DEF m, Top
<1>6. Normalized(h) = [limbs |-> h.limbs, n |-> m, sign |-> IF m = 0 THEN 1 ELSE h.sign]
  BY <1>4, ExceptSign, Zenon
<1>7. m = h.n
  <2>1. ASSUME m < h.n PROVE FALSE
    <3>1. h.n \in m + 1 .. h.n /\ h.n # 0
      BY <1>1, <1>3, <2>1
    <3> QED  BY <1>5, <3>1 DEF ArithValid
  <2> QED  BY <1>1, <1>3, <2>1
<1>8. (IF m = 0 THEN 1 ELSE h.sign) = h.sign
  BY <1>7 DEF ArithValid
<1>9. h = [limbs |-> h.limbs, n |-> h.n, sign |-> h.sign]
  BY SoundFields
<1> QED  BY <1>6, <1>7, <1>8, <1>9

\* What moves past the window is lost, and of zero nothing moves.
LEMMA NothingMoves ==
  ASSUME NEW h, Clean(h), NEW k \in Shifts
  PROVE  /\ \A m \in Nat : m <= LimbShift(k) => UpBy(h, k) \cap Window(m) = {}
         /\ h.n = 0 => UpBy(h, k) = {}
<1>k. k \in Nat /\ LimbShift(k) \in Nat /\ BitShift(k) \in Nat /\ h.n \in Nat
  BY ShiftIs DEF Clean
<1>1. ASSUME NEW m \in Nat, m <= LimbShift(k), NEW p \in UpBy(h, k) \cap Window(m) PROVE FALSE
  <2>1. p \in Nat
    BY <1>1 DEF Window
  <2>2. PICK i \in Nat \ {0}, b \in AllOnes : p = Place(i, b)
    BY <2>1, PlaceOf
  <2>3. b \in UpLimb(h, LimbShift(k), BitShift(k), i)
    BY <1>1, <2>2, UpPlaces
  <2>4. i > LimbShift(k)
    BY <1>k, <2>3 DEF UpLimb
  <2>5. i <= m
    BY <1>1, <2>2, PlaceInRange
  <2> QED  BY <1>1, <1>k, <2>4, <2>5
<1>2. ASSUME h.n = 0, NEW p \in UpBy(h, k) PROVE FALSE
  <2>1. Number(h) = {}
    BY <1>2, ZeroNumber
  <2> QED  BY <1>2, <2>1 DEF UpBy
<1> QED  BY <1>1, <1>2

LEMMA SmallerIs ==
  ASSUME NEW a \in Nat, NEW b \in Nat
  PROVE  /\ Smaller(a, b) \in Nat /\ Smaller(a, b) <= a /\ Smaller(a, b) <= b
         /\ a <= b => Smaller(a, b) = a
BY DEF Smaller

\* Whole limbs up: all of them, and in an array that is long enough, to be shifted on.
LEMMA LLShiftLimbs ==
  ASSUME NEW h, Sound(h), NEW ls \in Nat, ls # 0, h.n # 0, ls < Cap(h)
  PROVE  \E g : /\ Sound(g) /\ g.n = Smaller(h.n + ls, Cap(h)) /\ LLShift(h, ls) = Normalized(g)
                /\ LimbsUp(g.limbs, g.n, h, ls) /\ Cap(g) = Cap(h)
<1>h. h.n \in Nat /\ h.n <= Cap(h) /\ Cap(h) \in Nat
  BY SoundFields
<1>c. ls # 0 /\ h.n # 0 /\ ~(ls >= Cap(h)) /\ h.n + ls \in Nat
  BY <1>h
<1> DEFINE n == Smaller(h.n + ls, Cap(h))
           l == [i \in DOMAIN h.limbs |-> IF i <= ls THEN {}
                   ELSE IF i - ls <= h.n THEN h.limbs[i - ls] ELSE h.limbs[i]]
           g == [h EXCEPT !.limbs = l, !.n = n]
<1>1. LLShift(h, ls) = Normalized(g)
  BY <1>c DEF LLShift
<1>2. n \in Nat /\ n <= Cap(h) /\ n <= h.n + ls
  BY <1>c, <1>h, SmallerIs
<1>3. \A i \in 1 .. Cap(h) : ~(i <= ls) /\ i - ls <= h.n => i - ls \in 1 .. Cap(h)
  BY <1>h
<1>n. n = Smaller(h.n + ls, Cap(h))
  OBVIOUS
<1> HIDE DEF n
<1>4. l \in [1 .. Cap(h) -> Limb]
  BY <1>3, SoundFields, Constants
<1>5. ASSUME NEW i \in 1 .. n PROVE l[i] = IF i > ls THEN LimbOf(h, i - ls) ELSE {}
  <2>1. i \in DOMAIN h.limbs /\ (i > ls <=> ~(i <= ls)) /\ i - ls <= h.n
    BY <1>h, <1>2, SoundFields
  <2> QED  BY <2>1 DEF LimbOf
<1>6. LimbsUp(l, n, h, ls)
  BY <1>5 DEF LimbsUp
<1> HIDE DEF l
<1>7. g = [limbs |-> l, n |-> n, sign |-> h.sign]
  BY ExceptLimbs, Zenon
<1> HIDE DEF g
<1>8. Sound(g) /\ Cap(g) = Cap(h)
  BY <1>2, <1>4, <1>7, MadeSound, SoundFields
<1>9. g.n = n /\ g.limbs = l
  BY <1>7
<1> QED  BY <1>1, <1>6, <1>8, <1>9, <1>n

\* Limbs that are the shift's, in a sound number.
LEMMA LimbsUpNumber ==
  ASSUME NEW h, Clean(h), NEW k \in Shifts, BitShift(k) = 0, NEW g, Sound(g),
         LimbsUp(g.limbs, g.n, h, LimbShift(k))
  PROVE  Number(g) = UpBy(h, k) \cap Window(g.n)
<1>1. g = [limbs |-> g.limbs, n |-> g.n, sign |-> g.sign] /\ g.n \in Nat
  BY SoundFields
<1>2. LimbShift(k) \in Nat
  BY ShiftIs
<1>3. Lifts(g.limbs, g.n, h, k)
  <2> SUFFICES ASSUME NEW i \in 1 .. g.n
               PROVE  g.limbs[i] = UpLimb(h, LimbShift(k), BitShift(k), i)
    BY DEF Lifts
  <2>1. i \in Nat \ {0}
    BY <1>1
  <2>2. UpLimb(h, LimbShift(k), 0, i) = IF i > LimbShift(k) THEN LimbOf(h, i - LimbShift(k)) ELSE {}
    BY <1>2, <2>1, WholeLimbs
  <2> QED  BY <2>2 DEF LimbsUp
<1>4. Number(Normalized(g)) = UpBy(h, k) \cap Window(g.n)
  BY <1>1, <1>3, LiftsExact
<1> QED  BY <1>4, NormalizedNumber

LEMMA LLShiftNumber ==
  ASSUME NEW h, Sound(h), NEW k \in Shifts, BitShift(k) = 0
  PROVE  Number(LLShift(h, LimbShift(k))) = UpBy(h, k) \cap Window(Smaller(h.n + LimbShift(k), Cap(h)))
<1> DEFINE ls == LimbShift(k)
           m == Smaller(h.n + ls, Cap(h))
<1>h. h.n \in Nat /\ h.n <= Cap(h) /\ Cap(h) \in Nat /\ Clean(h) /\ ls \in Nat
  BY SoundFields, SoundClean, ShiftIs
<1>a. h.n + ls \in Nat
  BY <1>h
<1>m. m \in Nat /\ m <= Cap(h) /\ (h.n + ls <= Cap(h) => m = h.n + ls)
  BY <1>a, <1>h, SmallerIs
<1> HIDE DEF m
<1>1. CASE h.n = 0
  <2>1. LLShift(h, ls) = h
    BY <1>1 DEF LLShift
  <2> QED  BY <1>1, <1>h, <2>1, ZeroNumber, NothingMoves DEF m
<1>2. CASE ls = 0
  <2>1. LLShift(h, ls) = h
    BY <1>2 DEF LLShift
  <2>2. m = h.n
    BY <1>2, <1>h, <1>m
  <2>3. LimbsUp(h.limbs, h.n, h, ls)
    BY <1>2, <1>h DEF LimbsUp, LimbOf
  <2> QED  BY <1>h, <2>1, <2>2, <2>3, LimbsUpNumber DEF m
<1>3. CASE ls # 0 /\ h.n # 0 /\ ls < Cap(h)
  <2>1. PICK g : /\ Sound(g) /\ g.n = m /\ LLShift(h, ls) = Normalized(g)
                 /\ LimbsUp(g.limbs, g.n, h, ls)
    BY <1>3, <1>h, LLShiftLimbs DEF m
  <2>2. Number(g) = UpBy(h, k) \cap Window(g.n)
    BY <1>h, <2>1, LimbsUpNumber
  <2> QED  BY <2>1, <2>2, NormalizedNumber DEF m
<1>4. CASE ls # 0 /\ h.n # 0 /\ ~(ls < Cap(h))
  <2> DEFINE zero == 0
             s == 1
             g == [h EXCEPT !.n = zero, !.sign = s]
  <2>1. LLShift(h, ls) = g
    BY <1>4, <1>h DEF LLShift
  <2>2. zero = 0
    OBVIOUS
  <2> HIDE DEF zero, s
  <2>3. g = [limbs |-> h.limbs, n |-> zero, sign |-> s]
    BY ExceptSign, Zenon
  <2> HIDE DEF g
  <2>4. g.n = 0
    BY <2>2, <2>3
  <2>5. UpBy(h, k) \cap Window(m) = {}
    <3>1. m <= ls
      BY <1>4, <1>h, <1>m
    <3> QED  BY <1>h, <1>m, <3>1, NothingMoves DEF ls
  <2> QED  BY <2>1, <2>4, <2>5, ZeroNumber DEF m
<1> QED  BY <1>1, <1>2, <1>3, <1>4, <1>h

\* A valid number in an array that is long enough keeps every limb.
LEMMA LLShiftWhole ==
  ASSUME NEW h, Sound(h), ArithValid(h), NEW ls \in Nat, h.n # 0, h.n + ls <= Cap(h)
  PROVE  /\ Sound(LLShift(h, ls)) /\ LLShift(h, ls).n = h.n + ls
         /\ LimbsUp(LLShift(h, ls).limbs, h.n + ls, h, ls)
<1>h. h.n \in Nat /\ h.n <= Cap(h) /\ Cap(h) \in Nat
  BY SoundFields
<1>1. CASE ls = 0
  <2>1. LLShift(h, ls) = h
    BY <1>1 DEF LLShift
  <2>2. LimbsUp(h.limbs, h.n, h, ls)
    BY <1>1, <1>h DEF LimbsUp, LimbOf
  <2> QED  BY <1>1, <1>h, <2>1, <2>2
<1>2. CASE ls # 0
  <2>1. PICK g : /\ Sound(g) /\ g.n = Smaller(h.n + ls, Cap(h)) /\ LLShift(h, ls) = Normalized(g)
                 /\ LimbsUp(g.limbs, g.n, h, ls)
    BY <1>2, <1>h, LLShiftLimbs
  <2>2. g.n = h.n + ls
    BY <1>h, <2>1, SmallerIs
  <2>3. g.limbs[g.n] = h.limbs[h.n]
    <3>1. h.n + ls \in 1 .. g.n /\ h.n + ls > ls /\ (h.n + ls) - ls = h.n
      BY <1>h, <2>2
    <3>2. g.limbs[h.n + ls] = LimbOf(h, h.n)
      BY <2>1, <3>1 DEF LimbsUp
    <3> QED  BY <1>h, <2>2, <3>2 DEF LimbOf
  <2>4. ArithValid(g)
    BY <1>h, <2>2, <2>3 DEF ArithValid
  <2> QED  BY <2>1, <2>2, <2>4, NormalizedSame
<1> QED  BY <1>1, <1>2

\* Without a shift of bits the loop changes nothing.
LEMMA NoBitsMoved ==
  ASSUME NEW h, Sound(h), NEW from, NEW first, NEW last
  PROVE  UpLoop(h, from, first, last, 0) = h
<1> DEFINE l == [i \in DOMAIN h.limbs |->
                   IF 0 > 0 /\ i \in first .. last THEN UpBits(from, first, last, i, 0) ELSE h.limbs[i]]
<1>1. l = h.limbs
  BY SoundFields
<1>2. UpLoop(h, from, first, last, 0) = [h EXCEPT !.limbs = l]
  BY DEF UpLoop
<1> HIDE DEF l
<1>3. [h EXCEPT !.limbs = l] = [limbs |-> l, n |-> h.n, sign |-> h.sign]
  BY ExceptField, Zenon
<1> QED  BY <1>1, <1>2, <1>3, SoundFields

LEMMA FunLShiftGBits ==
  ASSUME NEW h, Sound(h), NEW k \in Shifts
  PROVE  Number(FunLShiftG(h, k)) = UpBy(h, k)
<1> DEFINE ls == LimbShift(k)
           n == h.n + LimbShift(k) + (IF BitShift(k) > 0 THEN 1 ELSE 0)
           c == Larger(n, 1)
           l == [i \in 1 .. c |-> IF i <= ls THEN {} ELSE LimbOf(h, i - ls)]
           s == h.sign
           up == [limbs |-> l, n |-> n, sign |-> s]
           q == UpLoop(up, up.limbs, ls + 1, n, BitShift(k))
<1>k. ls \in Nat /\ BitShift(k) \in Nat /\ h.n \in Nat /\ Clean(h)
  BY ShiftIs, SoundFields, SoundClean
<1>1. FunLShiftG(h, k) = Normalized(q)
  BY DEF FunLShiftG
<1>2. n \in Nat /\ n >= h.n + LimbShift(k) + (IF BitShift(k) > 0 THEN 1 ELSE 0)
  BY <1>k
<1> HIDE DEF n
<1>3. c \in Nat /\ n <= c
  BY <1>2 DEF Larger
<1> HIDE DEF c
<1>4. DOMAIN l = 1 .. c
  OBVIOUS
<1>5. ASSUME NEW i \in 1 .. n PROVE l[i] = IF i > ls THEN LimbOf(h, i - ls) ELSE {}
  <2>1. i \in 1 .. c /\ (i > ls <=> ~(i <= ls))
    BY <1>2, <1>3, <1>k
  <2> QED  BY <2>1
<1>6. LimbsUp(l, n, h, ls)
  BY <1>5 DEF LimbsUp
<1> HIDE DEF l
<1>7. up.limbs = l /\ up.n = n /\ up.sign = s
  OBVIOUS
<1>u. up = [limbs |-> up.limbs, n |-> up.n, sign |-> up.sign]
  OBVIOUS
<1> HIDE DEF up
<1>8. 1 .. n \subseteq DOMAIN up.limbs /\ DOMAIN up.limbs \in SUBSET Nat
  BY <1>2, <1>3, <1>4, <1>7
<1>9. Lifts(q.limbs, n, h, k)
  <2>1. LimbsUp(up.limbs, n, h, LimbShift(k)) /\ n >= n
    BY <1>2, <1>6, <1>7
  <2> QED  BY <1>2, <1>8, <1>k, <1>u, <2>1, UpLoopLifts
<1>10. q = [limbs |-> q.limbs, n |-> n, sign |-> s]
  BY <1>7, <1>u, LoopRecord
<1> HIDE DEF q, ls
<1>11. Number(Normalized([limbs |-> q.limbs, n |-> n, sign |-> s])) = UpBy(h, k) \cap Window(n)
  BY <1>2, <1>9, <1>k, LiftsExact
<1>12. UpBy(h, k) \subseteq Window(n)
  BY <1>2, <1>k, NothingLost
<1> QED  BY <1>1, <1>10, <1>11, <1>12

\* A loop over a sound number whose limbs were moved.
LEMMA UpLoopNumber ==
  ASSUME NEW h, Clean(h), NEW k \in Shifts, NEW up, Sound(up), NEW last \in Nat, NEW from,
         LimbsUp(up.limbs, up.n, h, LimbShift(k)), last >= up.n, LimbsUp(from, last, h, LimbShift(k))
  PROVE  Number(Normalized(UpLoop(up, from, LimbShift(k) + 1, last, BitShift(k))))
           = UpBy(h, k) \cap Window(up.n)
<1> DEFINE n == up.n
           q == UpLoop(up, from, LimbShift(k) + 1, last, BitShift(k))
<1>1. /\ n \in Nat /\ up = [limbs |-> up.limbs, n |-> up.n, sign |-> up.sign]
      /\ 1 .. n \subseteq DOMAIN up.limbs /\ DOMAIN up.limbs \in SUBSET Nat
  <2>1. n \in Nat /\ n <= Cap(up) /\ Cap(up) \in Nat /\ DOMAIN up.limbs = 1 .. Cap(up)
    BY SoundFields
  <2> QED  BY <2>1, SoundFields
<1>2. Lifts(q.limbs, n, h, k)
  BY <1>1, UpLoopLifts
<1>3. q = [limbs |-> q.limbs, n |-> n, sign |-> up.sign]
  BY <1>1, LoopRecord
<1> HIDE DEF q
<1>4. Number(Normalized([limbs |-> q.limbs, n |-> n, sign |-> up.sign])) = UpBy(h, k) \cap Window(n)
  BY <1>1, <1>2, LiftsExact
<1> QED  BY <1>3, <1>4 DEF q

LEMMA MutLShiftBits ==
  ASSUME NEW h, Sound(h), ArithValid(h), NEW k \in Shifts,
         h.n + LimbShift(k) <= Cap(h) \/ BitShift(k) = 0
  PROVE  Number(MutLShift(h, k)) = UpBy(h, k) \cap Window(Smaller(h.n + LimbShift(k), Cap(h)))
<1> DEFINE ls == LimbShift(k)
           up == LLShift(h, ls)
           m == Smaller(h.n + ls, Cap(h))
<1>h. /\ h.n \in Nat /\ h.n <= Cap(h) /\ Cap(h) \in Nat /\ Clean(h) /\ ls \in Nat /\ BitShift(k) \in Nat
      /\ Sound(up) /\ up.n \in Nat
  <2>1. Sound(up)
    BY ShiftIs, LLShiftSound
  <2> QED  BY <2>1, SoundFields, SoundClean, ShiftIs
<1>1. MutLShift(h, k) = Normalized(UpLoop(up, up.limbs, ls + 1, up.n, BitShift(k)))
  BY DEF MutLShift
<1>2. CASE BitShift(k) = 0
  <2>1. UpLoop(up, up.limbs, ls + 1, up.n, BitShift(k)) = up
    <3> HIDE DEF up
    <3> QED  BY <1>2, <1>h, NoBitsMoved
  <2>2. Number(Normalized(up)) = Number(up)
    BY <1>h, NormalizedNumber
  <2> QED  BY <1>1, <1>2, <2>1, <2>2, LLShiftNumber
<1>3. CASE h.n # 0 /\ h.n + ls <= Cap(h)
  <2>1. up.n = h.n + ls /\ LimbsUp(up.limbs, h.n + ls, h, ls)
    BY <1>3, <1>h, LLShiftWhole
  <2>2. m = up.n
    BY <1>3, <1>h, <2>1, SmallerIs
  <2>3. LimbsUp(up.limbs, up.n, h, ls) /\ up.n >= up.n
    BY <1>h, <2>1
  <2> HIDE DEF up, m
  <2>4. Number(Normalized(UpLoop(up, up.limbs, ls + 1, up.n, BitShift(k)))) = UpBy(h, k) \cap Window(up.n)
    BY <1>h, <2>3, UpLoopNumber
  <2> QED  BY <1>1, <2>2, <2>4 DEF m
<1>4. CASE h.n = 0
  <2>1. up = h
    BY <1>4 DEF LLShift
  <2>2. LimbsUp(h.limbs, h.n, h, ls) /\ h.n >= h.n
    BY <1>4 DEF LimbsUp
  <2>3. Number(Normalized(UpLoop(h, h.limbs, ls + 1, h.n, BitShift(k)))) = UpBy(h, k) \cap Window(h.n)
    BY <1>h, <2>2, UpLoopNumber
  <2>4. UpBy(h, k) = {}
    BY <1>4, <1>h, NothingMoves
  <2> QED  BY <1>1, <2>1, <2>3, <2>4
<1> QED  BY <1>2, <1>3, <1>4

LEMMA MutLShiftGBits ==
  ASSUME NEW h, Sound(h), ArithValid(h), NEW k \in Shifts, h.n > 0, BitShift(k) = 0,
         NEW g \in MutLShiftG(h, k)
  PROVE  Number(g) = UpBy(h, k)
<1> DEFINE ls == LimbShift(k)
           n == h.n + ls
           Moved(o) == [LLShift(o, ls) EXCEPT !.n = n]
<1>h. h.n \in Nat /\ Clean(h) /\ ls \in Nat /\ n \in Nat /\ h.n # 0
  BY SoundFields, SoundClean, ShiftIs
<1>1. MutLShiftG(h, k) = {Normalized(UpLoop(Moved(o), Moved(o).limbs, ls + 1, n, 0)) : o \in Grown(h, n)}
  <2>1. h.n + LimbShift(k) + (IF BitShift(k) > 0 THEN 1 ELSE 0) = n
    BY <1>h
  <2> QED  BY <2>1 DEF MutLShiftG
<1>n. n = h.n + ls
  OBVIOUS
<1> HIDE DEF n
<1>2. PICK o \in Grown(h, n) : g = Normalized(UpLoop(Moved(o), Moved(o).limbs, ls + 1, n, 0))
  BY <1>1
<1>3. Sound(o) /\ Cap(o) >= n /\ o.n = h.n /\ ArithValid(o) /\ Clean(o) /\ Number(o) = Number(h)
  BY <1>2, <1>h, GrownSound, GrownNumber
<1>4. Sound(LLShift(o, ls)) /\ LLShift(o, ls).n = n /\ LimbsUp(LLShift(o, ls).limbs, n, o, ls)
  <2>1. o.n + ls = n /\ n <= Cap(o) /\ o.n # 0
    BY <1>3, <1>h, <1>n, SoundFields
  <2> QED  BY <1>3, <1>h, <2>1, LLShiftWhole
<1>5. Moved(o) = LLShift(o, ls)
  <2> DEFINE u == LLShift(o, ls)
  <2> HIDE DEF u
  <2>1. [u EXCEPT !.n = n] = u
    <3>1. Sound(u) /\ u.n = n
      BY <1>4 DEF u
    <3>2. u = [limbs |-> u.limbs, n |-> u.n, sign |-> u.sign]
      BY <3>1, SoundFields
    <3> QED  BY <3>1, <3>2
  <2> QED  BY <2>1 DEF u
<1> HIDE DEF Moved
<1>6. g = Normalized(LLShift(o, ls))
  BY <1>2, <1>4, <1>5, NoBitsMoved
<1>7. Number(LLShift(o, ls)) = UpBy(o, k) \cap Window(n)
  <2> DEFINE u == LLShift(o, ls)
  <2>1. LimbsUp(u.limbs, u.n, o, ls)
    BY <1>4
  <2> HIDE DEF u
  <2>2. Number(u) = UpBy(o, k) \cap Window(u.n)
    BY <1>3, <1>4, <2>1, LimbsUpNumber DEF u
  <2> QED  BY <1>4, <2>2 DEF u
<1>8. UpBy(o, k) = UpBy(h, k)
  BY <1>3 DEF UpBy
<1>9. UpBy(h, k) \subseteq Window(n)
  <2>1. n >= h.n + LimbShift(k) + (IF BitShift(k) > 0 THEN 1 ELSE 0)
    BY <1>h, <1>n
  <2> QED  BY <1>h, <2>1, NothingLost
<1> QED  BY <1>4, <1>6, <1>7, <1>8, <1>9, NormalizedNumber

\* What the copy of a number holds.
LEMMA CopiedLimbs ==
  ASSUME NEW h, Sound(h)
  PROVE  \A i \in 1 .. h.n : CopyOf(h).limbs[i] = LimbOf(h, i)
<1>1. \A i \in 1 .. h.n : i \in 1 .. Larger(h.n, 1)
  BY SoundFields DEF Larger
<1> QED  BY <1>1 DEF CopyOf

LEMMA FunLShiftBits ==
  ASSUME NEW h, Sound(h), NEW k \in Shifts, k < Bits \/ BitShift(k) = 0
  PROVE  Number(FunLShift(h, k)) = UpBy(h, k) \cap Window(h.n)
<1> DEFINE ls == LimbShift(k)
           copy == CopyOf(h)
           up == LLShift(copy, ls)
<1>h. /\ h.n \in Nat /\ Clean(h) /\ ls \in Nat /\ BitShift(k) \in Nat /\ Sound(copy) /\ copy.n = h.n
      /\ Cap(copy) = Larger(h.n, 1)
  BY SoundFields, SoundClean, ShiftIs, CopyOfSound
<1>c. Number(copy) = Number(h) /\ Clean(copy)
  <2>1. Number(copy) = Number(h)
    BY <1>h, CopyBits
  <2> HIDE DEF copy
  <2> QED  BY <1>h, <2>1, SoundClean
<1>1. FunLShift(h, k) = Normalized(UpLoop(up, h.limbs, ls + 1, h.n, BitShift(k)))
  BY DEF FunLShift
<1>2. CASE BitShift(k) = 0
  <2>0. Sound(up)
    BY <1>h, LLShiftSound
  <2>1. UpLoop(up, h.limbs, ls + 1, h.n, BitShift(k)) = up
    <3> HIDE DEF up
    <3> QED  BY <1>2, <2>0, NoBitsMoved
  <2>2. Number(Normalized(up)) = Number(up)
    BY <2>0, NormalizedNumber
  <2>3. Number(up) = UpBy(copy, k) \cap Window(Smaller(copy.n + ls, Cap(copy)))
    BY <1>2, <1>h, LLShiftNumber
  <2>4. UpBy(copy, k) = UpBy(h, k)
    BY <1>c DEF UpBy
  <2>5. CASE h.n = 0
    <3>1. UpBy(h, k) = {}
      BY <1>h, <2>5, NothingMoves
    <3> QED  BY <1>1, <2>1, <2>2, <2>3, <2>4, <3>1
  <2>6. CASE h.n # 0
    <3>1. Smaller(h.n + ls, Larger(h.n, 1)) = h.n
      BY <1>h, <2>6 DEF Smaller, Larger
    <3>2. Smaller(copy.n + ls, Cap(copy)) = h.n
      BY <1>h, <3>1
    <3> QED  BY <1>1, <2>1, <2>2, <2>3, <2>4, <3>2
  <2> QED  BY <2>5, <2>6
<1>3. CASE k < Bits
  <2>1. ls = 0
    BY <1>3, ShiftIs
  <2>2. up = copy
    BY <2>1 DEF LLShift
  <2>3. LimbsUp(copy.limbs, copy.n, h, ls)
    <3>1. \A i \in 1 .. h.n : i > 0 /\ i - 0 = i /\ copy.limbs[i] = LimbOf(h, i)
      BY <1>h, CopiedLimbs
    <3> HIDE DEF copy
    <3> QED  BY <1>h, <2>1, <3>1 DEF LimbsUp
  <2>4. LimbsUp(h.limbs, h.n, h, ls)
    BY <1>h, <2>1 DEF LimbsUp, LimbOf
  <2>5. h.n >= copy.n
    BY <1>h
  <2> HIDE DEF copy, up
  <2>6. Number(Normalized(UpLoop(copy, h.limbs, ls + 1, h.n, BitShift(k)))) = UpBy(h, k) \cap Window(copy.n)
    BY <1>h, <2>3, <2>4, <2>5, UpLoopNumber
  <2> QED  BY <1>1, <1>h, <2>2, <2>6
<1> QED  BY <1>2, <1>3

\* A loop that writes what the right shift is.
LEMMA DownLoopNumber ==
  ASSUME NEW h, Clean(h), NEW k \in Shifts, NEW down, Sound(down), NEW n \in Nat, NEW from, NEW s,
         n <= Cap(down), h.n <= n + LimbShift(k),
         BitShift(k) = 0 => LimbsDown(down.limbs, n, h, LimbShift(k)),
         BitShift(k) > 0 => LimbsDown(from, n, h, LimbShift(k))
  PROVE  Number(Normalized([limbs |-> DownLoop(down, from, n, BitShift(k)).limbs, n |-> n, sign |-> s]))
           = DownBy(h, k)
<1>1. /\ down = [limbs |-> down.limbs, n |-> down.n, sign |-> down.sign]
      /\ 1 .. n \subseteq DOMAIN down.limbs
  BY SoundFields
<1>2. Lowers(DownLoop(down, from, n, BitShift(k)).limbs, n, h, k)
  BY <1>1, DownLoopLowers
<1>3. n >= h.n - LimbShift(k)
  BY ShiftIs DEF Clean
<1> QED  BY <1>2, <1>3, LowersExact

LEMMA FunRShiftBits ==
  ASSUME NEW h, Sound(h), NEW k \in Shifts,
         k < Bits \/ (BitShift(k) = 0 /\ h.n <= 2 * LimbShift(k)), NEW g \in FunRShift(h, k)
  PROVE  Number(g) = DownBy(h, k)
<1> DEFINE ls == LimbShift(k)
           n == h.n - ls
           copy == CopyOf(h)
<1>p. /\ ~(n < 0)
      /\ \E down \in RLShift(copy, ls) :
           g = Normalized([DownLoop(down, h.limbs, n, BitShift(k)) EXCEPT !.n = n, !.sign = h.sign])
  BY Zenon DEF FunRShift
<1>q. PICK down \in RLShift(copy, ls) :
        g = Normalized([DownLoop(down, h.limbs, n, BitShift(k)) EXCEPT !.n = n, !.sign = h.sign])
  BY <1>p
<1> DEFINE q == DownLoop(down, h.limbs, n, BitShift(k))
           s == h.sign
           o == [q EXCEPT !.n = n, !.sign = s]
<1>1. ~(n < 0) /\ g = Normalized(o)
  BY <1>p, <1>q
<1>h. /\ h.n \in Nat /\ Clean(h) /\ ls \in Nat /\ BitShift(k) \in Nat /\ Sound(copy) /\ copy.n = h.n
      /\ h.n <= Cap(copy) /\ Cap(copy) \in Nat
  <2>1. Sound(copy) /\ copy.n = h.n
    BY CopyOfSound
  <2> QED  BY <2>1, SoundFields, SoundClean, ShiftIs
<1>2. Sound(down) /\ Cap(down) = Cap(copy)
  BY <1>h, RLShiftSound
<1>3. n \in Nat /\ n <= Cap(down) /\ h.n <= n + ls /\ n + ls = h.n
  BY <1>1, <1>2, <1>h
<1>4. \A i \in 1 .. h.n : copy.limbs[i] = LimbOf(h, i)
  BY CopiedLimbs
<1>5. ASSUME BitShift(k) > 0 PROVE LimbsDown(h.limbs, n, h, ls)
  <2>1. ls = 0
    BY <1>5, <1>h, ShiftIs
  <2> QED  BY <1>3, <1>h, <2>1 DEF LimbsDown, LimbOf
<1>6. LimbsDown(down.limbs, n, h, ls)
  <2>1. CASE ls = 0
    <3>1. down = copy
      BY <2>1 DEF RLShift
    <3>2. \A i \in 1 .. n : i + 0 = i /\ i \in 1 .. h.n
      BY <1>3, <1>h, <2>1
    <3> HIDE DEF copy, n
    <3> QED  BY <1>4, <2>1, <3>1, <3>2 DEF LimbsDown
  <2>2. CASE n = 0
    <3> HIDE DEF n
    <3> QED  BY <2>2 DEF LimbsDown
  <2>3. CASE ls # 0 /\ n # 0
    <3> DEFINE r == copy.n - ls
    <3>1. ~(ls >= copy.n)
      BY <1>3, <1>h, <2>3
    <3>p. PICK from \in Sources(r, ls) :
            down = Normalized([copy EXCEPT !.n = r,
              !.limbs = [i \in DOMAIN copy.limbs |->
                           IF i <= r THEN copy.limbs[from[i]] ELSE copy.limbs[i]]])
      BY <2>3, <3>1, Zenon DEF RLShift
    <3> DEFINE l == [i \in DOMAIN copy.limbs |->
                       IF i <= r THEN copy.limbs[from[i]] ELSE copy.limbs[i]]
               z == [copy EXCEPT !.limbs = l, !.n = r]
    <3>2. down = Normalized(z)
      BY <3>p
    <3>3. r = n
      BY <1>h
    <3>d. r <= ls /\ r \in Nat
      <4>1. h.n <= 2 * ls
        BY <1>h, <2>3, ShiftIs
      <4> QED  BY <1>3, <1>h, <3>3, <4>1
    <3>s. \A i \in 1 .. r : from[i] = i + ls
      BY <1>h, <3>d DEF Sources
    <3> HIDE DEF copy, r
    <3>4. \A i \in 1 .. n : i \in DOMAIN copy.limbs /\ i <= r /\ i + ls \in 1 .. h.n
      BY <1>3, <1>h, <3>3, SoundFields
    <3>5. \A i \in 1 .. n : l[i] = LimbOf(h, i + ls)
      BY <1>4, <3>3, <3>4, <3>s
    <3> HIDE DEF l
    <3>6. z = [limbs |-> l, n |-> r, sign |-> copy.sign]
      BY <1>h, ExceptLimbs, Zenon
    <3> HIDE DEF z
    <3>7. Normalized(z).limbs = l
      BY <3>6 DEF Normalized
    <3> HIDE DEF n
    <3> QED  BY <3>2, <3>5, <3>7 DEF LimbsDown
  <2> QED  BY <2>1, <2>2, <2>3
<1> HIDE DEF n, copy
<1>7. Number(Normalized([limbs |-> q.limbs, n |-> n, sign |-> s])) = DownBy(h, k)
  BY <1>2, <1>3, <1>5, <1>6, <1>h, DownLoopNumber
<1>8. Sound(q)
  <2>1. BitShift(k) < Bits /\ \A i \in 1 .. n : h.limbs[i] \in Limb
    BY <1>3, <1>h, ShiftIs, SoundFields
  <2> QED  BY <1>2, <1>3, <1>h, <2>1, DownLoopSound
<1> HIDE DEF q, s
<1>9. o = [limbs |-> q.limbs, n |-> n, sign |-> s]
  BY <1>8, ExceptSign, Zenon
<1> HIDE DEF o
<1> QED  BY <1>1, <1>7, <1>9

LEMMA MutRShiftBits ==
  ASSUME NEW h, Sound(h), NEW k \in Shifts, k < Bits, NEW g \in MutRShift(h, k)
  PROVE  Number(g) = DownBy(h, k)
<1> DEFINE q == DownLoop(h, h.limbs, h.n, BitShift(k))
<1>h. /\ h.n \in Nat /\ Clean(h) /\ h.n <= Cap(h) /\ LimbShift(k) = 0 /\ BitShift(k) \in Nat
      /\ h = [limbs |-> h.limbs, n |-> h.n, sign |-> h.sign]
  BY SoundFields, SoundClean, ShiftIs
<1>1. g = Normalized(q)
  <2>1. RLShift(h, 0) = {h}
    BY DEF RLShift
  <2>2. h.n - 0 = h.n
    BY <1>h
  <2>3. [h EXCEPT !.n = h.n] = h
    BY <1>h
  <2>4. PICK down \in RLShift(h, LimbShift(k)) :
          g = Normalized(DownLoop([down EXCEPT !.n = down.n - LimbShift(k)], down.limbs,
                                  down.n - LimbShift(k), BitShift(k)))
    BY Zenon DEF MutRShift
  <2>5. down = h
    BY <1>h, <2>1, <2>4
  <2> QED  BY <1>h, <2>2, <2>3, <2>4, <2>5
<1>2. LimbsDown(h.limbs, h.n, h, LimbShift(k)) /\ h.n <= h.n + LimbShift(k)
  BY <1>h DEF LimbsDown, LimbOf
<1>3. q = [limbs |-> q.limbs, n |-> h.n, sign |-> h.sign]
  BY <1>h, LoopRecord
<1>4. Number(Normalized([limbs |-> q.limbs, n |-> h.n, sign |-> h.sign])) = DownBy(h, k)
  BY <1>2, <1>h, DownLoopNumber
<1> HIDE DEF q
<1> QED  BY <1>1, <1>3, <1>4

LEMMA ShiftedExact ==
  ASSUME IInv
  PROVE  ShiftsExact
<1> SUFFICES ASSUME ArithValid(x), NEW k \in Shifts
    PROVE
    /\ Number(FunLShiftG(x, k)) = Up(k)
    /\ x.n + LimbShift(k) <= Cap(x) \/ BitShift(k) = 0 =>
         Number(MutLShift(x, k)) = Up(k) \cap Window(Smaller(x.n + LimbShift(k), Cap(x)))
    /\ x.n > 0 /\ BitShift(k) = 0 => \A h \in MutLShiftG(x, k) : Number(h) = Up(k)
    /\ k < Bits \/ BitShift(k) = 0 => Number(FunLShift(x, k)) = Up(k) \cap Window(x.n)
    /\ k < Bits \/ (BitShift(k) = 0 /\ x.n <= 2 * LimbShift(k)) =>
         \A h \in FunRShift(x, k) : Number(h) = Down(k)
    /\ k < Bits => \A h \in MutRShift(x, k) : Number(h) = Down(k)
  BY DEF ShiftsExact
<1>1. Sound(x)
  BY DEF IInv
<1>2. Up(k) = UpBy(x, k) /\ Down(k) = DownBy(x, k)
  BY DEF Up, UpBy, Down, DownBy
<1>3. Number(FunLShiftG(x, k)) = Up(k)
  BY <1>1, <1>2, FunLShiftGBits
<1>4. x.n + LimbShift(k) <= Cap(x) \/ BitShift(k) = 0 =>
        Number(MutLShift(x, k)) = Up(k) \cap Window(Smaller(x.n + LimbShift(k), Cap(x)))
  BY <1>1, <1>2, MutLShiftBits
<1>5. x.n > 0 /\ BitShift(k) = 0 => \A h \in MutLShiftG(x, k) : Number(h) = Up(k)
  BY <1>1, <1>2, MutLShiftGBits
<1>6. k < Bits \/ BitShift(k) = 0 => Number(FunLShift(x, k)) = Up(k) \cap Window(x.n)
  BY <1>1, <1>2, FunLShiftBits
<1>7. k < Bits \/ (BitShift(k) = 0 /\ x.n <= 2 * LimbShift(k)) =>
        \A h \in FunRShift(x, k) : Number(h) = Down(k)
  BY <1>1, <1>2, FunRShiftBits
<1>8. k < Bits => \A h \in MutRShift(x, k) : Number(h) = Down(k)
  BY <1>1, <1>2, MutRShiftBits
<1> QED  BY <1>3, <1>4, <1>5, <1>6, <1>7, <1>8

\* Whatever the limbs above the number hold: that is where the invariant comes in, it only says
\* that they are limbs of an array, and the calls are exact for all of them.
THEOREM BitsExact == Spec => []BitwiseExact
<1>1. IInv => BitwiseExact
  BY BinaryExact, ShiftedExact DEF BitwiseExact
<1> QED  BY <1>1, SoundInvariant, PTL
=============================================================================
