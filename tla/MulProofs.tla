----------------------------- MODULE MulProofs -----------------------------
(***************************************************************************)
(* Proofs about the multiplication.  First MulFrames, for operands of      *)
(* every length, every threshold and every arena: the product of each call *)
(* has room for its operands, the offset is restored on every return, and  *)
(* a multiplication that starts with the workspace of its algorithm never  *)
(* overflows the arena; the workspace that MAGMUL provides is always       *)
(* enough.  Then MulAlgebra, for all parts and all weights: one frame of   *)
(* Karatsuba or Toom-3 returns the product of its operands, its divisions  *)
(* are exact and the kernels that ignore signs get magnitudes.             *)
(***************************************************************************)
EXTENDS MulFrames, MulAlgebra, SequenceTheorems, WellFoundedInduction, TLAPS

-----------------------------------------------------------------------------
(* What the split of the operands guarantees. *)

\* The two halves of an operand and their sum, when the call is not a base case.
LEMMA HalfBounds ==
  ASSUME NEW a \in Lens, NEW b \in Lens, ~IsBase(a, b), NEW x \in {a, b}
  PROVE  LET y == Half(a, b) IN
         /\ Low(x, y) \in Lens /\ High(x, y) \in Lens /\ HalfSum(x, y) \in Lens
         /\ Low(x, y) <= x /\ High(x, y) <= x
BY MulAssumption DEF Half, Low, High, HalfSum, Larger, Smaller, Above, Lens, IsBase

\* The thirds of an operand and the evaluation points.
LEMMA ThirdBounds ==
  ASSUME NEW a \in Lens, NEW b \in Lens, ~IsBase(a, b), NEW x \in {a, b}
  PROVE  LET k == Third(a, b) IN
         /\ k \in Lens /\ k + 1 \in Lens /\ k + 2 \in Lens
         /\ Smaller(k, x) \in Lens /\ Smaller(k, x) <= k
         /\ Top(x, k) \in Lens
BY MulAssumption DEF Third, Top, Larger, Smaller, Above, Lens, IsBase

\* A computed temporary is no longer than its significant limbs.
LEMMA TrimmedBounds ==
  ASSUME NEW x \in Lens, NEW l \in Trimmed(x)
  PROVE  l \in Lens /\ l <= x
BY MulAssumption DEF Trimmed, Lens

-----------------------------------------------------------------------------
(* What a frame asks of the arena, and what its recursive calls need. *)

LEMMA LensNat == \A x \in Lens : x \in Nat
BY MulAssumption DEF Lens

LEMMA WSType == \A p, q \in Lens : KWS[p, q] \in Nat /\ TWS[p, q] \in Nat
BY WorkspaceAssumption

\* The order of the natural numbers, as a relation.
Less == {p \in Nat \X Nat : p[1] < p[2]}

\* A set of natural numbers has a least element: how facts about the estimates,
\* which are defined by recursion on the lengths, are proved for all lengths.
LEMMA LeastElement ==
  ASSUME NEW S, S \subseteq Nat, S # {}
  PROVE  \E y \in S : \A k \in S : y <= k
<1>1. IsWellFoundedOn(Less, Nat)
  BY NatLessThanWellFounded DEF OpToRel, Less
<1>2. \E y \in S : \A k \in S : ~ (<<k, y>> \in Less)
  BY <1>1, WFMin
<1>3. \A k, y \in Nat : <<k, y>> \in Less <=> k < y
  BY DEF Less
<1>4. PICK y \in S : \A k \in S : ~ (<<k, y>> \in Less)
  BY <1>2
<1>5. \A k \in S : ~ (k < y) /\ k \in Nat /\ y \in Nat
  BY <1>3, <1>4
<1> QED  BY <1>5

\* Longer operands have longer sums of halves and, all in all, longer temporaries,
\* although the high half of one of them may get shorter.
LEMMA HalvesMonotone ==
  ASSUME NEW a \in Nat, NEW b \in Nat, NEW c \in Nat, NEW d \in Nat, a <= c, b <= d
  PROVE  LET y == Half(a, b)
             k == Half(c, d)
         IN  /\ HalfSum(a, y) <= HalfSum(c, k) /\ HalfSum(b, y) <= HalfSum(d, k)
             /\ a + b + (High(a, y) + High(b, y)) <= c + d + (High(c, k) + High(d, k))
<1> DEFINE n1 == Larger(a, b)
           n2 == Larger(c, d)
           y  == Half(a, b)
           k  == Half(c, d)
<1>1. n1 \in Nat /\ n2 \in Nat /\ y = n1 \div 2 /\ k = n2 \div 2
  BY DEF Larger, Half
<1>2. /\ y \in Nat /\ k \in Nat
      /\ 2 * y <= n1 /\ n1 <= 2 * y + 1 /\ 2 * k <= n2 /\ n2 <= 2 * k + 1
  BY <1>1
<1>3. /\ a <= n1 /\ b <= n1 /\ c <= n2 /\ d <= n2 /\ (n1 = a \/ n1 = b) /\ (n2 = c \/ n2 = d)
  BY DEF Larger
<1> HIDE DEF n1, n2, y, k
<1>4. y <= k
  BY <1>1, <1>2, <1>3
<1>5. HalfSum(a, y) <= HalfSum(c, k)
  BY <1>1, <1>2, <1>3, <1>4 DEF HalfSum, Low, High, Larger, Smaller, Above
<1>6. HalfSum(b, y) <= HalfSum(d, k)
  BY <1>1, <1>2, <1>3, <1>4 DEF HalfSum, Low, High, Larger, Smaller, Above
<1>7. a + b + (High(a, y) + High(b, y)) <= c + d + (High(c, k) + High(d, k))
  BY <1>1, <1>2, <1>3, <1>4 DEF High, Above
<1> QED  BY <1>5, <1>6, <1>7 DEF y, k

\* The same for the thirds: the top third may get shorter, the others make up for it.
LEMMA ThirdsMonotone ==
  ASSUME NEW a \in Nat, NEW b \in Nat, NEW c \in Nat, NEW d \in Nat, a <= c, b <= d
  PROVE  LET k == Third(a, b)
             l == Third(c, d)
         IN  /\ k \in Nat /\ l \in Nat /\ k <= l
             /\ 4 * k + (Top(a, k) + Top(b, k)) <= 4 * l + (Top(c, l) + Top(d, l))
<1> DEFINE k == Third(a, b)
           l == Third(c, d)
<1>1. k \in Nat /\ l \in Nat /\ k <= l
  BY DEF Third, Larger
<1> HIDE DEF k, l
<1>2. 4 * k + (Top(a, k) + Top(b, k)) <= 4 * l + (Top(c, l) + Top(d, l))
  BY <1>1 DEF Top, Above
<1> QED  BY <1>1, <1>2 DEF k, l

\* A least counterexample to the monotonicity of Karatsuba's estimate would be one
\* of two recursive cases, whose estimates depend on those of shorter operands.
LEMMA KWSMonotone ==
  \A a, b, c, d \in Lens : a <= c /\ b <= d => KWS[a, b] <= KWS[c, d]
<1> DEFINE Bad == {x \in Nat : \E a, b, c, d \in Lens :
                     a <= c /\ b <= d /\ Larger(c, d) = x /\ ~ (KWS[a, b] <= KWS[c, d])}
<1>1. SUFFICES ASSUME Bad # {} PROVE FALSE
  <2> SUFFICES ASSUME NEW a \in Lens, NEW b \in Lens, NEW c \in Lens, NEW d \in Lens,
                      a <= c, b <= d, ~ (KWS[a, b] <= KWS[c, d])
               PROVE  Bad # {}
    BY Zenon
  <2>1. Larger(c, d) \in Nat
    BY LensNat DEF Larger
  <2> QED  BY <2>1, Zenon
<1>2. PICK x \in Bad : \A k \in Bad : x <= k
  BY <1>1, LeastElement
<1>3. PICK a \in Lens, b \in Lens, c \in Lens, d \in Lens :
        a <= c /\ b <= d /\ Larger(c, d) = x /\ ~ (KWS[a, b] <= KWS[c, d])
  OBVIOUS
<1>4. x \in Nat /\ a \in Nat /\ b \in Nat /\ c \in Nat /\ d \in Nat
  BY LensNat
<1>5. ASSUME NEW p \in Lens, NEW q \in Lens, NEW r \in Lens, NEW s \in Lens,
             p <= r, q <= s, r < x, s < x
      PROVE  KWS[p, q] <= KWS[r, s]
  <2>0. r \in Nat /\ s \in Nat /\ r < x /\ s < x
    BY <1>5, LensNat
  <2>1. Larger(r, s) \in Nat /\ ~ (x <= Larger(r, s))
    <3>1. x \in Nat
      BY <1>4
    <3> HIDE DEF Bad
    <3> QED  BY <2>0, <3>1 DEF Larger
  <2>2. Larger(r, s) \notin Bad
    BY <1>2, <2>1
  <2> QED  BY <1>5, <2>1, <2>2
<1> HIDE DEF Bad
<1>6. ~IsBase(a, b)
  <2>1. IsBase(a, b) => KWS[a, b] = 0
    BY WorkspaceAssumption DEF KaratsubaWS
  <2> DEFINE W == KWS[a, b]
             V == KWS[c, d]
  <2>2. V \in Nat /\ ~ (W <= V)
    BY <1>3, WSType
  <2>3. W # 0
    <3> HIDE DEF W, V
    <3> QED  BY <2>2
  <2> QED  BY <2>1, <2>3
<1>7. ~IsBase(c, d) /\ (4 < c \/ 4 < d)
  <2>1. a <= c /\ b <= d
    BY <1>3
  <2>2. SCHOOLBOOK \in Nat /\ 4 <= SCHOOLBOOK
    BY MulAssumption
  <2> QED  BY <1>4, <1>6, <2>1, <2>2 DEF IsBase
<1> DEFINE y  == Half(a, b)
           k  == Half(c, d)
           t1 == HalfSum(a, y)
           t2 == HalfSum(b, y)
           u1 == HalfSum(c, k)
           u2 == HalfSum(d, k)
           ah == High(a, y)
           bh == High(b, y)
           ch == High(c, k)
           dh == High(d, k)
<1>8. /\ t1 <= u1 /\ t2 <= u2 /\ a + b + (ah + bh) <= c + d + (ch + dh)
  BY <1>3, <1>4, HalvesMonotone
<1>9. /\ Low(a, y) \in Lens /\ ah \in Lens /\ t1 \in Lens /\ Low(b, y) \in Lens /\ bh \in Lens /\ t2 \in Lens
      /\ Low(c, k) \in Lens /\ ch \in Lens /\ u1 \in Lens /\ Low(d, k) \in Lens /\ dh \in Lens /\ u2 \in Lens
  BY <1>6, <1>7, HalfBounds
<1>10. /\ u1 < x /\ u2 < x
       /\ Low(a, y) <= t1 /\ Low(b, y) <= t2 /\ ah <= t1 /\ bh <= t2
  <2>1. x = Larger(c, d) /\ k = x \div 2 /\ c <= x /\ d <= x /\ 4 < x
    <3>1. Larger(c, d) = x
      BY <1>3
    <3> QED  BY <1>4, <1>7, <3>1 DEF Half, Larger
  <2>2. u1 < x /\ u2 < x
    <3> HIDE DEF k
    <3> QED  BY <1>4, <2>1 DEF HalfSum, Low, High, Smaller, Above, Larger
  <2>3. /\ Low(a, y) \in Nat /\ Low(b, y) \in Nat /\ ah \in Nat /\ bh \in Nat
    BY <1>9, LensNat
  <2>4. Low(a, y) <= t1 /\ Low(b, y) <= t2 /\ ah <= t1 /\ bh <= t2
    <3> HIDE DEF y
    <3> QED  BY <2>3 DEF HalfSum, Larger
  <2> QED  BY <2>2, <2>4
<1> DEFINE W0 == KWS[Low(a, y), Low(b, y)]
           W2 == KWS[ah, bh]
           W1 == KWS[t1, t2]
           V0 == KWS[Low(c, k), Low(d, k)]
           V2 == KWS[ch, dh]
           V1 == KWS[u1, u2]
<1>11. /\ KWS[a, b] = t1 + t2 + (a + b) + (t1 + t2) + (ah + bh) + Larger(Larger(W0, W2), W1)
       /\ KWS[c, d] = u1 + u2 + (c + d) + (u1 + u2) + (ch + dh) + Larger(Larger(V0, V2), V1)
  BY <1>6, <1>7, WorkspaceAssumption DEF KaratsubaWS
<1>12. W0 <= V1 /\ W2 <= V1 /\ W1 <= V1
  <2>1. \A p, q \in Lens : p <= t1 /\ q <= t2 => p <= u1 /\ q <= u2
    <3>1. /\ t1 \in Nat /\ t2 \in Nat /\ u1 \in Nat /\ u2 \in Nat
      BY <1>9, LensNat
    <3> HIDE DEF t1, t2, u1, u2
    <3> QED  BY <1>8, <3>1, LensNat
  <2>2. \A p, q \in Lens : p <= t1 /\ q <= t2 => KWS[p, q] <= V1
    BY <1>5, <1>9, <1>10, <2>1
  <2>3. t1 <= t1 /\ t2 <= t2
    BY <1>9, LensNat
  <2> QED  BY <1>9, <1>10, <2>2, <2>3
<1>13. /\ W0 \in Nat /\ W1 \in Nat /\ W2 \in Nat /\ V0 \in Nat /\ V1 \in Nat /\ V2 \in Nat
       /\ t1 \in Nat /\ t2 \in Nat /\ u1 \in Nat /\ u2 \in Nat
       /\ ah \in Nat /\ bh \in Nat /\ ch \in Nat /\ dh \in Nat
  BY <1>9, WSType, LensNat
<1>14. KWS[a, b] <= KWS[c, d]
  <2> HIDE DEF y, k, t1, t2, u1, u2, ah, bh, ch, dh, W0, W1, W2, V0, V1, V2
  <2>1. Larger(Larger(W0, W2), W1) <= Larger(Larger(V0, V2), V1)
    BY <1>12, <1>13 DEF Larger
  <2>2. Larger(Larger(W0, W2), W1) \in Nat /\ Larger(Larger(V0, V2), V1) \in Nat
    BY <1>13 DEF Larger
  <2> DEFINE W == KWS[a, b]
             V == KWS[c, d]
             w == Larger(Larger(W0, W2), W1)
             v == Larger(Larger(V0, V2), V1)
  <2>3. /\ W = t1 + t2 + (a + b) + (t1 + t2) + (ah + bh) + w
        /\ V = u1 + u2 + (c + d) + (u1 + u2) + (ch + dh) + v
    BY <1>11
  <2>4. w <= v /\ w \in Nat /\ v \in Nat
    BY <2>1, <2>2
  <2>5. W <= V
    <3> HIDE DEF W, V, w, v
    <3> QED  BY <1>4, <1>8, <1>13, <2>3, <2>4
  <2> QED  BY <2>5
<1> QED  BY <1>3, <1>14

\* The same for Toom-3.
LEMMA TWSMonotone ==
  \A a, b, c, d \in Lens : a <= c /\ b <= d => TWS[a, b] <= TWS[c, d]
<1> DEFINE Bad == {x \in Nat : \E a, b, c, d \in Lens :
                     a <= c /\ b <= d /\ Larger(c, d) = x /\ ~ (TWS[a, b] <= TWS[c, d])}
<1>1. SUFFICES ASSUME Bad # {} PROVE FALSE
  <2> SUFFICES ASSUME NEW a \in Lens, NEW b \in Lens, NEW c \in Lens, NEW d \in Lens,
                      a <= c, b <= d, ~ (TWS[a, b] <= TWS[c, d])
               PROVE  Bad # {}
    BY Zenon
  <2>1. Larger(c, d) \in Nat
    BY LensNat DEF Larger
  <2> QED  BY <2>1, Zenon
<1>2. PICK x \in Bad : \A k \in Bad : x <= k
  BY <1>1, LeastElement
<1>3. PICK a \in Lens, b \in Lens, c \in Lens, d \in Lens :
        a <= c /\ b <= d /\ Larger(c, d) = x /\ ~ (TWS[a, b] <= TWS[c, d])
  OBVIOUS
<1>4. x \in Nat /\ a \in Nat /\ b \in Nat /\ c \in Nat /\ d \in Nat
  BY LensNat
<1>5. ASSUME NEW p \in Lens, NEW q \in Lens, NEW r \in Lens, NEW s \in Lens,
             p <= r, q <= s, r < x, s < x
      PROVE  TWS[p, q] <= TWS[r, s]
  <2>0. r \in Nat /\ s \in Nat /\ r < x /\ s < x
    BY <1>5, LensNat
  <2>1. Larger(r, s) \in Nat /\ ~ (x <= Larger(r, s))
    <3>1. x \in Nat
      BY <1>4
    <3> HIDE DEF Bad
    <3> QED  BY <2>0, <3>1 DEF Larger
  <2>2. Larger(r, s) \notin Bad
    BY <1>2, <2>1
  <2> QED  BY <1>5, <2>1, <2>2
<1> HIDE DEF Bad
<1>6. ~IsBase(a, b)
  <2>1. IsBase(a, b) => TWS[a, b] = 0
    BY WorkspaceAssumption DEF Toom3WS
  <2> DEFINE W == TWS[a, b]
             V == TWS[c, d]
  <2>2. V \in Nat /\ ~ (W <= V)
    BY <1>3, WSType
  <2>3. W # 0
    <3> HIDE DEF W, V
    <3> QED  BY <2>2
  <2> QED  BY <2>1, <2>3
<1>7. ~IsBase(c, d) /\ (4 < c \/ 4 < d)
  <2>1. a <= c /\ b <= d
    BY <1>3
  <2>2. SCHOOLBOOK \in Nat /\ 4 <= SCHOOLBOOK
    BY MulAssumption
  <2> QED  BY <1>4, <1>6, <2>1, <2>2 DEF IsBase
<1> DEFINE k  == Third(a, b)
           l  == Third(c, d)
           ah == Top(a, k)
           bh == Top(b, k)
           ch == Top(c, l)
           dh == Top(d, l)
           W1 == TWS[k + 2, k + 2]
           W2 == TWS[ah, bh]
           V1 == TWS[l + 2, l + 2]
           V2 == TWS[ch, dh]
<1>8. /\ k \in Nat /\ l \in Nat /\ k <= l /\ 4 * k + (ah + bh) <= 4 * l + (ch + dh)
  BY <1>3, <1>4, ThirdsMonotone
<1>9. /\ k + 2 \in Lens /\ ah \in Lens /\ bh \in Lens
      /\ l + 2 \in Lens /\ ch \in Lens /\ dh \in Lens
  BY <1>6, <1>7, ThirdBounds
<1>10. l + 2 < x /\ ah <= k + 2 /\ bh <= k + 2
  <2>1. x = Larger(c, d) /\ 4 < x /\ l = (x + 2) \div 3
    <3>1. Larger(c, d) = x
      BY <1>3
    <3> QED  BY <1>4, <1>7, <3>1 DEF Third, Larger
  <2>2. l + 2 < x
    BY <1>4, <2>1
  <2>3. ah <= k + 2 /\ bh <= k + 2
    BY <1>4 DEF Third, Top, Larger, Above
  <2> QED  BY <2>2, <2>3
<1>11. /\ TWS[a, b] = (4*k + 6) + ((2*k + 3) + (k + 1)) + (8*k + (ah + bh) + 23)
                      + (a + b) + Larger(W1, W2)
       /\ TWS[c, d] = (4*l + 6) + ((2*l + 3) + (l + 1)) + (8*l + (ch + dh) + 23)
                      + (c + d) + Larger(V1, V2)
  BY <1>6, <1>7, WorkspaceAssumption DEF Toom3WS
<1>12. W1 <= V1 /\ W2 <= V1
  <2>1. k + 2 <= l + 2 /\ ah <= l + 2 /\ bh <= l + 2
    <3>1. ah \in Nat /\ bh \in Nat
      BY <1>9, LensNat
    <3> HIDE DEF k, l, ah, bh
    <3> QED  BY <1>8, <1>10, <3>1
  <2> QED  BY <1>5, <1>9, <1>10, <2>1
<1>13. /\ W1 \in Nat /\ W2 \in Nat /\ V1 \in Nat /\ V2 \in Nat
       /\ ah \in Nat /\ bh \in Nat /\ ch \in Nat /\ dh \in Nat
  BY <1>9, WSType, LensNat
<1>14. TWS[a, b] <= TWS[c, d]
  <2> HIDE DEF k, l, ah, bh, ch, dh, W1, W2, V1, V2
  <2>1. /\ Larger(W1, W2) <= Larger(V1, V2)
        /\ Larger(W1, W2) \in Nat /\ Larger(V1, V2) \in Nat
    BY <1>12, <1>13 DEF Larger
  <2>2. a <= c /\ b <= d
    BY <1>3
  <2> DEFINE W == TWS[a, b]
             V == TWS[c, d]
             w == Larger(W1, W2)
             v == Larger(V1, V2)
  <2>3. /\ W = (4*k + 6) + ((2*k + 3) + (k + 1)) + (8*k + (ah + bh) + 23) + (a + b) + w
        /\ V = (4*l + 6) + ((2*l + 3) + (l + 1)) + (8*l + (ch + dh) + 23) + (c + d) + v
    BY <1>11
  <2>4. w <= v /\ w \in Nat /\ v \in Nat
    BY <2>1
  <2>5. W <= V
    <3> HIDE DEF W, V, w, v
    <3> QED  BY <1>4, <1>8, <1>13, <2>2, <2>3, <2>4
  <2> QED  BY <2>5
<1> QED  BY <1>3, <1>14

\* What two halvings of the operands cost is below what one division into thirds
\* costs, and their sums of halves are no longer than Toom-3's evaluation points.
LEMMA TwoHalvings ==
  ASSUME NEW a \in Nat, NEW b \in Nat, 4 < a, 4 < b
  PROVE  LET y  == Half(a, b)
             t1 == HalfSum(a, y)
             t2 == HalfSum(b, y)
             h  == Half(t1, t2)
             u1 == HalfSum(t1, h)
             u2 == HalfSum(t2, h)
             k  == Third(a, b)
         IN  /\ u1 <= k + 2 /\ u2 <= k + 2
             /\ 2 * (t1 + t2) + (High(a, y) + High(b, y))
                + 2 * (u1 + u2) + (t1 + t2) + (High(t1, h) + High(t2, h))
                <= 15 * k + 33 + (Top(a, k) + Top(b, k))
             /\ 2 * (t1 + t2) + (High(a, y) + High(b, y))
                <= 15 * k + 33 + (Top(a, k) + Top(b, k))
<1> DEFINE x  == Larger(a, b)
           y  == Half(a, b)
           t1 == HalfSum(a, y)
           t2 == HalfSum(b, y)
           l  == Larger(t1, t2)
           h  == Half(t1, t2)
           u1 == HalfSum(t1, h)
           u2 == HalfSum(t2, h)
           k  == Third(a, b)
           ah == High(a, y)
           bh == High(b, y)
           th == High(t1, h)
           sh == High(t2, h)
           ak == Top(a, k)
           bk == Top(b, k)
<1>1. /\ x \in Nat /\ a <= x /\ b <= x /\ (x = a \/ x = b)
      /\ y = x \div 2 /\ k = (x + 2) \div 3
  BY DEF Larger, Half, Third
<1> HIDE DEF x
<1>2. /\ y \in Nat /\ 2 * y <= x /\ x <= 2 * y + 1
      /\ k \in Nat /\ 3 * k <= x + 2 /\ x <= 3 * k
  BY <1>1
<1> HIDE DEF y, k
<1>3. /\ ah = IF a > y THEN a - y ELSE 0
      /\ bh = IF b > y THEN b - y ELSE 0
      /\ t1 = (IF a > y THEN (IF a - y > y THEN a - y ELSE y) ELSE a) + 1
      /\ t2 = (IF b > y THEN (IF b - y > y THEN b - y ELSE y) ELSE b) + 1
  BY <1>1, <1>2 DEF HalfSum, Low, High, Larger, Smaller, Above
<1>4. /\ ak = IF a > 2 * k THEN a - 2 * k ELSE 0
      /\ bk = IF b > 2 * k THEN b - 2 * k ELSE 0
  BY <1>2 DEF Top, Above
<1> HIDE DEF ah, bh, t1, t2, ak, bk
<1>5. /\ t1 \in Nat /\ t2 \in Nat /\ ah \in Nat /\ bh \in Nat /\ ak \in Nat /\ bk \in Nat
  BY <1>1, <1>2, <1>3, <1>4
<1>6. /\ l \in Nat /\ t1 <= l /\ t2 <= l /\ (l = t1 \/ l = t2) /\ h = l \div 2
  BY <1>5 DEF Larger, Half
<1> HIDE DEF l
<1>7. h \in Nat /\ 2 * h <= l /\ l <= 2 * h + 1
  BY <1>6
<1> HIDE DEF h
<1>8. /\ th = IF t1 > h THEN t1 - h ELSE 0
      /\ sh = IF t2 > h THEN t2 - h ELSE 0
      /\ u1 = (IF t1 > h THEN (IF t1 - h > h THEN t1 - h ELSE h) ELSE t1) + 1
      /\ u2 = (IF t2 > h THEN (IF t2 - h > h THEN t2 - h ELSE h) ELSE t2) + 1
  BY <1>5, <1>6, <1>7 DEF HalfSum, Low, High, Larger, Smaller, Above
<1> HIDE DEF th, sh, u1, u2
<1>9. u1 \in Nat /\ u2 \in Nat /\ th \in Nat /\ sh \in Nat
  BY <1>5, <1>7, <1>8
<1>10. u1 <= k + 2 /\ u2 <= k + 2
  BY <1>1, <1>2, <1>3, <1>5, <1>6, <1>7, <1>8, <1>9
<1>11. /\ 2 * (t1 + t2) + (ah + bh) + 2 * (u1 + u2) + (t1 + t2) + (th + sh)
          <= 15 * k + 33 + (ak + bk)
  BY <1>1, <1>2, <1>3, <1>4, <1>5, <1>6, <1>7, <1>8, <1>9, SMTT(60)
<1>12. 2 * (t1 + t2) + (ah + bh) <= 15 * k + 33 + (ak + bk)
  BY <1>5, <1>9, <1>11, <1>2
<1> QED  BY <1>10, <1>11, <1>12 DEF y, t1, t2, h, u1, u2, k, ah, bh, th, sh, ak, bk

\* Karatsuba's estimate spelt out: of its recursive products the middle one,
\* of the sums of the halves, asks for the most.
LEMMA KWSUnfold ==
  ASSUME NEW a \in Lens, NEW b \in Lens, ~IsBase(a, b)
  PROVE  LET y  == Half(a, b)
             t1 == HalfSum(a, y)
             t2 == HalfSum(b, y)
         IN  /\ t1 \in Lens /\ t2 \in Lens
             /\ KWS[a, b] = 2 * (t1 + t2) + (a + b) + (High(a, y) + High(b, y)) + KWS[t1, t2]
<1> DEFINE y  == Half(a, b)
           t1 == HalfSum(a, y)
           t2 == HalfSum(b, y)
           al == Low(a, y)
           bl == Low(b, y)
           ah == High(a, y)
           bh == High(b, y)
           W0 == KWS[al, bl]
           W2 == KWS[ah, bh]
           W1 == KWS[t1, t2]
           W  == KWS[a, b]
<1>1. /\ al \in Lens /\ bl \in Lens /\ ah \in Lens /\ bh \in Lens /\ t1 \in Lens /\ t2 \in Lens
  BY HalfBounds
<1>2. W = t1 + t2 + (a + b) + (t1 + t2) + (ah + bh) + Larger(Larger(W0, W2), W1)
  BY WorkspaceAssumption DEF KaratsubaWS
<1>3. /\ al \in Nat /\ bl \in Nat /\ ah \in Nat /\ bh \in Nat /\ t1 \in Nat /\ t2 \in Nat
      /\ a \in Nat /\ b \in Nat
  BY <1>1, LensNat
<1>4. W0 \in Nat /\ W2 \in Nat /\ W1 \in Nat /\ W \in Nat
  BY <1>1, WSType
<1>5. al <= t1 /\ ah <= t1 /\ bl <= t2 /\ bh <= t2
  <2> HIDE DEF y
  <2> QED  BY <1>3 DEF HalfSum, Larger
<1>6. W0 <= W1 /\ W2 <= W1
  BY <1>1, <1>5, KWSMonotone
<1>7. Larger(Larger(W0, W2), W1) = W1
  <2> HIDE DEF W0, W1, W2, W
  <2> QED  BY <1>4, <1>6 DEF Larger
<1>8. W = 2 * (t1 + t2) + (a + b) + (ah + bh) + W1
  <2>1. W = t1 + t2 + (a + b) + (t1 + t2) + (ah + bh) + W1
    BY <1>2, <1>7
  <2> HIDE DEF y, t1, t2, al, bl, ah, bh, W, W0, W1, W2
  <2> QED  BY <2>1, <1>3, <1>4
<1> QED  BY <1>1, <1>8

\* Toom-3's estimate spelt out: its evaluation points ask for more than its top third.
LEMMA TWSUnfold ==
  ASSUME NEW a \in Lens, NEW b \in Lens, ~IsBase(a, b)
  PROVE  LET k == Third(a, b)
         IN  /\ k + 2 \in Lens /\ k + 2 < Larger(a, b)
             /\ TWS[a, b] >= 15 * k + 33 + (Top(a, k) + Top(b, k)) + (a + b) + TWS[k + 2, k + 2]
<1> DEFINE k  == Third(a, b)
           ah == Top(a, k)
           bh == Top(b, k)
           W1 == TWS[k + 2, k + 2]
           W2 == TWS[ah, bh]
           W  == TWS[a, b]
<1>1. k \in Lens /\ k + 2 \in Lens /\ ah \in Lens /\ bh \in Lens
  BY ThirdBounds
<1>2. W = (4*k + 6) + ((2*k + 3) + (k + 1)) + (8*k + (ah + bh) + 23) + (a + b) + Larger(W1, W2)
  BY WorkspaceAssumption DEF Toom3WS
<1>3. /\ k \in Nat /\ ah \in Nat /\ bh \in Nat /\ a \in Nat /\ b \in Nat
      /\ W \in Nat /\ W1 \in Nat /\ W2 \in Nat
  BY <1>1, LensNat, WSType
<1>4. k + 2 < Larger(a, b)
  <2>1. a \in Nat /\ b \in Nat
    BY <1>3
  <2>2. 4 < a /\ 4 < b
    BY <2>1, MulAssumption DEF IsBase
  <2> QED  BY <2>1, <2>2 DEF Third, Larger
<1>5. W >= 15 * k + 33 + (ah + bh) + (a + b) + W1
  <2> HIDE DEF k, ah, bh, W, W1, W2
  <2> QED  BY <1>2, <1>3 DEF Larger
<1> QED  BY <1>1, <1>4, <1>5

\* Toom-3's estimate is never below Karatsuba's.  A least counterexample would be
\* recursive; two levels of Karatsuba reduce it to the evaluation points of Toom-3.
LEMMA KWSBelowTWS == \A a, b \in Lens : KWS[a, b] <= TWS[a, b]
<1> DEFINE Bad == {x \in Nat : \E a, b \in Lens : Larger(a, b) = x /\ ~ (KWS[a, b] <= TWS[a, b])}
<1>1. SUFFICES ASSUME Bad # {} PROVE FALSE
  <2> SUFFICES ASSUME NEW a \in Lens, NEW b \in Lens, ~ (KWS[a, b] <= TWS[a, b])
               PROVE  Bad # {}
    BY Zenon
  <2>1. Larger(a, b) \in Nat
    BY LensNat DEF Larger
  <2> QED  BY <2>1, Zenon
<1>2. PICK x \in Bad : \A k \in Bad : x <= k
  BY <1>1, LeastElement
<1>3. PICK a \in Lens, b \in Lens : Larger(a, b) = x /\ ~ (KWS[a, b] <= TWS[a, b])
  OBVIOUS
<1>4. x \in Nat /\ a \in Nat /\ b \in Nat
  BY LensNat
<1>5. ASSUME NEW p \in Lens, p < x PROVE KWS[p, p] <= TWS[p, p]
  <2>1. p \in Nat /\ x \in Nat
    BY <1>4, LensNat
  <2> HIDE DEF Bad
  <2>2. Larger(p, p) = p /\ ~ (x <= p)
    BY <1>5, <2>1 DEF Larger
  <2>3. p \notin Bad
    BY <1>2, <2>2
  <2> QED  BY <2>1, <2>2, <2>3 DEF Bad
<1> HIDE DEF Bad
<1>6. ~IsBase(a, b)
  <2> DEFINE W == KWS[a, b]
             V == TWS[a, b]
  <2>1. IsBase(a, b) => W = 0 /\ V = 0
    BY WorkspaceAssumption DEF KaratsubaWS, Toom3WS
  <2>2. ~ (W <= V)
    BY <1>3
  <2>3. ~ (W = 0 /\ V = 0)
    <3> HIDE DEF W, V
    <3> QED  BY <2>2
  <2> QED  BY <2>1, <2>3
<1> DEFINE y  == Half(a, b)
           t1 == HalfSum(a, y)
           t2 == HalfSum(b, y)
           h  == Half(t1, t2)
           u1 == HalfSum(t1, h)
           u2 == HalfSum(t2, h)
           k  == Third(a, b)
           H  == High(a, y) + High(b, y)
           G  == High(t1, h) + High(t2, h)
           T  == Top(a, k) + Top(b, k)
           W0 == KWS[a, b]
           W1 == KWS[t1, t2]
           W2 == KWS[u1, u2]
           W3 == KWS[k + 2, k + 2]
           V0 == TWS[a, b]
           V1 == TWS[k + 2, k + 2]
<1>7. /\ t1 \in Lens /\ t2 \in Lens
      /\ W0 = 2 * (t1 + t2) + (a + b) + H + W1
  BY <1>6, KWSUnfold
<1>8. /\ k + 2 \in Lens /\ k + 2 < x
      /\ V0 >= 15 * k + 33 + T + (a + b) + V1
  BY <1>3, <1>6, TWSUnfold
<1>9. /\ u1 <= k + 2 /\ u2 <= k + 2
      /\ 2 * (t1 + t2) + H + 2 * (u1 + u2) + (t1 + t2) + G <= 15 * k + 33 + T
      /\ 2 * (t1 + t2) + H <= 15 * k + 33 + T
  <2>1. 4 < a /\ 4 < b
    BY <1>4, <1>6, MulAssumption DEF IsBase
  <2> QED  BY <1>4, <2>1, TwoHalvings
<1>10. W0 \in Nat /\ W1 \in Nat /\ W3 \in Nat /\ V0 \in Nat /\ V1 \in Nat
  BY <1>7, <1>8, WSType
<1>11. /\ t1 \in Nat /\ t2 \in Nat /\ k \in Nat /\ H \in Nat /\ T \in Nat /\ W3 <= V1
  <2>1. t1 \in Nat /\ t2 \in Nat
    BY <1>7, LensNat
  <2>2. k \in Nat
    BY <1>4 DEF Third, Larger
  <2>3. y \in Nat
    BY <1>4 DEF Half, Larger
  <2>4. H \in Nat /\ T \in Nat
    <3> HIDE DEF y, k
    <3> QED  BY <1>4, <2>2, <2>3 DEF High, Top, Above
  <2>5. W3 <= V1
    BY <1>5, <1>8
  <2> QED  BY <2>1, <2>2, <2>4, <2>5
<1>12. CASE IsBase(t1, t2)
  <2>1. W1 = 0
    BY <1>7, <1>12, WorkspaceAssumption DEF KaratsubaWS
  <2>2. W0 <= V0
    <3> HIDE DEF y, t1, t2, h, u1, u2, k, H, G, T, W0, W1, W2, W3, V0, V1
    <3> QED  BY <1>4, <1>7, <1>8, <1>9, <1>10, <1>11, <2>1
  <2> QED  BY <1>3, <2>2
<1>13. CASE ~IsBase(t1, t2)
  <2>1. /\ u1 \in Lens /\ u2 \in Lens
        /\ W1 = 2 * (u1 + u2) + (t1 + t2) + G + W2
    BY <1>7, <1>13, KWSUnfold
  <2>2. W2 <= W3
    BY <1>8, <1>9, <2>1, KWSMonotone
  <2>3. /\ u1 \in Nat /\ u2 \in Nat /\ W2 \in Nat
    BY <2>1, LensNat, WSType
  <2>4. G \in Nat
    <3>1. t1 \in Nat /\ t2 \in Nat
      BY <1>11
    <3> HIDE DEF t1, t2
    <3>2. h \in Nat
      BY <3>1 DEF Half, Larger
    <3> HIDE DEF h
    <3> QED  BY <3>1, <3>2 DEF High, Above
  <2>5. W0 <= V0
    <3> HIDE DEF y, t1, t2, h, u1, u2, k, H, G, T, W0, W1, W2, W3, V0, V1
    <3> QED  BY <1>4, <1>7, <1>8, <1>9, <1>10, <1>11, <2>1, <2>2, <2>3, <2>4
  <2> QED  BY <1>3, <2>5
<1> QED  BY <1>12, <1>13

\* A temporary that loses leading zeros needs no more workspace.
LEMMA WSMonotone ==
  \A p, q, r, s \in Lens :
    p <= r /\ q <= s => KWS[p, q] <= KWS[r, s] /\ TWS[p, q] <= TWS[r, s]
BY KWSMonotone, TWSMonotone, Zenon

\* The operands of a recursive call of Karatsuba fit its product, and its
\* workspace fits what the estimate leaves when the temporaries are taken.
LEMMA KaratsubaCallee ==
  ASSUME NEW a \in Lens, NEW b \in Lens, ~IsBase(a, b),
         NEW i \in 1 .. 3, NEW op \in KaratsubaCalls(a, b, i)
  PROVE  /\ op.a \in Lens /\ op.b \in Lens /\ op.room \in Nat
         /\ op.a + op.b <= op.room
         /\ KaratsubaLimbs(a, b) \in Nat
         /\ KaratsubaLimbs(a, b) + KWS[op.a, op.b] <= KWS[a, b]
<1> DEFINE y  == Half(a, b)
           t1 == HalfSum(a, y)
           t2 == HalfSum(b, y)
           al == Low(a, y)
           ah == High(a, y)
           bl == Low(b, y)
           bh == High(b, y)
           F  == KaratsubaLimbs(a, b)
           W  == KWS[a, b]
           W0 == KWS[al, bl]
           W2 == KWS[ah, bh]
           W1 == KWS[t1, t2]
<1>1. /\ al \in Lens /\ ah \in Lens /\ t1 \in Lens /\ bl \in Lens /\ bh \in Lens /\ t2 \in Lens
      /\ al <= a /\ bl <= b
  BY HalfBounds
<1>2. F = t1 + t2 + (ah + bh) + (a + b) + (t1 + t2)
  BY DEF KaratsubaLimbs
<1>3. W = t1 + t2 + (a + b) + (t1 + t2) + (ah + bh)
                  + Larger(Larger(W0, W2), W1)
  BY WorkspaceAssumption DEF KaratsubaWS
<1>4. /\ i = 1 => op = Operation(al, bl, a + b)
      /\ i = 2 => op = Operation(ah, bh, ah + bh)
      /\ i = 3 => \E p \in Trimmed(t1), q \in Trimmed(t2) : op = Operation(p, q, t1 + t2)
  BY DEF KaratsubaCalls, Computed
<1>5. W0 \in Nat /\ W2 \in Nat /\ W1 \in Nat /\ W \in Nat
  BY <1>1, WSType
<1> HIDE DEF y, t1, t2, al, ah, bl, bh
<1>6. /\ a \in Nat /\ b \in Nat /\ t1 \in Nat /\ t2 \in Nat
      /\ al \in Nat /\ ah \in Nat /\ bl \in Nat /\ bh \in Nat
  BY <1>1, LensNat
<1>7. F \in Nat /\ F + W0 <= W /\ F + W2 <= W /\ F + W1 <= W
  <2> HIDE DEF F, W, W0, W1, W2
  <2> QED  BY <1>2, <1>3, <1>5, <1>6 DEF Larger
<1>8. CASE i = 1
  <2>1. op.a = al /\ op.b = bl /\ op.room = a + b
    BY <1>4, <1>8 DEF Operation
  <2>2. al + bl <= a + b /\ a + b \in Nat
    BY <1>1, <1>6
  <2> QED  BY <1>1, <1>7, <2>1, <2>2, Zenon
<1>9. CASE i = 2
  <2>1. op.a = ah /\ op.b = bh /\ op.room = ah + bh
    BY <1>4, <1>9 DEF Operation
  <2>2. ah + bh <= ah + bh /\ ah + bh \in Nat
    BY <1>6
  <2> QED  BY <1>1, <1>7, <2>1, <2>2, Zenon
<1>10. CASE i = 3
  <2>1. PICK p \in Trimmed(t1), q \in Trimmed(t2) : op = Operation(p, q, t1 + t2)
    BY <1>4, <1>10
  <2>2. op.a = p /\ op.b = q /\ op.room = t1 + t2
    BY <2>1 DEF Operation
  <2>3. p \in Lens /\ q \in Lens /\ p <= t1 /\ q <= t2
    BY <1>1, TrimmedBounds
  <2>4. KWS[p, q] <= KWS[t1, t2]
    BY <1>1, <2>3, WSMonotone
  <2> DEFINE Wpq == KWS[p, q]
  <2>5. p \in Nat /\ q \in Nat /\ Wpq \in Nat /\ Wpq <= W1
    BY <2>3, <2>4, LensNat, WSType
  <2>6. p + q <= t1 + t2 /\ t1 + t2 \in Nat /\ F + Wpq <= W
    <3> HIDE DEF F, W, W0, W1, W2, Wpq
    <3> QED  BY <1>5, <1>6, <1>7, <2>3, <2>5
  <2> QED  BY <1>7, <2>2, <2>3, <2>6, Zenon
<1>11. i = 1 \/ i = 2 \/ i = 3
  OBVIOUS
<1> QED  BY <1>8, <1>9, <1>10, <1>11, Zenon

\* The same for Toom-3.
LEMMA Toom3Callee ==
  ASSUME NEW a \in Lens, NEW b \in Lens, ~IsBase(a, b),
         NEW i \in 1 .. 5, NEW op \in Toom3Calls(a, b, i)
  PROVE  /\ op.a \in Lens /\ op.b \in Lens /\ op.room \in Nat
         /\ op.a + op.b <= op.room
         /\ Toom3Limbs(a, b) \in Nat
         /\ Toom3Limbs(a, b) + TWS[op.a, op.b] <= TWS[a, b]
<1> DEFINE k  == Third(a, b)
           al == Smaller(k, a)
           bl == Smaller(k, b)
           ah == Top(a, k)
           bh == Top(b, k)
           e  == k + 2
           F  == Toom3Limbs(a, b)
           W  == TWS[a, b]
           W1 == TWS[e, e]
           W2 == TWS[ah, bh]
<1>1. /\ k \in Lens /\ k + 1 \in Lens /\ e \in Lens
      /\ al \in Lens /\ bl \in Lens /\ al <= k /\ bl <= k /\ ah \in Lens /\ bh \in Lens
  BY ThirdBounds
<1>2. F =
        (k+1) + (k+1) + (k+2) + (k+2) + (k+1) + (a+b) + (k+2) + (k+1)
        + (2*k + 7) + (2*k + 8) + (2*k) + (2*k + 7) + (ah + bh + 1)
  BY DEF Toom3Limbs
<1>3. W = (4*k + 6) + ((2*k + 3) + (k + 1)) + (8*k + (ah + bh) + 23)
                  + (a + b) + Larger(W1, W2)
  BY WorkspaceAssumption DEF Toom3WS
<1>4. /\ i = 1 => op = Operation(al, bl, 2 * k)
      /\ i = 2 => \E p \in Trimmed(k + 2), q \in Trimmed(k + 2) : op = Operation(p, q, 2*k + 8)
      /\ i = 3 => \E p \in Trimmed(k + 1), q \in Trimmed(k + 1) : op = Operation(p, q, 2*k + 7)
      /\ i = 4 => \E p \in Trimmed(k + 2), q \in Trimmed(k + 2) : op = Operation(p, q, 2*k + 7)
      /\ i = 5 => op = Operation(ah, bh, ah + bh + 1)
  BY DEF Toom3Calls, Computed
<1>5. /\ a \in Nat /\ b \in Nat /\ k \in Nat /\ e \in Nat /\ e = k + 2
      /\ al \in Nat /\ bl \in Nat /\ ah \in Nat /\ bh \in Nat
  <2> HIDE DEF k, al, bl, ah, bh
  <2> QED  BY <1>1, LensNat
<1> HIDE DEF k, al, bl, ah, bh, e
<1>6. W1 \in Nat /\ W2 \in Nat /\ W \in Nat
  BY <1>1, WSType
<1>7. F \in Nat /\ F + W1 <= W /\ F + W2 <= W
  <2> HIDE DEF F, W, W1, W2
  <2> QED  BY <1>2, <1>3, <1>5, <1>6 DEF Larger
<1>8. ASSUME NEW p \in Lens, NEW q \in Lens, p <= e, q <= e
      PROVE  F + TWS[p, q] <= W
  <2> DEFINE Wpq == TWS[p, q]
  <2>1. Wpq \in Nat /\ Wpq <= W1
    BY <1>1, <1>8, WSType, WSMonotone
  <2> HIDE DEF F, W, W1, W2, Wpq
  <2>2. F + Wpq <= W
    BY <1>6, <1>7, <2>1
  <2> QED  BY <2>2 DEF Wpq
<1>9. CASE i = 1
  <2>1. op.a = al /\ op.b = bl /\ op.room = 2 * k
    BY <1>4, <1>9 DEF Operation
  <2>2. al <= e /\ bl <= e /\ al + bl <= 2 * k /\ 2 * k \in Nat
    BY <1>1, <1>5
  <2> QED  BY <1>1, <1>7, <1>8, <2>1, <2>2, Zenon
<1>10. CASE i = 5
  <2>1. op.a = ah /\ op.b = bh /\ op.room = ah + bh + 1
    BY <1>4, <1>10 DEF Operation
  <2>2. ah + bh <= ah + bh + 1 /\ ah + bh + 1 \in Nat
    BY <1>5
  <2> QED  BY <1>1, <1>7, <2>1, <2>2, Zenon
<1>11. CASE i \in {2, 3, 4}
  <2>1. PICK x \in {k + 1, k + 2}, room \in {2*k + 7, 2*k + 8} :
          \E p \in Trimmed(x), q \in Trimmed(x) : op = Operation(p, q, room)
    BY <1>4, <1>11
  <2>2. PICK p \in Trimmed(x), q \in Trimmed(x) : op = Operation(p, q, room)
    BY <2>1
  <2>3. op.a = p /\ op.b = q /\ op.room = room
    BY <2>2 DEF Operation
  <2>4. x \in Lens
    BY <1>1, <1>5
  <2>5. x \in Nat /\ x <= e /\ room \in Nat /\ x + x <= room
    BY <1>5
  <2>6. p \in Lens /\ q \in Lens /\ p <= x /\ q <= x
    BY <2>4, TrimmedBounds
  <2>7. p \in Nat /\ q \in Nat
    BY <2>6, LensNat
  <2>8. p <= e /\ q <= e /\ p + q <= room
    BY <1>5, <2>5, <2>6, <2>7
  <2> QED  BY <1>7, <1>8, <2>3, <2>5, <2>6, <2>8, Zenon
<1>12. i = 1 \/ i \in {2, 3, 4} \/ i = 5
  OBVIOUS
<1> QED  BY <1>9, <1>10, <1>11, <1>12, Zenon

\* Both at once: a frame f, not a base case, and a call g that it makes.
LEMMA CalleeFits ==
  ASSUME NEW f \in Frame, ~IsBase(f.a, f.b),
         NEW i \in 1 .. NumCalls(f), NEW op \in Calls(f, i),
         NEW g, g.alg = f.alg, g.a = op.a, g.b = op.b
  PROVE  /\ op.a \in Lens /\ op.b \in Lens /\ op.room \in Nat
         /\ op.a + op.b <= op.room
         /\ FrameLimbs(f) + WS(g) <= WS(f)
<1>1. f.a \in Lens /\ f.b \in Lens /\ f.alg \in Algorithms
  BY DEF Frame
<1>2. CASE f.alg = "karatsuba"
  <2>1. i \in 1 .. 3 /\ op \in KaratsubaCalls(f.a, f.b, i)
    BY <1>2 DEF NumCalls, Calls
  <2>2. /\ FrameLimbs(f) = KaratsubaLimbs(f.a, f.b)
        /\ WS(f) = KWS[f.a, f.b] /\ WS(g) = KWS[op.a, op.b]
    BY <1>2, Zenon DEF FrameLimbs, WS
  <2> QED  BY <1>1, <2>1, <2>2, KaratsubaCallee, Zenon
<1>3. CASE f.alg = "toom3"
  <2>1. i \in 1 .. 5 /\ op \in Toom3Calls(f.a, f.b, i)
    BY <1>3 DEF NumCalls, Calls
  <2>2. /\ FrameLimbs(f) = Toom3Limbs(f.a, f.b)
        /\ WS(f) = TWS[f.a, f.b] /\ WS(g) = TWS[op.a, op.b]
    BY <1>3 DEF FrameLimbs, WS
  <2> QED  BY <1>1, <2>1, <2>2, Toom3Callee, Zenon
<1> QED  BY <1>1, <1>2, <1>3 DEF Algorithms

\* The workspace of a call covers at least its own temporaries.
LEMMA FrameFits ==
  ASSUME NEW f \in Frame
  PROVE  /\ WS(f) \in Nat
         /\ ~IsBase(f.a, f.b) => FrameLimbs(f) \in Nat /\ FrameLimbs(f) <= WS(f)
<1>1. f.a \in Lens /\ f.b \in Lens /\ f.alg \in Algorithms
  BY DEF Frame
<1>2. WS(f) \in Nat
  BY <1>1, WSType, Zenon DEF WS
<1>3. ASSUME ~IsBase(f.a, f.b) PROVE FrameLimbs(f) \in Nat /\ FrameLimbs(f) <= WS(f)
  <2>1. CASE f.alg = "karatsuba"
    <3> DEFINE y  == Half(f.a, f.b)
               op == Operation(Low(f.a, y), Low(f.b, y), f.a + f.b)
               W  == KWS[op.a, op.b]
    <3>1. op \in KaratsubaCalls(f.a, f.b, 1) /\ 1 \in 1 .. 3
      BY DEF KaratsubaCalls
    <3>2. FrameLimbs(f) = KaratsubaLimbs(f.a, f.b) /\ WS(f) = KWS[f.a, f.b]
      BY <2>1, Zenon DEF FrameLimbs, WS
    <3> HIDE DEF op
    <3>3. op.a \in Lens /\ op.b \in Lens /\ FrameLimbs(f) \in Nat /\ FrameLimbs(f) + W <= WS(f)
      BY <1>1, <1>3, <3>1, <3>2, KaratsubaCallee, Zenon
    <3>4. W \in Nat
      BY <3>3, WSType
    <3> HIDE DEF W
    <3> QED  BY <1>2, <3>3, <3>4
  <2>2. CASE f.alg = "toom3"
    <3> DEFINE k  == Third(f.a, f.b)
               op == Operation(Smaller(k, f.a), Smaller(k, f.b), 2 * k)
               W  == TWS[op.a, op.b]
    <3>1. op \in Toom3Calls(f.a, f.b, 1) /\ 1 \in 1 .. 5
      BY DEF Toom3Calls
    <3>2. FrameLimbs(f) = Toom3Limbs(f.a, f.b) /\ WS(f) = TWS[f.a, f.b]
      BY <2>2 DEF FrameLimbs, WS
    <3> HIDE DEF op
    <3>3. op.a \in Lens /\ op.b \in Lens /\ FrameLimbs(f) \in Nat /\ FrameLimbs(f) + W <= WS(f)
      BY <1>1, <1>3, <3>1, <3>2, Toom3Callee, Zenon
    <3>4. W \in Nat
      BY <3>3, WSType
    <3> HIDE DEF W
    <3> QED  BY <1>2, <3>3, <3>4
  <2> QED  BY <1>1, <2>1, <2>2 DEF Algorithms
<1> QED  BY <1>2, <1>3
-----------------------------------------------------------------------------
(* The inductive invariant, in terms of a stack, whether the outermost call  *)
(* had enough workspace, and the capacity.                                   *)

FrameInv(f, enough, limit) ==
  /\ f \in Frame
  /\ f.a + f.b <= f.room
  /\ f.pc > 0 => ~IsBase(f.a, f.b)
  /\ f.pc <= NumCalls(f) + 1
  /\ enough => f.mark + WS(f) <= limit

Link(f, g) == f.pc > 1 /\ g.mark = f.mark + FrameLimbs(f)

StackInv(st, enough, limit) ==
  /\ st \in Seq(Frame)
  /\ \A i \in 1 .. Len(st) : FrameInv(st[i], enough, limit)
  /\ \A i \in 1 .. Len(st) - 1 : Link(st[i], st[i + 1])

\* The rest of the invariant: the fields, and the two ends of the stack.
Ends ==
  /\ Idle => offset = entry
  /\ ~Idle => stack[1].mark = entry /\ offset = Inner.mark + Used(Inner)

FieldsInv ==
  /\ offset \in Nat /\ cap \in Nat /\ poisoined \in BOOLEAN
  /\ err \in Errors /\ entry \in Nat
  /\ call \in [a : Lens, b : Lens, presized : BOOLEAN]
  /\ err = "DARENA_OVERFLOW" => ~Sufficient

\* An overflow in terms of Sufficient.
LEMMA OverflowMeans ==
  TypeOK => (WorkspaceSuffices <=> (err = "DARENA_OVERFLOW" => ~Sufficient))
<1>1. ASSUME TypeOK PROVE WS(Outermost) \in Nat
  <2>1. Outermost.a \in Lens /\ Outermost.b \in Lens
    BY <1>1 DEF TypeOK, Outermost
  <2> QED  BY <2>1, WSType, Zenon DEF WS
<1>2. ASSUME TypeOK, NEW w \in Nat PROVE entry + w > cap <=> ~(entry + w <= cap)
  BY <1>2 DEF TypeOK
<1> QED  BY <1>1, <1>2, Zenon DEF WorkspaceSuffices, Sufficient

\* The invariant and its parts.
LEMMA InvariantParts == IInv <=> FieldsInv /\ Ends /\ StackInv(stack, Sufficient, cap)
<1>1. ASSUME IInv PROVE FieldsInv /\ Ends /\ StackInv(stack, Sufficient, cap)
  <2>1. FieldsInv
    <3>1. TypeOK /\ WorkspaceSuffices
      BY <1>1 DEF IInv
    <3>2. err = "DARENA_OVERFLOW" => ~Sufficient
      BY <3>1, OverflowMeans
    <3> QED  BY <3>1, <3>2, Zenon DEF TypeOK, FieldsInv
  <2>2. Ends
    BY <1>1 DEF IInv, Ends, Balanced, Contiguous
  <2>3. StackInv(stack, Sufficient, cap)
    BY <1>1 DEF IInv, TypeOK, StackInv, FrameInv, Link, ResultFits, PcInv, Contiguous, Covered
  <2> QED  BY <2>1, <2>2, <2>3
<1>2. ASSUME FieldsInv, Ends, StackInv(stack, Sufficient, cap) PROVE IInv
  <2>1. TypeOK
    BY <1>2, Zenon DEF TypeOK, FieldsInv, StackInv
  <2>2. WorkspaceSuffices
    BY <1>2, <2>1, OverflowMeans DEF FieldsInv
  <2>3. Balanced /\ Contiguous
    BY <1>2 DEF Ends, Balanced, Contiguous, StackInv, Link
  <2>4. ResultFits /\ PcInv /\ Covered
    BY <1>2 DEF ResultFits, PcInv, Covered, StackInv, FrameInv, Link
  <2> QED  BY <2>1, <2>2, <2>3, <2>4 DEF IInv
<1> QED  BY <1>1, <1>2

-----------------------------------------------------------------------------
(* What pushing, popping and advancing do to such a stack. *)

\* A sequence without its last element.
LEMMA FrontOf ==
  ASSUME NEW S, NEW st \in Seq(S), Len(st) \in Nat \ {0}
  PROVE  LET o == SubSeq(st, 1, Len(st) - 1)
         IN  /\ o \in Seq(S) /\ Len(o) = Len(st) - 1
             /\ \A i \in 1 .. Len(st) - 1 : o[i] = st[i]
<1> DEFINE y == Len(st) - 1
           o == SubSeq(st, 1, y)
<1>1. 1 \in Int /\ y \in Int /\ \A i \in 1 .. y : st[i] \in S
  OBVIOUS
<1>2. /\ o \in Seq(S) /\ Len(o) = IF 1 <= y THEN y - 1 + 1 ELSE 0
      /\ \A i \in 1 .. y - 1 + 1 : o[i] = st[1 + i - 1]
  BY <1>1, SubSeqProperties
<1> HIDE DEF o
<1>3. y \in Nat
  OBVIOUS
<1>4. Len(o) = y /\ y - 1 + 1 = y
  <2> HIDE DEF y
  <2> QED  BY <1>2, <1>3
<1>5. ASSUME NEW i \in 1 .. y PROVE o[i] = st[i]
  <2>1. i \in 1 .. y - 1 + 1 /\ 1 + i - 1 = i
    BY <1>4
  <2> QED  BY <1>2, <2>1
<1> QED  BY <1>2, <1>4, <1>5 DEF o

\* Popping the innermost call.
LEMMA StackPop ==
  ASSUME NEW st, NEW enough, NEW limit, StackInv(st, enough, limit), st # <<>>
  PROVE  LET x == Len(st)
             o == SubSeq(st, 1, x - 1)
         IN  /\ StackInv(o, enough, limit)
             /\ x \in Nat \ {0} /\ FrameInv(st[x], enough, limit)
             /\ x = 1 => o = <<>>
             /\ x > 1 => /\ o # <<>> /\ Len(o) = x - 1 /\ o[1] = st[1] /\ o[x - 1] = st[x - 1]
                         /\ Link(st[x - 1], st[x])
<1> DEFINE x == Len(st)
           o == SubSeq(st, 1, x - 1)
<1>1. st \in Seq(Frame) /\ x \in Nat \ {0}
  BY DEF StackInv
<1>2. /\ o \in Seq(Frame) /\ Len(o) = x - 1
      /\ \A i \in 1 .. x - 1 : o[i] = st[i]
  BY <1>1, FrontOf
<1>3. /\ \A i \in 1 .. x : FrameInv(st[i], enough, limit)
      /\ \A i \in 1 .. x - 1 : Link(st[i], st[i + 1])
  BY DEF StackInv
<1> HIDE DEF o, x
<1>4. StackInv(o, enough, limit)
  <2>1. \A i \in 1 .. Len(o) : FrameInv(o[i], enough, limit)
    BY <1>1, <1>2, <1>3
  <2>2. ASSUME NEW i \in 1 .. Len(o) - 1 PROVE Link(o[i], o[i + 1])
    <3>1. i \in 1 .. x - 1 /\ i + 1 \in 1 .. x - 1
      BY <1>1, <1>2, <2>2
    <3> QED  BY <1>2, <1>3, <3>1
  <2> QED  BY <1>2, <2>1, <2>2 DEF StackInv
<1>5. x \in 1 .. x /\ FrameInv(st[x], enough, limit)
  BY <1>1, <1>3
<1>6. x = 1 => o = <<>>
  BY <1>1, <1>2
<1>7. ASSUME x > 1
      PROVE  /\ o # <<>> /\ Len(o) = x - 1 /\ o[1] = st[1] /\ o[x - 1] = st[x - 1]
             /\ Link(st[x - 1], st[x])
  <2>1. 1 \in 1 .. x - 1 /\ x - 1 \in 1 .. x - 1 /\ (x - 1) + 1 = x
    BY <1>1, <1>7
  <2>2. Link(st[x - 1], st[(x - 1) + 1])
    BY <1>3, <2>1
  <2> QED  BY <1>1, <1>2, <2>1, <2>2
<1> QED  BY <1>1, <1>4, <1>5, <1>6, <1>7 DEF o, x

\* Pushing a call that lies behind the innermost one.
LEMMA StackPush ==
  ASSUME NEW st, NEW enough, NEW limit, StackInv(st, enough, limit),
         NEW g, FrameInv(g, enough, limit), st # <<>> => Link(st[Len(st)], g)
  PROVE  StackInv(Append(st, g), enough, limit)
<1> DEFINE x == Len(st)
           s == Append(st, g)
<1>1. st \in Seq(Frame) /\ x \in Nat /\ g \in Frame
  BY DEF StackInv, FrameInv
<1>2. s \in Seq(Frame) /\ Len(s) = x + 1 /\ s[x + 1] = g /\ \A i \in 1 .. x : s[i] = st[i]
  BY <1>1
<1>3. x > 0 => st # <<>>
  BY <1>1
<1> HIDE DEF s
<1>4. ASSUME NEW i \in 1 .. Len(s) PROVE FrameInv(s[i], enough, limit)
  <2>1. i = x + 1 \/ i \in 1 .. x
    BY <1>1, <1>2
  <2> QED  BY <1>2, <2>1 DEF StackInv
<1>5. ASSUME NEW i \in 1 .. Len(s) - 1 PROVE Link(s[i], s[i + 1])
  <2>1. CASE i = x
    <3>1. x \in 1 .. x /\ x > 0
      BY <1>1, <1>2, <2>1
    <3>2. s[i] = st[x] /\ s[i + 1] = g /\ Link(st[x], g)
      BY <1>2, <1>3, <2>1, <3>1
    <3> QED  BY <3>2
  <2>2. CASE i # x
    <3>1. i \in 1 .. x - 1 /\ i \in 1 .. x /\ i + 1 \in 1 .. x
      BY <1>1, <1>2, <2>2
    <3> QED  BY <1>2, <3>1 DEF StackInv
  <2> QED  BY <2>1, <2>2
<1> QED  BY <1>2, <1>4, <1>5 DEF StackInv, s

\* Replacing the innermost call by one that lies in the same place.
LEMMA StackAdvance ==
  ASSUME NEW st, NEW enough, NEW limit, StackInv(st, enough, limit), st # <<>>,
         NEW g, FrameInv(g, enough, limit), g.mark = st[Len(st)].mark
  PROVE  LET s == [st EXCEPT ![Len(st)] = g]
         IN  /\ StackInv(s, enough, limit)
             /\ Len(s) = Len(st) /\ s # <<>> /\ s[Len(s)] = g /\ s[1].mark = st[1].mark
<1> DEFINE x == Len(st)
           s == [st EXCEPT ![x] = g]
<1>1. st \in Seq(Frame) /\ x \in Nat \ {0} /\ g \in Frame
  BY DEF StackInv, FrameInv
<1>2. /\ s \in Seq(Frame) /\ Len(s) = x /\ s[x] = g
      /\ \A i \in 1 .. x - 1 : s[i] = st[i]
  BY <1>1
<1> HIDE DEF s
<1>3. ASSUME NEW i \in 1 .. x PROVE FrameInv(s[i], enough, limit) /\ s[i].mark = st[i].mark
  <2>1. i = x \/ i \in 1 .. x - 1
    BY <1>1
  <2> QED  BY <1>1, <1>2, <2>1 DEF StackInv
<1>4. ASSUME NEW i \in 1 .. x - 1 PROVE Link(s[i], s[i + 1])
  <2>1. i \in 1 .. x /\ i + 1 \in 1 .. x /\ s[i] = st[i]
    BY <1>1, <1>2
  <2>2. Link(st[i], st[i + 1]) /\ s[i + 1].mark = st[i + 1].mark
    BY <1>3, <2>1 DEF StackInv
  <2> QED  BY <2>1, <2>2 DEF Link
<1>5. StackInv(s, enough, limit)
  BY <1>2, <1>3, <1>4 DEF StackInv
<1>6. 1 \in 1 .. x /\ s # <<>>
  BY <1>1, <1>2
<1> QED  BY <1>2, <1>3, <1>5, <1>6 DEF s

-----------------------------------------------------------------------------
(* The steps. *)

\* A return of the innermost call that rewinds to its mark.
LEMMA PopStep ==
  ASSUME IInv, ~Idle, stack' = Outer, offset' = Inner.mark,
         UNCHANGED <<cap, poisoined, entry, call>>,
         err' \in Errors, err' = "DARENA_OVERFLOW" => ~Sufficient
  PROVE  IInv'
<1> DEFINE x == Len(stack)
<1>1. FieldsInv /\ Ends /\ StackInv(stack, Sufficient, cap)
  BY InvariantParts
<1>2. /\ StackInv(Outer, Sufficient, cap)
      /\ x \in Nat \ {0} /\ FrameInv(stack[x], Sufficient, cap)
      /\ x = 1 => Outer = <<>>
      /\ x > 1 => /\ Outer # <<>> /\ Len(Outer) = x - 1 /\ Outer[1] = stack[1]
                  /\ Outer[x - 1] = stack[x - 1] /\ Link(stack[x - 1], stack[x])
  BY <1>1, StackPop DEF Idle, Outer
<1>3. Sufficient' <=> Sufficient
  BY DEF Sufficient, WS, Outermost
<1>4. StackInv(stack, Sufficient, cap)'
  <2>1. StackInv(Outer, Sufficient', cap')
    BY <1>2, <1>3, Zenon DEF StackInv, FrameInv
  <2> QED  BY <2>1, Zenon
<1>5. FieldsInv'
  <2>1. offset' \in Nat
    BY <1>2 DEF Inner, FrameInv, Frame
  <2> QED  BY <1>1, <1>3, <2>1, Zenon DEF FieldsInv
<1>6. Ends'
  <2>1. CASE x = 1
    <3>1. stack' = <<>> /\ offset' = entry'
      BY <1>1, <1>2, <2>1 DEF Ends, Inner
    <3> QED  BY <3>1 DEF Ends, Idle
  <2>2. CASE x > 1
    <3>1. /\ stack' # <<>> /\ stack'[1].mark = entry' /\ Len(stack') = x - 1
          /\ stack'[x - 1] = stack[x - 1]
      BY <1>1, <1>2, <2>2 DEF Ends
    <3>2. offset' = stack[x - 1].mark + FrameLimbs(stack[x - 1]) /\ stack[x - 1].pc > 1
      BY <1>2, <2>2 DEF Link, Inner
    <3>3. Inner' = stack[x - 1]
      BY <3>1 DEF Inner
    <3>4. stack[x - 1].pc # 0
      BY <3>2
    <3>5. Used(Inner') = FrameLimbs(stack[x - 1])
      BY <3>3, <3>4, Zenon DEF Used
    <3> QED  BY <3>1, <3>2, <3>3, <3>5, Zenon DEF Ends, Idle
  <2>3. x \in Nat \ {0}
    BY <1>2, Zenon
  <2> HIDE DEF x
  <2>4. x = 1 \/ x > 1
    BY <2>3
  <2> QED  BY <2>1, <2>2, <2>4, Zenon
<1> QED  BY <1>4, <1>5, <1>6, InvariantParts, PTL

\* The outermost call enters, with the workspace it has.
LEMMA DispatchStep ==
  ASSUME IInv, Idle, NEW a \in Lens, NEW b \in Lens, NEW used \in Nat,
         NEW presized \in BOOLEAN, MulDisp(a, b, used, presized),
         cap' \in Nat, poisoined' \in BOOLEAN
  PROVE  IInv'
<1> DEFINE g == [alg |-> DispatchedAlg(a, b), a |-> a, b |-> b, room |-> a + b,
                 mark |-> used, pc |-> 0]
<1>1. /\ stack' = Append(<<>>, g) /\ offset' = used /\ entry' = used
      /\ call' = [a |-> a, b |-> b, presized |-> presized] /\ err' = "BIGINT_SUCCESS"
  BY DEF MulDisp, Push, Operation, Idle
<1>2. a \in Nat /\ b \in Nat /\ DispatchedAlg(a, b) \in Algorithms
  BY LensNat DEF DispatchedAlg, Algorithms
<1>3. g \in Frame /\ NumCalls(g) \in Nat
  BY <1>2 DEF Frame, NumCalls
<1>4. call'.a = a /\ call'.b = b
  BY <1>1
<1>5. WS(Outermost') = WS(g)
  BY <1>4, Zenon DEF WS, Outermost
<1>6. Sufficient' => g.mark + WS(g) <= cap'
  BY <1>1, <1>5 DEF Sufficient
<1>7. FrameInv(g, Sufficient', cap')
  BY <1>2, <1>3, <1>6 DEF FrameInv
<1>8. StackInv(stack, Sufficient, cap)'
  <2>1. StackInv(<<>>, Sufficient', cap')
    BY DEF StackInv
  <2>2. StackInv(Append(<<>>, g), Sufficient', cap')
    BY <1>7, <2>1, StackPush
  <2> QED  BY <1>1, <2>2, Zenon
<1>9. FieldsInv'
  BY <1>1, <1>4 DEF FieldsInv, Errors
<1>10. Ends'
  <2>1. /\ Len(stack') = 1 /\ stack' # <<>> /\ stack'[1] = g
        /\ g.mark = used /\ g.pc = 0
    BY <1>1
  <2>2. Inner' = g
    BY <2>1 DEF Inner
  <2>3. Used(g) = 0
    BY <2>1, Zenon DEF Used
  <2>4. offset' = g.mark + 0 /\ stack'[1].mark = entry'
    BY <1>1, <2>1
  <2> HIDE DEF g
  <2> QED  BY <2>1, <2>2, <2>3, <2>4, Zenon DEF Ends, Idle
<1> QED  BY <1>8, <1>9, <1>10, InvariantParts, PTL

\* The temporaries of the innermost call are taken.
LEMMA OpenStep == IInv /\ OpenFrame => IInv'
<1> SUFFICES ASSUME IInv, OpenFrame PROVE IInv'
  OBVIOUS
<1> DEFINE x == Len(stack)
           f == stack[x]
           g == [f EXCEPT !.pc = 1]
<1>1. FieldsInv /\ Ends /\ StackInv(stack, Sufficient, cap)
  BY InvariantParts
<1>2. x \in Nat \ {0} /\ FrameInv(f, Sufficient, cap)
  BY <1>1, StackPop DEF OpenFrame, Idle
<1>3. /\ ~Idle /\ f.pc = 0 /\ ~IsBase(f.a, f.b) /\ UNCHANGED <<cap, poisoined, entry, call>>
      /\ f \in Frame
  BY <1>2 DEF OpenFrame, Inner, FrameInv
<1>4. offset = f.mark /\ offset \in Nat /\ f.mark \in Nat /\ cap \in Nat
  <2>1. offset = f.mark + Used(f)
    BY <1>1, <1>3 DEF Ends, Inner
  <2>2. Used(f) = 0
    BY <1>3 DEF Used
  <2> QED  BY <1>1, <1>3, <2>1, <2>2 DEF Frame, FieldsInv
<1>5. WS(f) \in Nat /\ FrameLimbs(f) \in Nat /\ FrameLimbs(f) <= WS(f)
  BY <1>3, FrameFits
<1>6. CASE offset + FrameLimbs(f) > cap
  <2>1. ~Sufficient
    BY <1>2, <1>4, <1>5, <1>6 DEF FrameInv
  <2>2. ~(offset + FrameLimbs(f) <= cap)
    BY <1>4, <1>5, <1>6
  <2>3. offset' = Inner.mark /\ stack' = Outer /\ err' = "DARENA_OVERFLOW"
    BY <2>2, Zenon DEF OpenFrame, Inner
  <2>4. err' \in Errors
    BY <2>3 DEF Errors
  <2> QED  BY <1>3, <2>1, <2>3, <2>4, PopStep
<1>7. CASE offset + FrameLimbs(f) <= cap
  <2>1. ~(offset + FrameLimbs(f) > cap)
    BY <1>4, <1>5, <1>7
  <2>2. /\ offset' = offset + FrameLimbs(f) /\ stack' = [stack EXCEPT ![Len(stack)].pc = 1]
        /\ err' = err
    BY <2>1, Zenon DEF OpenFrame, Inner
  <2>3. stack' = [stack EXCEPT ![x] = g]
    BY <2>2
  <2>4. /\ g \in Frame /\ g.alg = f.alg /\ g.a = f.a /\ g.b = f.b /\ g.room = f.room
        /\ g.mark = f.mark /\ g.pc = 1
    BY <1>3 DEF Frame
  <2> HIDE DEF g
  <2>5. NumCalls(g) \in Nat /\ 1 <= NumCalls(g) + 1 /\ WS(g) = WS(f)
    <3>1. NumCalls(g) \in {3, 5}
      BY DEF NumCalls
    <3>2. WS(g) = WS(f)
      BY <2>4, Zenon DEF WS
    <3> QED  BY <3>1, <3>2
  <2>6. FrameInv(g, Sufficient, cap)
    BY <1>2, <1>3, <2>4, <2>5 DEF FrameInv
  <2>7. /\ StackInv(stack', Sufficient, cap)
        /\ Len(stack') = x /\ stack' # <<>> /\ stack'[x] = g /\ stack'[1].mark = stack[1].mark
    <3> DEFINE s == [stack EXCEPT ![x] = g]
    <3>1. /\ StackInv(s, Sufficient, cap)
          /\ Len(s) = x /\ s # <<>> /\ s[Len(s)] = g /\ s[1].mark = stack[1].mark
      <4>1. stack # <<>> /\ g.mark = stack[Len(stack)].mark
        BY <1>3, <2>4 DEF Idle
      <4>2. StackInv(stack, Sufficient, cap)
        BY <1>1
      <4> QED  BY <2>6, <4>1, <4>2, StackAdvance
    <3>2. s[x] = g
      BY <3>1, Zenon
    <3> HIDE DEF s
    <3>3. stack' = s
      BY <2>3 DEF s
    <3> QED  BY <3>1, <3>2, <3>3, Zenon
  <2>8. Sufficient' <=> Sufficient
    BY <1>3 DEF Sufficient, WS, Outermost
  <2>9. StackInv(stack, Sufficient, cap)'
    BY <1>3, <2>7, <2>8, Zenon DEF StackInv, FrameInv
  <2>10. FieldsInv'
    <3>1. offset' \in Nat
      BY <1>4, <1>5, <2>2
    <3> QED  BY <1>1, <1>3, <2>2, <2>8, <3>1, Zenon DEF FieldsInv
  <2>11. Ends'
    <3>1. Inner' = g
      BY <2>7 DEF Inner
    <3>2. FrameLimbs(g) = FrameLimbs(f)
      BY <2>4, Zenon DEF FrameLimbs
    <3>3. g.pc # 0
      BY <2>4
    <3>4. Used(g) = FrameLimbs(f)
      BY <3>2, <3>3, Zenon DEF Used
    <3>5. offset' = g.mark + FrameLimbs(f)
      BY <1>4, <2>2, <2>4
    <3>6. stack'[1].mark = entry'
      BY <1>1, <1>3, <2>7 DEF Ends
    <3> QED  BY <2>7, <3>1, <3>4, <3>5, <3>6, Zenon DEF Ends, Idle
  <2> QED  BY <2>9, <2>10, <2>11, InvariantParts, PTL
<1>8. offset + FrameLimbs(f) <= cap \/ offset + FrameLimbs(f) > cap
  BY <1>4, <1>5
<1> QED  BY <1>6, <1>7, <1>8

\* A recursive call is pushed behind the temporaries of the innermost frame.
LEMMA RecurseStep == IInv /\ Recurse => IInv'
<1> SUFFICES ASSUME IInv, Recurse PROVE IInv'
  OBVIOUS
<1> DEFINE x == Len(stack)
           f == stack[x]
           h == [f EXCEPT !.pc = @ + 1]
           st == [stack EXCEPT ![x] = h]
<1>1. FieldsInv /\ Ends /\ StackInv(stack, Sufficient, cap)
  BY InvariantParts
<1>2. x \in Nat \ {0} /\ FrameInv(f, Sufficient, cap)
  BY <1>1, StackPop DEF Recurse, Idle
<1>3. /\ ~Idle /\ f.pc \in 1 .. NumCalls(f)
      /\ UNCHANGED <<offset, cap, poisoined, err, entry, call>>
      /\ f \in Frame /\ stack \in Seq(Frame)
  BY <1>1, <1>2 DEF Recurse, Inner, FrameInv, StackInv
<1>4. NumCalls(f) \in {3, 5} /\ f.pc \in Nat /\ f.pc > 0 /\ f.pc <= NumCalls(f)
  BY <1>3 DEF NumCalls
<1>5. ~IsBase(f.a, f.b)
  BY <1>2, <1>4 DEF FrameInv
<1>6. PICK op \in Calls(f, f.pc) :
        stack' = [Append(stack, [alg |-> f.alg, a |-> op.a, b |-> op.b, room |-> op.room,
                                 mark |-> offset, pc |-> 0])
                    EXCEPT ![x].pc = @ + 1]
  BY DEF Recurse, Inner, Push
<1> DEFINE g == [alg |-> f.alg, a |-> op.a, b |-> op.b, room |-> op.room,
                 mark |-> offset, pc |-> 0]
<1>7. /\ g.alg = f.alg /\ g.a = op.a /\ g.b = op.b /\ g.room = op.room
      /\ g.mark = offset /\ g.pc = 0
  OBVIOUS
<1>8. /\ op.a \in Lens /\ op.b \in Lens /\ op.room \in Nat /\ op.a + op.b <= op.room
      /\ FrameLimbs(f) + WS(g) <= WS(f)
  <2> HIDE DEF f, g
  <2> QED  BY <1>3, <1>5, <1>7, CalleeFits
<1>9. g \in Frame
  BY <1>1, <1>3, <1>8 DEF Frame, FieldsInv
<1>10. /\ h \in Frame /\ h.alg = f.alg /\ h.a = f.a /\ h.b = f.b /\ h.room = f.room
       /\ h.mark = f.mark /\ h.pc = f.pc + 1
  <2> HIDE DEF f
  <2>1. f.pc + 1 \in 0 .. 6
    BY <1>4
  <2>2. h = [f EXCEPT !.pc = f.pc + 1]
    OBVIOUS
  <2> QED  BY <1>3, <2>1, <2>2 DEF Frame
<1> HIDE DEF g
<1>11. stack' = Append(st, g)
  <2>1. /\ x \in Nat \ {0} /\ st \in Seq(Frame) /\ Len(st) = x
        /\ Append(stack, g) \in Seq(Frame)
        /\ stack' = [Append(stack, g) EXCEPT ![x].pc = @ + 1]
    BY <1>2, <1>3, <1>6, <1>9, <1>10 DEF g
  <2>2. Append(stack, g)[x] = f /\ Len(Append(stack, g)) = x + 1
    BY <1>3, <1>9, <2>1
  <2>3. stack' = [Append(stack, g) EXCEPT ![x] = h]
    BY <2>1, <2>2
  <2> DEFINE s == [Append(stack, g) EXCEPT ![x] = h]
             t == Append(st, g)
  <2>4. /\ s \in Seq(Frame) /\ Len(s) = x + 1 /\ s[x] = h /\ s[x + 1] = g
        /\ \A i \in 1 .. x - 1 : s[i] = stack[i]
    <3> DEFINE q == Append(stack, g)
    <3>1. /\ q \in Seq(Frame) /\ Len(q) = x + 1 /\ q[x + 1] = g
          /\ \A i \in 1 .. x - 1 : q[i] = stack[i]
      BY <1>3, <1>9, <2>1
    <3> HIDE DEF q, h, st, x
    <3>2. x \in 1 .. Len(q) /\ x + 1 \in 1 .. Len(q) /\ x # x + 1
      BY <2>1, <3>1
    <3>3. /\ s \in Seq(Frame) /\ Len(s) = Len(q)
          /\ \A j \in 1 .. Len(q) : s[j] = IF j = x THEN h ELSE q[j]
      <4>1. s = [q EXCEPT ![x] = h]
        BY DEF q
      <4> HIDE DEF s
      <4> QED  BY <1>10, <3>1, <3>2, <4>1, ExceptSeq
    <3> HIDE DEF s
    <3>4. s[x] = h /\ s[x + 1] = g
      BY <3>1, <3>2, <3>3
    <3>5. ASSUME NEW i \in 1 .. x - 1 PROVE s[i] = stack[i]
      <4>1. i \in 1 .. Len(q) /\ i # x
        BY <2>1, <3>1
      <4> QED  BY <3>1, <3>3, <4>1
    <3> QED  BY <3>1, <3>3, <3>4, <3>5
  <2>5. /\ t \in Seq(Frame) /\ Len(t) = x + 1 /\ t[x] = h /\ t[x + 1] = g
        /\ \A i \in 1 .. x - 1 : t[i] = stack[i]
    <3>1. st[x] = h /\ \A i \in 1 .. x - 1 : st[i] = stack[i]
      BY <1>3, <1>10, <2>1
    <3> HIDE DEF st, h
    <3> QED  BY <1>9, <2>1, <3>1
  <2> HIDE DEF s, t
  <2>6. ASSUME NEW i \in 1 .. x + 1 PROVE s[i] = t[i]
    <3>1. i = x + 1 \/ i = x \/ i \in 1 .. x - 1
      BY <2>1
    <3> QED  BY <2>4, <2>5, <3>1, Zenon
  <2>7. s = t
    BY <2>4, <2>5, <2>6, SeqEqual
  <2> QED  BY <2>3, <2>7 DEF s, t
<1>12. FrameInv(h, Sufficient, cap)
  <2> HIDE DEF h, f
  <2>1. NumCalls(h) = NumCalls(f) /\ WS(h) = WS(f)
    BY <1>10, Zenon DEF NumCalls, WS
  <2> QED  BY <1>2, <1>4, <1>5, <1>10, <2>1 DEF FrameInv
<1>13. StackInv(st, Sufficient, cap) /\ Len(st) = x /\ st # <<>> /\ st[x] = h /\ st[1].mark = stack[1].mark
  <2>1. stack # <<>> /\ h.mark = stack[Len(stack)].mark
    BY <1>3, <1>10 DEF Idle
  <2>2. StackInv(stack, Sufficient, cap)
    BY <1>1
  <2> HIDE DEF h
  <2> QED  BY <1>12, <2>1, <2>2, StackAdvance
<1> HIDE DEF h, st
<1>14. offset = h.mark + FrameLimbs(h) /\ FrameLimbs(h) = FrameLimbs(f) /\ FrameLimbs(f) \in Nat
  <2>1. offset = f.mark + Used(f)
    BY <1>1, <1>3 DEF Ends, Inner
  <2>2. f.pc # 0
    BY <1>4
  <2>3. Used(f) = FrameLimbs(f)
    BY <2>2, Zenon DEF Used
  <2>4. FrameLimbs(h) = FrameLimbs(f)
    BY <1>10, Zenon DEF FrameLimbs
  <2>5. FrameLimbs(f) \in Nat
    BY <1>3, <1>5, FrameFits
  <2> QED  BY <1>10, <2>1, <2>3, <2>4, <2>5, Zenon
<1>15. Link(h, g)
  <2>1. h.pc > 1
    BY <1>4, <1>10
  <2> QED  BY <1>7, <1>14, <2>1, Zenon DEF Link, g
<1>16. FrameInv(g, Sufficient, cap)
  <2>1. NumCalls(g) \in {3, 5} /\ g.pc = 0 /\ g.a = op.a /\ g.b = op.b /\ g.room = op.room
        /\ g.mark = offset
    BY DEF NumCalls, g
  <2>2. Sufficient => g.mark + WS(g) <= cap
    <3>1. WS(g) \in Nat /\ WS(f) \in Nat
      BY <1>3, <1>9, FrameFits
    <3>2. offset = f.mark + FrameLimbs(f) /\ f.mark \in Nat /\ cap \in Nat
      BY <1>1, <1>3, <1>10, <1>14 DEF Frame, FieldsInv
    <3>3. Sufficient => f.mark + WS(f) <= cap
      BY <1>2 DEF FrameInv
    <3>4. g.mark = f.mark + FrameLimbs(f)
      BY <2>1, <3>2
    <3> HIDE DEF f
    <3> QED  BY <1>8, <1>14, <3>1, <3>2, <3>3, <3>4
  <2> QED  BY <1>8, <1>9, <2>1, <2>2 DEF FrameInv
<1>17. StackInv(stack, Sufficient, cap)'
  <2>1. StackInv(Append(st, g), Sufficient, cap)
    BY <1>13, <1>15, <1>16, StackPush
  <2>2. Sufficient' <=> Sufficient
    BY <1>3 DEF Sufficient, WS, Outermost
  <2> QED  BY <1>3, <1>11, <2>1, <2>2, Zenon DEF StackInv, FrameInv
<1>18. FieldsInv'
  <2>1. Sufficient' <=> Sufficient
    BY <1>3 DEF Sufficient, WS, Outermost
  <2> QED  BY <1>1, <1>3, <2>1, Zenon DEF FieldsInv
<1>19. Ends'
  <2>1. st \in Seq(Frame) /\ Len(st) = x
    BY <1>13 DEF StackInv
  <2>2. Len(stack') = x + 1 /\ stack'[x + 1] = g /\ stack'[1] = st[1] /\ stack' # <<>>
    BY <1>2, <1>9, <1>11, <2>1
  <2>3. Inner' = g
    BY <2>2 DEF Inner
  <2>4. Used(g) = 0 /\ g.mark = offset
    BY DEF Used, g
  <2>5. offset' = g.mark + 0
    BY <1>1, <1>3, <2>4 DEF FieldsInv
  <2>6. stack'[1].mark = entry'
    BY <1>1, <1>3, <1>13, <2>2 DEF Ends
  <2> QED  BY <2>2, <2>3, <2>4, <2>5, <2>6, Zenon DEF Ends, Idle
<1> QED  BY <1>17, <1>18, <1>19, InvariantParts, PTL

-----------------------------------------------------------------------------
(* The theorems. *)

\* The invariant holds initially.
LEMMA InitInv == Init => IInv
<1> SUFFICES ASSUME Init PROVE IInv
  OBVIOUS
<1>1. FieldsInv
  <2>1. 0 \in Lens
    BY MulAssumption DEF Lens
  <2> QED  BY MulAssumption, <2>1 DEF Init, FieldsInv, Errors
<1>2. Ends /\ StackInv(stack, Sufficient, cap)
  BY DEF Init, Ends, Idle, StackInv
<1> QED  BY <1>1, <1>2, InvariantParts

\* A call of __BIGINT_MAGMUL__: poisoned, sized already, grown, or poisoned by the growth.
LEMMA MagMulStep ==
  ASSUME IInv, NEW a \in Operands, NEW b \in Operands, MagMul(a, b)
  PROVE  IInv'
<1>1. FieldsInv /\ Ends /\ StackInv(stack, Sufficient, cap) /\ a \in Lens /\ b \in Lens
  BY InvariantParts, MulAssumption
<1>2. Idle
  BY DEF MagMul
<1>3. CASE err' = "DARENA_POISON" /\ UNCHANGED <<offset, cap, stack, entry, call>>
           /\ poisoined' \in BOOLEAN
  <2>1. Sufficient' <=> Sufficient
    BY <1>3 DEF Sufficient, WS, Outermost
  <2>2. FieldsInv'
    BY <1>1, <1>3 DEF FieldsInv, Errors
  <2>3. Ends'
    BY <1>1, <1>3 DEF Ends, Idle, Inner
  <2>4. StackInv(stack, Sufficient, cap)'
    BY <1>1, <1>3, <2>1, Zenon DEF StackInv, FrameInv
  <2> QED  BY <2>2, <2>3, <2>4, InvariantParts, PTL
<1>4. CASE MulDisp(a, b, 0, TRUE) /\ cap' \in Nat /\ poisoined' \in BOOLEAN
  BY <1>1, <1>2, <1>4, DispatchStep
<1>5. ASSUME NEW c \in Doubled(MulWS(a, b)) PROVE c \in Nat
  <2>1. MulWS(a, b) \in Nat
    BY <1>1, WSType, Zenon DEF MulWS
  <2>2. c \in MulWS(a, b) .. 2 * MulWS(a, b) - 1
    BY <1>5 DEF Doubled
  <2> QED  BY <2>1, <2>2
<1>6. poisoined \in BOOLEAN /\ cap \in Nat
  BY <1>1 DEF FieldsInv
<1> QED  BY <1>3, <1>4, <1>5, <1>6, Zenon DEF MagMul

\* A kernel's call of the dispatcher.
LEMMA KernelMulStep ==
  ASSUME IInv, NEW held \in HeldLimbs, NEW a \in Operands, NEW b \in Operands,
         KernelMul(held, a, b)
  PROVE  IInv'
<1>1. FieldsInv /\ a \in Lens /\ b \in Lens /\ held \in Nat
  BY InvariantParts, MulAssumption
<1>2. /\ Idle /\ MulDisp(a, b, held, FALSE)
      /\ cap' \in Nat /\ poisoined' \in BOOLEAN
  BY <1>1 DEF KernelMul, FieldsInv
<1> QED  BY <1>1, <1>2, DispatchStep

\* Every step preserves the invariant.
LEMMA NextInv == IInv /\ [Next]_vars => IInv'
<1> SUFFICES ASSUME IInv, [Next]_vars PROVE IInv'
  OBVIOUS
<1>1. ASSUME NEW a \in Operands, NEW b \in Operands, MagMul(a, b) PROVE IInv'
  BY <1>1, MagMulStep
<1>2. ASSUME NEW held \in HeldLimbs, NEW a \in Operands, NEW b \in Operands,
             KernelMul(held, a, b)
      PROVE  IInv'
  BY <1>2, KernelMulStep
<1>3. CASE BaseCase
  <2>1. FieldsInv /\ Ends /\ StackInv(stack, Sufficient, cap)
    BY InvariantParts
  <2>2. ~Idle /\ Inner.pc = 0 /\ UNCHANGED <<offset, cap, poisoined, entry, call>>
        /\ stack' = Outer /\ err' = "BIGINT_SUCCESS"
    BY <1>3 DEF BaseCase
  <2>3. Inner.mark \in Nat
    BY <2>1, <2>2, StackPop DEF Idle, Inner, FrameInv, Frame
  <2>4. Used(Inner) = 0 /\ offset = Inner.mark + Used(Inner)
    BY <2>1, <2>2 DEF Used, Ends
  <2>5. offset' = Inner.mark
    BY <2>2, <2>3, <2>4
  <2> QED  BY <2>2, <2>5, PopStep DEF Errors
<1>4. CASE OpenFrame
  BY <1>4, OpenStep
<1>5. CASE Recurse
  BY <1>5, RecurseStep
<1>6. CASE PropagateOverflow
  <2>1. err = "DARENA_OVERFLOW" => ~Sufficient
    BY InvariantParts DEF FieldsInv
  <2> QED  BY <1>6, <2>1, PopStep DEF PropagateOverflow, Errors
<1>7. CASE Recompose
  BY <1>7, PopStep DEF Recompose, Errors
<1>8. CASE UNCHANGED vars
  <2>1. Sufficient' <=> Sufficient
    BY <1>8 DEF Sufficient, WS, Outermost, vars
  <2>2. FieldsInv /\ Ends /\ StackInv(stack, Sufficient, cap)
    BY InvariantParts
  <2>3. FieldsInv' /\ Ends'
    BY <1>8, <2>1, <2>2 DEF vars, FieldsInv, Ends, Idle, Inner
  <2>4. StackInv(stack, Sufficient, cap)'
    BY <1>8, <2>1, <2>2, Zenon DEF StackInv, FrameInv, vars
  <2> QED  BY <2>3, <2>4, InvariantParts, PTL
<1> QED  BY <1>1, <1>2, <1>3, <1>4, <1>5, <1>6, <1>7, <1>8 DEF Next

\* The frames of the recursion lie in the arena as IInv says, for every
\* threshold, operand length and arena.
THEOREM MulInvariant == Spec => []IInv
BY InitInv, NextInv, PTL DEF Spec

\* Type correctness of the multiplication's arena, stack and statuses.
THEOREM MulTypeOK == Spec => []TypeOK
<1>1. IInv => TypeOK
  BY DEF IInv
<1> QED  BY <1>1, MulInvariant, PTL

\* No recursive call is given a product too small for its operands.
THEOREM MulResultFits == Spec => []ResultFits
<1>1. IInv => ResultFits
  BY DEF IInv
<1> QED  BY <1>1, MulInvariant, PTL

\* Every return of a multiplication restores the offset at which it entered.
THEOREM MulBalanced == Spec => []Balanced
<1>1. IInv => Balanced
  BY DEF IInv
<1> QED  BY <1>1, MulInvariant, PTL

\* The workspace functions cover the whole recursion: an overflow means that
\* the arena had less room than they ask for.
THEOREM MulWorkspaceSuffices == Spec => []WorkspaceSuffices
<1>1. IInv => WorkspaceSuffices
  BY DEF IInv
<1> QED  BY <1>1, MulInvariant, PTL
-----------------------------------------------------------------------------
(* MAGMUL sizes the arena well enough for either algorithm. *)

\* The workspace that MAGMUL sizes the arena for covers the algorithm that the
\* dispatcher chooses.
LEMMA MulWSCovers ==
  ASSUME NEW a \in Lens, NEW b \in Lens
  PROVE  /\ MulWS(a, b) \in Nat
         /\ WS([alg |-> DispatchedAlg(a, b), a |-> a, b |-> b]) <= MulWS(a, b)
<1> DEFINE K == KWS[a, b]
           T == TWS[a, b]
           f == [alg |-> DispatchedAlg(a, b), a |-> a, b |-> b]
<1>1. K \in Nat /\ T \in Nat /\ K <= T /\ a \in Nat /\ b \in Nat
  BY WSType, KWSBelowTWS, LensNat
<1>2. IsBase(a, b) => K = 0 /\ T = 0
  BY WorkspaceAssumption DEF KaratsubaWS, Toom3WS
<1>3. WS(f) = IF DispatchedAlg(a, b) = "karatsuba" THEN K ELSE T
  BY DEF WS
<1> HIDE DEF K, T, f
<1>4. MulWS(a, b) = IF a <= SCHOOLBOOK /\ b <= SCHOOLBOOK THEN 0
                    ELSE IF a < KARATSUBA /\ b < KARATSUBA THEN K ELSE T
  BY DEF MulWS, K, T
<1>5. WS(f) <= MulWS(a, b) /\ MulWS(a, b) \in Nat
  BY <1>1, <1>2, <1>3, <1>4, MulAssumption DEF DispatchedAlg, IsBase
<1> QED  BY <1>5 DEF f

LEMMA PresizedStep == IInv /\ Presized /\ [Next]_vars => Presized'
<1> SUFFICES ASSUME IInv, Presized, [Next]_vars PROVE Presized'
  OBVIOUS
<1>1. CASE UNCHANGED <<cap, entry, call>>
  BY <1>1 DEF Presized, Sufficient, WS, Outermost
<1>2. ASSUME NEW a \in Operands, NEW b \in Operands, MulDisp(a, b, 0, TRUE), cap' \in Nat,
             cap' >= MulWS(a, b)
      PROVE  Presized'
  <2>1. a \in Lens /\ b \in Lens
    BY MulAssumption
  <2> DEFINE f == [alg |-> DispatchedAlg(a, b), a |-> a, b |-> b]
             W == WS(f)
  <2>2. entry' = 0 /\ Outermost' = f
    BY <1>2 DEF MulDisp, Outermost
  <2>3. WS(Outermost)' = W
    BY <2>2 DEF WS
  <2>4. W \in Nat /\ W <= MulWS(a, b) /\ MulWS(a, b) \in Nat
    BY <2>1, MulWSCovers, WSType DEF WS
  <2> HIDE DEF W
  <2>5. 0 + W <= cap'
    BY <1>2, <2>4
  <2> QED  BY <2>2, <2>3, <2>5 DEF Presized, Sufficient
<1>3. ASSUME NEW a \in Operands, NEW b \in Operands, MagMul(a, b) PROVE Presized'
  <2>1. cap \in Nat /\ MulWS(a, b) \in Nat
    BY MulAssumption, MulWSCovers DEF IInv, TypeOK
  <2>2. \A c \in Doubled(MulWS(a, b)) : c \in Nat /\ c >= MulWS(a, b)
    BY <2>1 DEF Doubled
  <2> QED  BY <1>1, <1>2, <1>3, <2>1, <2>2 DEF MagMul
<1>4. ASSUME NEW held \in HeldLimbs, NEW a \in Operands, NEW b \in Operands,
             KernelMul(held, a, b)
      PROVE  Presized'
  BY <1>4 DEF KernelMul, MulDisp, Presized
<1> QED
  BY <1>1, <1>3, <1>4
     DEF Next, BaseCase, OpenFrame, Recurse, PropagateOverflow, Recompose, vars

\* For every operand MAGMUL multiplies in the arena it has sized, no frame of the
\* recursion overflows it.
THEOREM MulMagMulFits == Spec => []MagMulFits
<1>1. Init => Presized
  BY DEF Init, Presized
<1>2. IInv /\ Presized => MagMulFits
  <2> SUFFICES ASSUME IInv, Presized PROVE MagMulFits
    OBVIOUS
  <2>1. Sufficient => ~ (entry + WS(Outermost) > cap)
    <3>1. entry \in Nat /\ cap \in Nat /\ WS(Outermost) \in Nat
      BY WSType DEF IInv, TypeOK, WS, Outermost
    <3> QED  BY <3>1 DEF Sufficient
  <2> QED  BY <2>1 DEF IInv, WorkspaceSuffices, Presized, MagMulFits
<1> QED  BY <1>1, <1>2, MulInvariant, PresizedStep, PTL DEF Spec

-----------------------------------------------------------------------------
(* The kernels, in terms of the values they return. *)

LEMMA SignedProductIs == \A v, w \in Int : SignedProduct(v, w) = v * w
<1> SUFFICES ASSUME NEW v \in Int, NEW w \in Int PROVE SignedProduct(v, w) = v * w
  OBVIOUS
<1>1. CASE v < 0 /\ w < 0
  BY <1>1, SMT DEF SignedProduct, Sgn, Mag
<1>2. CASE v < 0 /\ ~(w < 0)
  BY <1>2, SMT DEF SignedProduct, Sgn, Mag
<1>3. CASE ~(v < 0) /\ w < 0
  BY <1>3, SMT DEF SignedProduct, Sgn, Mag
<1>4. CASE ~(v < 0) /\ ~(w < 0)
  BY <1>4, SMT DEF SignedProduct, Sgn, Mag
<1> QED  BY <1>1, <1>2, <1>3, <1>4

\* On a multiple of the divisor, the truncating divisions are exact.
LEMMA Div3Exact == \A v \in Int : Div3(3 * v) = v
  BY SMT DEF Div3, Sgn, Mag

LEMMA HalveExact == \A v \in Int : Halve(2 * v) = v
  BY SMT DEF Halve, Sgn, Mag

LEMMA MagNat == \A v \in Int : v >= 0 => Mag(v) = v
  BY SMT DEF Mag

-----------------------------------------------------------------------------
(* The polynomial of the product and its values. *)

LEMMA PartsNat == AlgebraTypeOK => \A i \in 0 .. 2 : m[i] \in Nat /\ n[i] \in Nat
  BY DEF AlgebraTypeOK

LEMMA NatProduct == \A v, w \in Nat : v * w \in Nat
  BY SMT

LEMMA CoefficientsNat ==
  AlgebraTypeOK => C0 \in Nat /\ C1 \in Nat /\ C2 \in Nat /\ C3 \in Nat /\ C4 \in Nat
<1> SUFFICES ASSUME AlgebraTypeOK
             PROVE  C0 \in Nat /\ C1 \in Nat /\ C2 \in Nat /\ C3 \in Nat /\ C4 \in Nat
  OBVIOUS
<1>1. \A i, j \in 0 .. 2 : m[i] * n[j] \in Nat
  BY PartsNat, NatProduct
<1>2. /\ m[0]*n[0] \in Nat /\ m[0]*n[1] \in Nat /\ m[0]*n[2] \in Nat
      /\ m[1]*n[0] \in Nat /\ m[1]*n[1] \in Nat /\ m[1]*n[2] \in Nat
      /\ m[2]*n[0] \in Nat /\ m[2]*n[1] \in Nat /\ m[2]*n[2] \in Nat
  BY <1>1, SMT
<1> QED  BY <1>2, SMT DEF C0, C1, C2, C3, C4

LEMMA Expand1 ==
  ASSUME NEW a \in Int, NEW b \in Int, NEW c \in Int, NEW d \in Int, NEW e \in Int, NEW f \in Int
  PROVE  (a + b + c) * (d + e + f)
           = a*d + (a*e + b*d) + (a*f + b*e + c*d) + (b*f + c*e) + c*f
  BY SMT

LEMMA ExpandNeg1 ==
  ASSUME NEW a \in Int, NEW b \in Int, NEW c \in Int, NEW d \in Int, NEW e \in Int, NEW f \in Int
  PROVE  (a - b + c) * (d - e + f)
           = a*d - (a*e + b*d) + (a*f + b*e + c*d) - (b*f + c*e) + c*f
  BY SMT

LEMMA ExpandNeg2 ==
  ASSUME NEW a \in Int, NEW b \in Int, NEW c \in Int, NEW d \in Int, NEW e \in Int, NEW f \in Int
  PROVE  (a - 2*b + 4*c) * (d - 2*e + 4*f)
           = a*d - 2 * (a*e + b*d) + 4 * (a*f + b*e + c*d) - 8 * (b*f + c*e) + 16 * (c*f)
  BY SMT

LEMMA SameOperands ==
  UNCHANGED operands => /\ C0' = C0 /\ C1' = C1 /\ C2' = C2 /\ C3' = C3 /\ C4' = C4
                        /\ Product' = Product /\ UNCHANGED <<m, n, weight>>
  BY DEF operands, C0, C1, C2, C3, C4, Product

-----------------------------------------------------------------------------
(* Init and the steps of Karatsuba. *)

LEMMA AlgebraStarts == AlgebraInit => AlgebraInv
<1> SUFFICES ASSUME AlgebraInit PROVE AlgebraInv
  OBVIOUS
<1>1. AlgebraTypeOK
  <2>1. m \in [0 .. 2 -> Nat] /\ n \in [0 .. 2 -> Nat] /\ weight \in Nat
    BY AlgebraAssumption DEF AlgebraInit
  <2>2. pc \in Labels
    BY DEF AlgebraInit, Labels
  <2> QED  BY <2>1, <2>2, SMT DEF AlgebraInit, AlgebraTypeOK
<1>2. CASE pc = "toom3"
  BY <1>1, <1>2 DEF AlgebraInv, KaratsubaInv, Toom3Inv, ResultIsProduct
<1>3. CASE pc = "karatsuba" /\ m[2] = 0 /\ n[2] = 0
  BY <1>1, <1>3 DEF AlgebraInit, AlgebraInv, KaratsubaInv, Toom3Inv, ResultIsProduct
<1> QED  BY <1>2, <1>3 DEF AlgebraInit

\* With the third parts zero, the product has three coefficients.
LEMMA TwoParts ==
  AlgebraTypeOK /\ m[2] = 0 /\ n[2] = 0 =>
    /\ C2 = m[1] * n[1] /\ C3 = 0 /\ C4 = 0
    /\ (m[0] + m[1]) * (n[0] + n[1]) = C0 + C1 + C2
<1> SUFFICES ASSUME AlgebraTypeOK, m[2] = 0, n[2] = 0
             PROVE  /\ C2 = m[1] * n[1] /\ C3 = 0 /\ C4 = 0
                    /\ (m[0] + m[1]) * (n[0] + n[1]) = C0 + C1 + C2
  OBVIOUS
<1> DEFINE a == m[0]  b == m[1]  d == n[0]  e == n[1]
<1>1. a \in Nat /\ b \in Nat /\ d \in Nat /\ e \in Nat
  BY PartsNat
<1>2. C0 = a*d /\ C1 = a*e + b*d /\ C2 = a*0 + b*e + 0*d /\ C3 = b*0 + 0*e /\ C4 = 0*0
  BY DEF C0, C1, C2, C3, C4
<1> HIDE DEF a, b, d, e
<1>3. /\ C2 = b*e /\ C3 = 0 /\ C4 = 0
  BY <1>1, <1>2, SMT
<1>4. (a + b) * (d + e) = a*d + (a*e + b*d) + b*e
  BY <1>1, SMT
<1>5. (a + b) * (d + e) = C0 + C1 + C2
  BY <1>2, <1>3, <1>4
<1> QED  BY <1>3, <1>5 DEF a, b, d, e

LEMMA KaratsubaProductsStep == AlgebraInv /\ KaratsubaProducts => AlgebraInv'
<1> SUFFICES ASSUME AlgebraInv, KaratsubaProducts PROVE AlgebraInv'
  OBVIOUS
<1>1. AlgebraTypeOK /\ pc = "karatsuba" /\ pc' = "z1-z2" /\ UNCHANGED operands
  BY DEF AlgebraInv, KaratsubaProducts, Step, Goto
<1>2. m[2] = 0 /\ n[2] = 0 /\ r_neg1' = 0 /\ r_neg2' = 0
  BY <1>1 DEF AlgebraInv, KaratsubaInv, KaratsubaProducts
<1>3. /\ p1' = m[0] + m[1] /\ q1' = n[0] + n[1]
      /\ r0' = C0 /\ rinf' = C2 /\ r1' = C0 + C1 + C2
  BY <1>1, <1>2, TwoParts DEF KaratsubaProducts, C0
<1>4. C0 \in Nat /\ C1 \in Nat /\ C2 \in Nat /\ \A i \in 0 .. 2 : m[i] \in Nat /\ n[i] \in Nat
  BY <1>1, CoefficientsNat, PartsNat
<1>5. /\ C0' = C0 /\ C1' = C1 /\ C2' = C2 /\ UNCHANGED <<m, n, weight>>
  BY <1>1, SameOperands
<1>6. AlgebraTypeOK'
  <2>1. p1' \in Int /\ q1' \in Int /\ r0' \in Int /\ r1' \in Int /\ rinf' \in Int
    BY <1>3, <1>4, SMT
  <2>2. r_neg1' \in Int /\ r_neg2' \in Int
    BY <1>2
  <2> QED  BY <1>1, <1>5, <2>1, <2>2 DEF AlgebraTypeOK, KaratsubaProducts, Labels
<1>7. KaratsubaInv'
  BY <1>1, <1>2, <1>3, <1>5 DEF KaratsubaInv, Temporaries
<1>8. Toom3Inv' /\ ResultIsProduct'
  BY <1>1 DEF Toom3Inv, ResultIsProduct
<1> QED  BY <1>6, <1>7, <1>8 DEF AlgebraInv

LEMMA SubtractZ2Step == AlgebraInv /\ SubtractZ2 => AlgebraInv'
<1> SUFFICES ASSUME AlgebraInv, SubtractZ2 PROVE AlgebraInv'
  OBVIOUS
<1>1. AlgebraTypeOK /\ pc = "z1-z2" /\ pc' = "z1-z0" /\ UNCHANGED operands
  BY DEF AlgebraInv, SubtractZ2, Step, Goto
<1>2. m[2] = 0 /\ n[2] = 0 /\ Temporaries(C0 + C1 + C2, 0, 0, C2)
  BY <1>1 DEF AlgebraInv, KaratsubaInv
<1>3. C0 \in Nat /\ C1 \in Nat /\ C2 \in Nat
  BY <1>1, CoefficientsNat
<1>4. r1' = C0 + C1 /\ r1' \in Int
  BY <1>2, <1>3, SMT DEF SubtractZ2, Temporaries
<1>5. /\ C0' = C0 /\ C1' = C1 /\ C2' = C2 /\ UNCHANGED <<m, n, weight>>
  BY <1>1, SameOperands
<1>6. AlgebraTypeOK'
  BY <1>1, <1>4, <1>5 DEF AlgebraTypeOK, SubtractZ2, points, Labels
<1>7. KaratsubaInv'
  BY <1>1, <1>2, <1>4, <1>5 DEF KaratsubaInv, Temporaries, SubtractZ2
<1>8. Toom3Inv' /\ ResultIsProduct'
  BY <1>1 DEF Toom3Inv, ResultIsProduct
<1> QED  BY <1>6, <1>7, <1>8 DEF AlgebraInv

LEMMA SubtractZ0Step == AlgebraInv /\ SubtractZ0 => AlgebraInv'
<1> SUFFICES ASSUME AlgebraInv, SubtractZ0 PROVE AlgebraInv'
  OBVIOUS
<1>1. AlgebraTypeOK /\ pc = "z1-z0" /\ pc' = "karatsuba sum" /\ UNCHANGED operands
  BY DEF AlgebraInv, SubtractZ0, Step, Goto
<1>2. m[2] = 0 /\ n[2] = 0 /\ Temporaries(C0 + C1, 0, 0, C2)
  BY <1>1 DEF AlgebraInv, KaratsubaInv
<1>3. C0 \in Nat /\ C1 \in Nat /\ C2 \in Nat
  BY <1>1, CoefficientsNat
<1>4. r1' = C1 /\ r1' \in Int
  <2>1. r1 = C0 + C1 /\ r0 = C0 /\ r1' = r1 - r0
    BY <1>2 DEF SubtractZ0, Temporaries
  <2> QED  BY <1>3, <2>1, SMT
<1>5. /\ C0' = C0 /\ C1' = C1 /\ C2' = C2 /\ UNCHANGED <<m, n, weight>>
  BY <1>1, SameOperands
<1>6. AlgebraTypeOK'
  BY <1>1, <1>4, <1>5 DEF AlgebraTypeOK, SubtractZ0, points, Labels
<1>7. KaratsubaInv'
  BY <1>1, <1>2, <1>4, <1>5 DEF KaratsubaInv, Temporaries, SubtractZ0
<1>8. Toom3Inv' /\ ResultIsProduct'
  BY <1>1 DEF Toom3Inv, ResultIsProduct
<1> QED  BY <1>6, <1>7, <1>8 DEF AlgebraInv

LEMMA KaratsubaSumStep == AlgebraInv /\ KaratsubaSum => AlgebraInv'
<1> SUFFICES ASSUME AlgebraInv, KaratsubaSum PROVE AlgebraInv'
  OBVIOUS
<1>1. AlgebraTypeOK /\ pc = "karatsuba sum" /\ pc' = "done" /\ UNCHANGED operands
  BY DEF AlgebraInv, KaratsubaSum, Step, Goto
<1>2. m[2] = 0 /\ n[2] = 0 /\ Temporaries(C1, 0, 0, C2)
  BY <1>1 DEF AlgebraInv, KaratsubaInv
<1>3. C0 \in Nat /\ C1 \in Nat /\ C2 \in Nat /\ C3 = 0 /\ C4 = 0 /\ weight \in Nat
  BY <1>1, <1>2, CoefficientsNat, TwoParts DEF AlgebraTypeOK
<1>4. res' = C0 + C1 * weight + C2 * (weight * weight)
  <2>1. r0 = C0 /\ r1 = C1 /\ rinf = C2
    BY <1>2 DEF Temporaries
  <2>2. Mag(r1) = C1
    BY <1>3, <2>1, MagNat, SMT
  <2> QED  BY <2>1, <2>2 DEF KaratsubaSum
<1>5. Product = C0 + C1 * weight + C2 * (weight * weight)
  <2> DEFINE w2 == weight * weight  w3 == w2 * weight  w4 == w2 * w2
  <2>1. w2 \in Nat /\ w3 \in Nat /\ w4 \in Nat
    BY <1>3, NatProduct
  <2>2. Product = C0 + C1 * weight + C2 * w2 + C3 * w3 + C4 * w4
    BY DEF Product
  <2> HIDE DEF w3, w4
  <2>3. C3 * w3 = 0 /\ C4 * w4 = 0
    BY <1>3, <2>1, SMT
  <2> QED  BY <1>3, <2>1, <2>2, <2>3, NatProduct, SMT
<1>6. res' \in Int
  BY <1>3, <1>4, NatProduct, SMT
<1>7. UNCHANGED <<m, n, weight>> /\ Product' = Product
  BY <1>1, SameOperands
<1>8. AlgebraTypeOK'
  BY <1>1, <1>6, <1>7 DEF AlgebraTypeOK, KaratsubaSum, points, Labels
<1>9. KaratsubaInv' /\ Toom3Inv'
  BY <1>1 DEF KaratsubaInv, Toom3Inv
<1>10. ResultIsProduct'
  BY <1>4, <1>5, <1>7 DEF ResultIsProduct
<1> QED  BY <1>8, <1>9, <1>10 DEF AlgebraInv

-----------------------------------------------------------------------------
(* The steps of Toom-3. *)

LEMMA EvaluateStep == AlgebraInv /\ Evaluate => AlgebraInv'
<1> SUFFICES ASSUME AlgebraInv, Evaluate PROVE AlgebraInv'
  OBVIOUS
<1>1. AlgebraTypeOK /\ pc' = "multiply" /\ UNCHANGED operands
  BY DEF AlgebraInv, Evaluate, Step, Goto
<1>2. UNCHANGED <<m, n, weight>>
  BY <1>1, SameOperands
<1>3. \A i \in 0 .. 2 : m[i] \in Nat /\ n[i] \in Nat
  BY <1>1, PartsNat
<1>4. /\ p1' = m[0] + m[1] + m[2] /\ p1' \in Int
      /\ p_neg1' = m[0] - m[1] + m[2] /\ p_neg1' \in Int
      /\ p_neg2' = m[0] - 2*m[1] + 4*m[2] /\ p_neg2' \in Int
  <2> DEFINE a == m[0]  b == m[1]  c == m[2]
  <2>1. a \in Nat /\ b \in Nat /\ c \in Nat
    BY <1>3
  <2>2. p1' = a + c + b /\ p_neg1' = a + c - b /\ p_neg2' = 2 * (p_neg1' + c) - a
    BY DEF Evaluate, Double
  <2> HIDE DEF a, b, c
  <2>3. /\ p1' = a + b + c /\ p1' \in Int
        /\ p_neg1' = a - b + c /\ p_neg1' \in Int
        /\ p_neg2' = a - 2*b + 4*c /\ p_neg2' \in Int
    BY <2>1, <2>2, SMT
  <2> QED  BY <2>3 DEF a, b, c
<1>5. /\ q1' = n[0] + n[1] + n[2] /\ q1' \in Int
      /\ q_neg1' = n[0] - n[1] + n[2] /\ q_neg1' \in Int
      /\ q_neg2' = n[0] - 2*n[1] + 4*n[2] /\ q_neg2' \in Int
  <2> DEFINE a == n[0]  b == n[1]  c == n[2]
  <2>1. a \in Nat /\ b \in Nat /\ c \in Nat
    BY <1>3
  <2>2. q1' = a + c + b /\ q_neg1' = a + c - b /\ q_neg2' = 2 * (q_neg1' + c) - a
    BY DEF Evaluate, Double
  <2> HIDE DEF a, b, c
  <2>3. /\ q1' = a + b + c /\ q1' \in Int
        /\ q_neg1' = a - b + c /\ q_neg1' \in Int
        /\ q_neg2' = a - 2*b + 4*c /\ q_neg2' \in Int
    BY <2>1, <2>2, SMT
  <2> QED  BY <2>3 DEF a, b, c
<1>6. AlgebraTypeOK'
  BY <1>1, <1>2, <1>4, <1>5 DEF AlgebraTypeOK, Evaluate, products, Labels
<1>7. Toom3Inv'
  BY <1>1, <1>2, <1>4, <1>5 DEF Toom3Inv
<1>8. KaratsubaInv' /\ ResultIsProduct'
  BY <1>1 DEF KaratsubaInv, ResultIsProduct
<1> QED  BY <1>6, <1>7, <1>8 DEF AlgebraInv

LEMMA MultiplyStep == AlgebraInv /\ Multiply => AlgebraInv'
<1> SUFFICES ASSUME AlgebraInv, Multiply PROVE AlgebraInv'
  OBVIOUS
<1>1. AlgebraTypeOK /\ pc = "multiply" /\ pc' = "r3 = (r3 - r1) / 3" /\ UNCHANGED operands
  BY DEF AlgebraInv, Multiply, Step, Goto
<1> DEFINE a == m[0]  b == m[1]  c == m[2]  d == n[0]  e == n[1]  f == n[2]
<1>2. a \in Nat /\ b \in Nat /\ c \in Nat /\ d \in Nat /\ e \in Nat /\ f \in Nat
  <2>1. \A i \in 0 .. 2 : m[i] \in Nat /\ n[i] \in Nat
    BY <1>1, PartsNat
  <2> QED  BY <2>1
<1>3. /\ p1 = a + b + c /\ q1 = d + e + f
      /\ p_neg1 = a - b + c /\ q_neg1 = d - e + f
      /\ p_neg2 = a - 2*b + 4*c /\ q_neg2 = d - 2*e + 4*f
  BY <1>1 DEF AlgebraInv, Toom3Inv
<1>4. /\ r0' = a * d /\ rinf' = c * f
      /\ r1' = SignedProduct(p1, q1)
      /\ r_neg1' = SignedProduct(p_neg1, q_neg1)
      /\ r_neg2' = SignedProduct(p_neg2, q_neg2)
  BY DEF Multiply
<1>5. /\ C0 = a*d /\ C1 = a*e + b*d /\ C2 = a*f + b*e + c*d
      /\ C3 = b*f + c*e /\ C4 = c*f
  BY DEF C0, C1, C2, C3, C4
<1> HIDE DEF a, b, c, d, e, f
<1>6. /\ p1 \in Int /\ q1 \in Int /\ p_neg1 \in Int /\ q_neg1 \in Int
      /\ p_neg2 \in Int /\ q_neg2 \in Int
  BY <1>1 DEF AlgebraTypeOK
<1>7. r1' = At1
  <2>1. r1' = (a + b + c) * (d + e + f)
    BY <1>3, <1>4, <1>6, SignedProductIs
  <2> QED  BY <1>2, <1>5, <2>1, Expand1, SMT DEF At1
<1>8. r_neg1' = AtNeg1
  <2>1. r_neg1' = (a - b + c) * (d - e + f)
    BY <1>3, <1>4, <1>6, SignedProductIs
  <2> QED  BY <1>2, <1>5, <2>1, ExpandNeg1, SMT DEF AtNeg1
<1>9. r_neg2' = AtNeg2
  <2>1. r_neg2' = (a - 2*b + 4*c) * (d - 2*e + 4*f)
    BY <1>3, <1>4, <1>6, SignedProductIs
  <2> QED  BY <1>2, <1>5, <2>1, ExpandNeg2, SMT DEF AtNeg2
<1>10. C0 \in Nat /\ C1 \in Nat /\ C2 \in Nat /\ C3 \in Nat /\ C4 \in Nat
  BY <1>1, CoefficientsNat
<1>11. /\ r0' \in Int /\ r1' \in Int /\ r_neg1' \in Int /\ r_neg2' \in Int /\ rinf' \in Int
  BY <1>4, <1>5, <1>7, <1>8, <1>9, <1>10, SMT DEF At1, AtNeg1, AtNeg2
<1>12. /\ C0' = C0 /\ C1' = C1 /\ C2' = C2 /\ C3' = C3 /\ C4' = C4
       /\ UNCHANGED <<m, n, weight>>
  BY <1>1, SameOperands
<1>13. AlgebraTypeOK'
  BY <1>1, <1>11, <1>12 DEF AlgebraTypeOK, Multiply, points, Labels
<1>14. Toom3Inv'
  BY <1>1, <1>4, <1>5, <1>7, <1>8, <1>9, <1>12
  DEF Toom3Inv, Temporaries, At1, AtNeg1, AtNeg2
<1>15. KaratsubaInv' /\ ResultIsProduct'
  BY <1>1 DEF KaratsubaInv, ResultIsProduct
<1> QED  BY <1>13, <1>14, <1>15 DEF AlgebraInv

LEMMA Interpolate1Step == AlgebraInv /\ Interpolate1 => AlgebraInv'
<1> SUFFICES ASSUME AlgebraInv, Interpolate1 PROVE AlgebraInv'
  OBVIOUS
<1>1. AlgebraTypeOK /\ pc = "r3 = (r3 - r1) / 3" /\ pc' = "r1 = (r1 - r2) / 2" /\ UNCHANGED operands
  BY DEF AlgebraInv, Interpolate1, Step, Goto
<1>2. Temporaries(At1, AtNeg1, AtNeg2, C4)
  BY <1>1 DEF AlgebraInv, Toom3Inv
<1>3. C0 \in Nat /\ C1 \in Nat /\ C2 \in Nat /\ C3 \in Nat /\ C4 \in Nat
  BY <1>1, CoefficientsNat
<1>4. r_neg2' = C2 - C1 - 3*C3 + 5*C4 /\ r_neg2' \in Int
  <2>1. r_neg2' = Div3((C0 - 2 * C1 + 4 * C2 - 8 * C3 + 16 * C4) - (C0 + C1 + C2 + C3 + C4))
    BY <1>2 DEF Interpolate1, Temporaries, At1, AtNeg2
  <2>2. (C0 - 2 * C1 + 4 * C2 - 8 * C3 + 16 * C4) - (C0 + C1 + C2 + C3 + C4) = 3 * (C2 - C1 - 3*C3 + 5*C4)
    BY <1>3, SMT
  <2>3. C2 - C1 - 3*C3 + 5*C4 \in Int
    BY <1>3, SMT
  <2> QED  BY <2>1, <2>2, <2>3, Div3Exact
<1>5. /\ C0' = C0 /\ C1' = C1 /\ C2' = C2 /\ C3' = C3 /\ C4' = C4
      /\ UNCHANGED <<m, n, weight>>
  BY <1>1, SameOperands
<1>6. AlgebraTypeOK'
  BY <1>1, <1>4, <1>5 DEF AlgebraTypeOK, Interpolate1, points, Labels
<1>7. Toom3Inv'
  BY <1>1, <1>2, <1>4, <1>5 DEF Toom3Inv, Temporaries, Interpolate1, At1, AtNeg1
<1>8. KaratsubaInv' /\ ResultIsProduct'
  BY <1>1 DEF KaratsubaInv, ResultIsProduct
<1> QED  BY <1>6, <1>7, <1>8 DEF AlgebraInv

LEMMA Interpolate2Step == AlgebraInv /\ Interpolate2 => AlgebraInv'
<1> SUFFICES ASSUME AlgebraInv, Interpolate2 PROVE AlgebraInv'
  OBVIOUS
<1>1. AlgebraTypeOK /\ pc = "r1 = (r1 - r2) / 2" /\ pc' = "r2 = r2 - r0" /\ UNCHANGED operands
  BY DEF AlgebraInv, Interpolate2, Step, Goto
<1>2. Temporaries(At1, AtNeg1, C2 - C1 - 3*C3 + 5*C4, C4)
  BY <1>1 DEF AlgebraInv, Toom3Inv
<1>3. C0 \in Nat /\ C1 \in Nat /\ C2 \in Nat /\ C3 \in Nat /\ C4 \in Nat
  BY <1>1, CoefficientsNat
<1>4. r1' = C1 + C3 /\ r1' \in Int
  <2>1. r1' = Halve((C0 + C1 + C2 + C3 + C4) - (C0 - C1 + C2 - C3 + C4))
    BY <1>2 DEF Interpolate2, Temporaries, At1, AtNeg1
  <2>2. (C0 + C1 + C2 + C3 + C4) - (C0 - C1 + C2 - C3 + C4) = 2 * (C1 + C3) /\ C1 + C3 \in Int
    BY <1>3, SMT
  <2> QED  BY <2>1, <2>2, HalveExact
<1>5. /\ C0' = C0 /\ C1' = C1 /\ C2' = C2 /\ C3' = C3 /\ C4' = C4
      /\ UNCHANGED <<m, n, weight>>
  BY <1>1, SameOperands
<1>6. AlgebraTypeOK'
  BY <1>1, <1>4, <1>5 DEF AlgebraTypeOK, Interpolate2, points, Labels
<1>7. Toom3Inv'
  BY <1>1, <1>2, <1>4, <1>5 DEF Toom3Inv, Temporaries, Interpolate2, At1, AtNeg1
<1>8. KaratsubaInv' /\ ResultIsProduct'
  BY <1>1 DEF KaratsubaInv, ResultIsProduct
<1> QED  BY <1>6, <1>7, <1>8 DEF AlgebraInv

LEMMA Interpolate3Step == AlgebraInv /\ Interpolate3 => AlgebraInv'
<1> SUFFICES ASSUME AlgebraInv, Interpolate3 PROVE AlgebraInv'
  OBVIOUS
<1>1. AlgebraTypeOK /\ pc = "r2 = r2 - r0" /\ pc' = "r3 = (r2 - r3) / 2" /\ UNCHANGED operands
  BY DEF AlgebraInv, Interpolate3, Step, Goto
<1>2. Temporaries(C1 + C3, AtNeg1, C2 - C1 - 3*C3 + 5*C4, C4)
  BY <1>1 DEF AlgebraInv, Toom3Inv
<1>3. C0 \in Nat /\ C1 \in Nat /\ C2 \in Nat /\ C3 \in Nat /\ C4 \in Nat
  BY <1>1, CoefficientsNat
<1>4. r_neg1' = AtNeg1 - C0 /\ r_neg1' \in Int
  <2>1. r_neg1' = AtNeg1 - C0
    BY <1>2 DEF Interpolate3, Temporaries
  <2>2. AtNeg1 - C0 \in Int
    BY <1>3, SMT DEF AtNeg1
  <2> QED  BY <2>1, <2>2
<1>5. /\ C0' = C0 /\ C1' = C1 /\ C2' = C2 /\ C3' = C3 /\ C4' = C4
      /\ UNCHANGED <<m, n, weight>>
  BY <1>1, SameOperands
<1>6. AlgebraTypeOK'
  BY <1>1, <1>4, <1>5 DEF AlgebraTypeOK, Interpolate3, points, Labels
<1>7. Toom3Inv'
  BY <1>1, <1>2, <1>4, <1>5 DEF Toom3Inv, Temporaries, Interpolate3, At1, AtNeg1
<1>8. KaratsubaInv' /\ ResultIsProduct'
  BY <1>1 DEF KaratsubaInv, ResultIsProduct
<1> QED  BY <1>6, <1>7, <1>8 DEF AlgebraInv

LEMMA Interpolate4Step == AlgebraInv /\ Interpolate4 => AlgebraInv'
<1> SUFFICES ASSUME AlgebraInv, Interpolate4 PROVE AlgebraInv'
  OBVIOUS
<1>1. AlgebraTypeOK /\ pc = "r3 = (r2 - r3) / 2" /\ pc' = "r3 = r3 + 2 rinf" /\ UNCHANGED operands
  BY DEF AlgebraInv, Interpolate4, Step, Goto
<1>2. Temporaries(C1 + C3, AtNeg1 - C0, C2 - C1 - 3*C3 + 5*C4, C4)
  BY <1>1 DEF AlgebraInv, Toom3Inv
<1>3. C0 \in Nat /\ C1 \in Nat /\ C2 \in Nat /\ C3 \in Nat /\ C4 \in Nat
  BY <1>1, CoefficientsNat
<1>4. r_neg2' = C3 - 2*C4 /\ r_neg2' \in Int
  <2>1. r_neg2' = Halve(((C0 - C1 + C2 - C3 + C4) - C0) - (C2 - C1 - 3*C3 + 5*C4))
    BY <1>2 DEF Interpolate4, Temporaries, AtNeg1
  <2>2. ((C0 - C1 + C2 - C3 + C4) - C0) - (C2 - C1 - 3*C3 + 5*C4) = 2 * (C3 - 2*C4) /\ C3 - 2*C4 \in Int
    BY <1>3, SMT
  <2> QED  BY <2>1, <2>2, HalveExact
<1>5. /\ C0' = C0 /\ C1' = C1 /\ C2' = C2 /\ C3' = C3 /\ C4' = C4
      /\ UNCHANGED <<m, n, weight>>
  BY <1>1, SameOperands
<1>6. AlgebraTypeOK'
  BY <1>1, <1>4, <1>5 DEF AlgebraTypeOK, Interpolate4, points, Labels
<1>7. Toom3Inv'
  BY <1>1, <1>2, <1>4, <1>5 DEF Toom3Inv, Temporaries, Interpolate4, At1, AtNeg1
<1>8. KaratsubaInv' /\ ResultIsProduct'
  BY <1>1 DEF KaratsubaInv, ResultIsProduct
<1> QED  BY <1>6, <1>7, <1>8 DEF AlgebraInv

LEMMA Interpolate5Step == AlgebraInv /\ Interpolate5 => AlgebraInv'
<1> SUFFICES ASSUME AlgebraInv, Interpolate5 PROVE AlgebraInv'
  OBVIOUS
<1>1. AlgebraTypeOK /\ pc = "r3 = r3 + 2 rinf" /\ pc' = "r2 = r2 + r1 - rinf" /\ UNCHANGED operands
  BY DEF AlgebraInv, Interpolate5, Step, Goto
<1>2. Temporaries(C1 + C3, AtNeg1 - C0, C3 - 2*C4, C4)
  BY <1>1 DEF AlgebraInv, Toom3Inv
<1>3. C0 \in Nat /\ C1 \in Nat /\ C2 \in Nat /\ C3 \in Nat /\ C4 \in Nat
  BY <1>1, CoefficientsNat
<1>4. rinf' = 2*C4 /\ rinf' \in Int /\ r_neg2' = C3 /\ r_neg2' \in Int
  <2>1. rinf' = 2 * C4 /\ r_neg2' = (C3 - 2*C4) + 2 * C4
    BY <1>2 DEF Interpolate5, Temporaries, Double
  <2> QED  BY <1>3, <2>1, SMT
<1>5. /\ C0' = C0 /\ C1' = C1 /\ C2' = C2 /\ C3' = C3 /\ C4' = C4
      /\ UNCHANGED <<m, n, weight>>
  BY <1>1, SameOperands
<1>6. AlgebraTypeOK'
  BY <1>1, <1>4, <1>5 DEF AlgebraTypeOK, Interpolate5, points, Labels
<1>7. Toom3Inv'
  BY <1>1, <1>2, <1>4, <1>5 DEF Toom3Inv, Temporaries, Interpolate5, At1, AtNeg1
<1>8. KaratsubaInv' /\ ResultIsProduct'
  BY <1>1 DEF KaratsubaInv, ResultIsProduct
<1> QED  BY <1>6, <1>7, <1>8 DEF AlgebraInv

LEMMA Interpolate6Step == AlgebraInv /\ Interpolate6 => AlgebraInv'
<1> SUFFICES ASSUME AlgebraInv, Interpolate6 PROVE AlgebraInv'
  OBVIOUS
<1>1. AlgebraTypeOK /\ pc = "r2 = r2 + r1 - rinf" /\ pc' = "r1 = r1 - r3" /\ UNCHANGED operands
  BY DEF AlgebraInv, Interpolate6, Step, Goto
<1>2. Temporaries(C1 + C3, AtNeg1 - C0, C3, 2*C4)
  BY <1>1 DEF AlgebraInv, Toom3Inv
<1>3. C0 \in Nat /\ C1 \in Nat /\ C2 \in Nat /\ C3 \in Nat /\ C4 \in Nat
  BY <1>1, CoefficientsNat
<1>4. rinf' = C4 /\ rinf' \in Int /\ r_neg1' = C2 /\ r_neg1' \in Int
  <2>1. rinf' = C4
    <3>1. rinf' = Halve(2 * C4)
      BY <1>2 DEF Interpolate6, Temporaries
    <3> QED  BY <1>3, <3>1, HalveExact
  <2>2. r_neg1' = (C0 - C1 + C2 - C3 + C4) - C0 + (C1 + C3) - C4
    BY <1>2, <2>1 DEF Interpolate6, Temporaries, AtNeg1
  <2> QED  BY <1>3, <2>1, <2>2, SMT
<1>5. /\ C0' = C0 /\ C1' = C1 /\ C2' = C2 /\ C3' = C3 /\ C4' = C4
      /\ UNCHANGED <<m, n, weight>>
  BY <1>1, SameOperands
<1>6. AlgebraTypeOK'
  BY <1>1, <1>4, <1>5 DEF AlgebraTypeOK, Interpolate6, points, Labels
<1>7. Toom3Inv'
  BY <1>1, <1>2, <1>4, <1>5 DEF Toom3Inv, Temporaries, Interpolate6, At1, AtNeg1
<1>8. KaratsubaInv' /\ ResultIsProduct'
  BY <1>1 DEF KaratsubaInv, ResultIsProduct
<1> QED  BY <1>6, <1>7, <1>8 DEF AlgebraInv

LEMMA Interpolate7Step == AlgebraInv /\ Interpolate7 => AlgebraInv'
<1> SUFFICES ASSUME AlgebraInv, Interpolate7 PROVE AlgebraInv'
  OBVIOUS
<1>1. AlgebraTypeOK /\ pc = "r1 = r1 - r3" /\ pc' = "toom3 sum" /\ UNCHANGED operands
  BY DEF AlgebraInv, Interpolate7, Step, Goto
<1>2. Temporaries(C1 + C3, C2, C3, C4)
  BY <1>1 DEF AlgebraInv, Toom3Inv
<1>3. C0 \in Nat /\ C1 \in Nat /\ C2 \in Nat /\ C3 \in Nat /\ C4 \in Nat
  BY <1>1, CoefficientsNat
<1>4. r1' = C1 /\ r1' \in Int
  <2>1. r1' = (C1 + C3) - C3
    BY <1>2 DEF Interpolate7, Temporaries
  <2> QED  BY <1>3, <2>1, SMT
<1>5. /\ C0' = C0 /\ C1' = C1 /\ C2' = C2 /\ C3' = C3 /\ C4' = C4
      /\ UNCHANGED <<m, n, weight>>
  BY <1>1, SameOperands
<1>6. AlgebraTypeOK'
  BY <1>1, <1>4, <1>5 DEF AlgebraTypeOK, Interpolate7, points, Labels
<1>7. Toom3Inv'
  BY <1>1, <1>2, <1>4, <1>5 DEF Toom3Inv, Temporaries, Interpolate7, At1, AtNeg1
<1>8. KaratsubaInv' /\ ResultIsProduct'
  BY <1>1 DEF KaratsubaInv, ResultIsProduct
<1> QED  BY <1>6, <1>7, <1>8 DEF AlgebraInv

LEMMA Toom3SumStep == AlgebraInv /\ Toom3Sum => AlgebraInv'
<1> SUFFICES ASSUME AlgebraInv, Toom3Sum PROVE AlgebraInv'
  OBVIOUS
<1>1. AlgebraTypeOK /\ pc = "toom3 sum" /\ pc' = "done" /\ UNCHANGED operands
  BY DEF AlgebraInv, Toom3Sum, Step, Goto
<1>2. Temporaries(C1, C2, C3, C4)
  BY <1>1 DEF AlgebraInv, Toom3Inv
<1>3. C0 \in Nat /\ C1 \in Nat /\ C2 \in Nat /\ C3 \in Nat /\ C4 \in Nat /\ weight \in Nat
  BY <1>1, CoefficientsNat DEF AlgebraTypeOK
<1>4. res' = Product
  <2>1. r0 = C0 /\ r1 = C1 /\ r_neg1 = C2 /\ r_neg2 = C3 /\ rinf = C4
    BY <1>2 DEF Temporaries
  <2>2. Mag(r1) = C1 /\ Mag(r_neg1) = C2 /\ Mag(r_neg2) = C3
    BY <1>3, <2>1, MagNat, SMT
  <2> QED  BY <2>1, <2>2 DEF Toom3Sum, Product
<1>5. Product \in Int
  <2> DEFINE w2 == weight * weight  w3 == w2 * weight  w4 == w2 * w2
  <2>1. w2 \in Nat /\ w3 \in Nat /\ w4 \in Nat
    BY <1>3, NatProduct
  <2>2. Product = C0 + C1 * weight + C2 * w2 + C3 * w3 + C4 * w4
    BY DEF Product
  <2> HIDE DEF w2, w3, w4
  <2>3. C1 * weight \in Nat /\ C2 * w2 \in Nat /\ C3 * w3 \in Nat /\ C4 * w4 \in Nat
    BY <1>3, <2>1, NatProduct
  <2> QED  BY <1>3, <2>2, <2>3, SMT
<1>6. UNCHANGED <<m, n, weight>> /\ Product' = Product
  BY <1>1, SameOperands
<1>7. AlgebraTypeOK'
  BY <1>1, <1>4, <1>5, <1>6 DEF AlgebraTypeOK, Toom3Sum, points, products, Labels
<1>8. ResultIsProduct'
  BY <1>4, <1>6 DEF ResultIsProduct
<1>9. KaratsubaInv' /\ Toom3Inv'
  BY <1>1 DEF KaratsubaInv, Toom3Inv
<1> QED  BY <1>7, <1>8, <1>9 DEF AlgebraInv

LEMMA StutterStep == AlgebraInv /\ UNCHANGED algebra => AlgebraInv'
<1> SUFFICES ASSUME AlgebraInv, UNCHANGED algebra PROVE AlgebraInv'
  OBVIOUS
<1>1. UNCHANGED operands
  BY DEF algebra, operands
<1>2. AlgebraTypeOK'
  BY DEF AlgebraInv, AlgebraTypeOK, algebra
<1>3. KaratsubaInv'
  BY <1>1, SameOperands DEF AlgebraInv, KaratsubaInv, Temporaries, algebra
<1>4. Toom3Inv'
  BY <1>1, SameOperands DEF AlgebraInv, Toom3Inv, Temporaries, At1, AtNeg1, AtNeg2, algebra
<1>5. ResultIsProduct'
  BY <1>1, SameOperands DEF AlgebraInv, ResultIsProduct, algebra
<1> QED  BY <1>2, <1>3, <1>4, <1>5 DEF AlgebraInv

\* The temporaries of both algorithms are what the coefficients of the
\* product polynomial say at every statement (mul.c, Karatsuba and Toom-3).
THEOREM AlgebraInvariant == AlgebraSpec => []AlgebraInv
<1>1. AlgebraInv /\ [AlgebraNext]_algebra => AlgebraInv'
  BY KaratsubaProductsStep, SubtractZ2Step, SubtractZ0Step, KaratsubaSumStep,
     EvaluateStep, MultiplyStep, Interpolate1Step, Interpolate2Step, Interpolate3Step,
     Interpolate4Step, Interpolate5Step, Interpolate6Step, Interpolate7Step,
     Toom3SumStep, StutterStep
  DEF AlgebraNext, Karatsuba, Toom3
<1> QED  BY AlgebraStarts, <1>1, PTL DEF AlgebraSpec

\* For all parts and weights, Karatsuba and Toom-3 return the product of their
\* operands.
THEOREM AlgebraResultIsProduct == AlgebraSpec => []ResultIsProduct
<1>1. AlgebraInv => ResultIsProduct
  BY DEF AlgebraInv
<1> QED  BY AlgebraInvariant, <1>1, PTL

\* For all parts and weights, the division by three and the halvings of
\* Toom-3's interpolation leave no remainder.
THEOREM AlgebraDivisionsExact == AlgebraSpec => []DivisionsExact
<1>1. AlgebraInv => DivisionsExact
  <2> SUFFICES ASSUME AlgebraInv PROVE DivisionsExact
    OBVIOUS
  <2>1. C0 \in Nat /\ C1 \in Nat /\ C2 \in Nat /\ C3 \in Nat /\ C4 \in Nat
    BY CoefficientsNat DEF AlgebraInv
  <2>2. \A v \in Int : (3 * v) % 3 = 0 /\ (2 * v) % 2 = 0
    BY SMT
  <2>3. ASSUME pc = "r3 = (r3 - r1) / 3" PROVE (r_neg2 - r1) % 3 = 0
    <3>1. r_neg2 - r1 = AtNeg2 - At1
      BY <2>3 DEF AlgebraInv, Toom3Inv, Temporaries
    <3>2. AtNeg2 - At1 = 3 * (C2 - C1 - 3*C3 + 5*C4) /\ C2 - C1 - 3*C3 + 5*C4 \in Int
      BY <2>1, SMT DEF AtNeg2, At1
    <3> QED  BY <2>2, <3>1, <3>2
  <2>4. ASSUME pc = "r1 = (r1 - r2) / 2" PROVE (r1 - r_neg1) % 2 = 0
    <3>1. r1 - r_neg1 = At1 - AtNeg1
      BY <2>4 DEF AlgebraInv, Toom3Inv, Temporaries
    <3>2. At1 - AtNeg1 = 2 * (C1 + C3) /\ C1 + C3 \in Int
      BY <2>1, SMT DEF AtNeg1, At1
    <3> QED  BY <2>2, <3>1, <3>2
  <2>5. ASSUME pc = "r3 = (r2 - r3) / 2" PROVE (r_neg1 - r_neg2) % 2 = 0
    <3>1. r_neg1 - r_neg2 = (AtNeg1 - C0) - (C2 - C1 - 3*C3 + 5*C4)
      BY <2>5 DEF AlgebraInv, Toom3Inv, Temporaries
    <3>2. /\ (AtNeg1 - C0) - (C2 - C1 - 3*C3 + 5*C4) = 2 * (C3 - 2*C4)
          /\ C3 - 2*C4 \in Int
      BY <2>1, SMT DEF AtNeg1
    <3> QED  BY <2>2, <3>1, <3>2
  <2> QED  BY <2>3, <2>4, <2>5 DEF DivisionsExact
<1> QED  BY AlgebraInvariant, <1>1, PTL

\* For all parts and weights, the subtractions of Karatsuba never borrow out
\* and ADD_SHIFT never adds a negative coefficient.
THEOREM AlgebraMagnitudesSuffice == AlgebraSpec => []MagnitudesSuffice
<1>1. AlgebraInv => MagnitudesSuffice
  <2> SUFFICES ASSUME AlgebraInv PROVE MagnitudesSuffice
    OBVIOUS
  <2>1. C0 \in Nat /\ C1 \in Nat /\ C2 \in Nat /\ C3 \in Nat /\ C4 \in Nat
    BY CoefficientsNat DEF AlgebraInv
  <2>2. ASSUME pc = "z1-z2" PROVE r1 >= rinf
    <3>1. r1 = C0 + C1 + C2 /\ rinf = C2
      BY <2>2 DEF AlgebraInv, KaratsubaInv, Temporaries
    <3> QED  BY <2>1, <3>1, SMT
  <2>3. ASSUME pc = "z1-z0" PROVE r1 >= r0
    <3>1. r1 = C0 + C1 /\ r0 = C0
      BY <2>3 DEF AlgebraInv, KaratsubaInv, Temporaries
    <3> QED  BY <2>1, <3>1, SMT
  <2>4. ASSUME pc \in {"karatsuba sum", "toom3 sum"}
        PROVE  r0 >= 0 /\ r1 >= 0 /\ r_neg1 >= 0 /\ r_neg2 >= 0 /\ rinf >= 0
    <3>1. CASE pc = "karatsuba sum"
      <4>1. r0 = C0 /\ r1 = C1 /\ r_neg1 = 0 /\ r_neg2 = 0 /\ rinf = C2
        BY <3>1 DEF AlgebraInv, KaratsubaInv, Temporaries
      <4> QED  BY <2>1, <4>1, SMT
    <3>2. CASE pc = "toom3 sum"
      <4>1. r0 = C0 /\ r1 = C1 /\ r_neg1 = C2 /\ r_neg2 = C3 /\ rinf = C4
        BY <3>2 DEF AlgebraInv, Toom3Inv, Temporaries
      <4> QED  BY <2>1, <4>1, SMT
    <3> QED  BY <2>4, <3>1, <3>2
  <2> QED  BY <2>2, <2>3, <2>4 DEF MagnitudesSuffice
<1> QED  BY AlgebraInvariant, <1>1, PTL
=============================================================================
