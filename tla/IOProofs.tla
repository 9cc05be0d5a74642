------------------------------- MODULE IOProofs -------------------------------
(***************************************************************************)
(* Proofs about the text calls of BigIntIO: on every way out of every call *)
(* the I/O arena gets its blocks back, and a call that refuses, or has no  *)
(* room, leaves the number.  For every size of a limb and a word, and for  *)
(* any lines, numbers, bases and buffers.                                  *)
(***************************************************************************)
EXTENDS BigIntIO, FiniteSetTheorems, TLAPS

-----------------------------------------------------------------------------
(* The inductive invariant. *)

\* An arena that holds no block.
Free(a) == a = [cap |-> a.cap, held |-> 0, poisoned |-> a.poisoned] /\ a.poisoned \in BOOLEAN

Returns(status) == status \notin {"UNDEFINED", "ABORTED"}
Success(status) == status \in {"STR_SUCCESS", "STR_TRUNC_SUCCESS"}

Cleared(h) == [h EXCEPT !.val = 0, !.n = 0, !.sign = 1]

\* What a call fn, of a stream if stdin, makes of the number was when it ends with
\* status and leaves h.
Kept(fn, stdin, was, status, h) ==
  /\ Returns(status) /\ ~Success(status) =>
       \/ h = was
       \/ fn = "get_str" /\ h = [was EXCEPT !.cap = h.cap] /\ h.cap >= was.cap
       \/ fn = "scan" /\ stdin /\ h = Cleared(was)
  /\ Returns(status) /\ fn \in {"sget_str", "tget_str", "scan"} => h.cap = was.cap /\ h.n <= h.cap

IInv ==
  /\ Free(arena)
  /\ call.fn = "none" => x \in Objects \cup Printees
  /\ NumberKept

-----------------------------------------------------------------------------
(* Numbers *)

LEMMA NumberFields ==
  ASSUME NEW h \in Numbers
  PROVE  /\ h = [val |-> h.val, n |-> h.n, cap |-> h.cap, sign |-> h.sign]
         /\ h.n \in Nat /\ h.cap \in Nat /\ h.n <= h.cap /\ h.val \in Nat
BY DEF Numbers

\* All but the capacity replaced.
LEMMA Rewritten ==
  ASSUME NEW h \in Numbers, NEW v, NEW n, NEW s
  PROVE  [h EXCEPT !.val = v, !.n = n, !.sign = s] = [val |-> v, n |-> n, cap |-> h.cap, sign |-> s]
<1> DEFINE g == [h EXCEPT !.val = v]
<1> DEFINE k == [g EXCEPT !.n = n]
<1>1. PICK a, b, c, d : h = [val |-> a, n |-> b, cap |-> c, sign |-> d]
  BY NumberFields
<1>2. h.cap = c /\ g = [val |-> v, n |-> b, cap |-> c, sign |-> d]
  BY <1>1
<1>5. [h EXCEPT !.val = v, !.n = n, !.sign = s] = [k EXCEPT !.sign = s]
  OBVIOUS
<1> HIDE DEF g
<1>3. k = [val |-> v, n |-> n, cap |-> c, sign |-> d]
  BY <1>2
<1> HIDE DEF k
<1>4. [k EXCEPT !.sign = s] = [val |-> v, n |-> n, cap |-> c, sign |-> s]
  BY <1>3
<1> QED  BY <1>2, <1>4, <1>5, Zenon

\* A number whose capacity is replaced.
LEMMA Recapped ==
  ASSUME NEW h \in Numbers, NEW c
  PROVE  [h EXCEPT !.cap = c] = [val |-> h.val, n |-> h.n, cap |-> c, sign |-> h.sign]
BY NumberFields

-----------------------------------------------------------------------------
(* The arena *)

\* A block of an arena that holds nothing is granted, and can be given back, or the
\* arena is poisoned and holds nothing.
LEMMA GallocGivesBack ==
  ASSUME NEW a, Free(a), ~a.poisoned, NEW k \in Nat, NEW b \in Galloc(a, k)
  PROVE  IF b.poisoned THEN Free(b) ELSE Free(Rewound(b, a.held))
<1>1. PICK c : a = [cap |-> c, held |-> 0, poisoned |-> FALSE]
  BY DEF Free
<1>2. a.held = 0
  BY <1>1
<1>3. CASE b = [a EXCEPT !.poisoned = TRUE]
  <2>1. b = [cap |-> c, held |-> 0, poisoned |-> TRUE]
    BY <1>1, <1>3
  <2> QED  BY <2>1 DEF Free
<1>4. ASSUME NEW d, b = [cap |-> d, held |-> k, poisoned |-> FALSE]
      PROVE  ~b.poisoned /\ Free(Rewound(b, 0))
  <2> DEFINE z == IF 0 <= b.held THEN 0 ELSE b.held
  <2>2. z = 0 /\ Rewound(b, 0) = [b EXCEPT !.held = z]
    BY <1>4 DEF Rewound
  <2> HIDE DEF z
  <2>1. Rewound(b, 0) = [cap |-> d, held |-> 0, poisoned |-> FALSE]
    BY <1>4, <2>2
  <2> DEFINE r == Rewound(b, 0)
  <2>3. r = [cap |-> d, held |-> 0, poisoned |-> FALSE]
    BY <2>1
  <2> HIDE DEF r
  <2>4. r.cap = d /\ r.poisoned = FALSE
    BY <2>3
  <2>5. Free(r)
    BY <2>3, <2>4 DEF Free
  <2>6. b.poisoned = FALSE
    BY <1>4
  <2> QED  BY <2>5, <2>6 DEF r
<1>5. CASE b = [a EXCEPT !.held = @ + k]
  <2> DEFINE z == a.held + k
  <2>2. z = k /\ b = [a EXCEPT !.held = z]
    BY <1>1, <1>5
  <2> HIDE DEF z
  <2>1. b = [cap |-> c, held |-> k, poisoned |-> FALSE]
    BY <1>1, <2>2
  <2> QED  BY <2>1, <1>4, <1>2
<1>6. CASE b = [Grown(a, k) EXCEPT !.held = @ + k]
  <2>1. PICK d : Grown(a, k) = [a EXCEPT !.cap = d]
    BY Zenon DEF Grown
  <2>2. Grown(a, k) = [cap |-> d, held |-> 0, poisoned |-> FALSE]
    BY <1>1, <2>1
  <2> DEFINE g == Grown(a, k)
  <2> DEFINE z == g.held + k
  <2>4. z = k /\ b = [g EXCEPT !.held = z]
    BY <1>6, <2>2
  <2>5. g = [cap |-> d, held |-> 0, poisoned |-> FALSE]
    BY <2>2
  <2> HIDE DEF g, z
  <2>3. b = [cap |-> d, held |-> k, poisoned |-> FALSE]
    BY <2>4, <2>5
  <2> QED  BY <2>3, <1>4, <1>2
<1> QED  BY <1>3, <1>5, <1>6 DEF Galloc

\* The allocation of k words behind the assertion that the arena is not poisoned.
LEMMA GrantedFree ==
  ASSUME Free(arena), ~arena.poisoned, NEW k \in Nat
  PROVE  /\ \A a \in Granted(k) : Free(a)
         /\ \A h : \A o \in Ungranted(h, k) : \E a : o = Leaves(h, a, "DNML_ALLOC_OOM") /\ Free(a)
<1>1. \A b \in Galloc(arena, k) : IF b.poisoned THEN Free(b) ELSE Free(Rewound(b, arena.held))
  BY GallocGivesBack
<1>2. ASSUME NEW a \in Granted(k) PROVE Free(a)
  <2>1. PICK b \in Galloc(arena, k) : ~b.poisoned /\ a = Rewound(b, arena.held)
    BY DEF Granted
  <2> QED  BY <1>1, <2>1
<1>3. ASSUME NEW h, NEW o \in Ungranted(h, k)
      PROVE  \E a : o = Leaves(h, a, "DNML_ALLOC_OOM") /\ Free(a)
  <2>1. PICK b \in Galloc(arena, k) : b.poisoned /\ o = Leaves(h, b, "DNML_ALLOC_OOM")
    BY DEF Ungranted
  <2> QED  BY <1>1, <2>1
<1> QED  BY <1>2, <1>3

-----------------------------------------------------------------------------
(* Outcomes *)

\* The outcome o of a call of the given name leaves the arena free, and the number
\* as it was unless the call has done its work.
Good(fn, stdin, o) == Free(o.arena) /\ Kept(fn, stdin, x, o.status, o.x)

\* The outcome does not touch the number.
Untouched(o) == Free(o.arena) /\ o.x = x

LEMMA LeavesFields ==
  ASSUME NEW h, NEW a, NEW s
  PROVE  Leaves(h, a, s).x = h /\ Leaves(h, a, s).arena = a /\ Leaves(h, a, s).status = s
BY DEF Leaves

LEMMA UntouchedIsGood ==
  ASSUME x \in Numbers, NEW o, Untouched(o), NEW fn, NEW stdin
  PROVE  Good(fn, stdin, o)
BY NumberFields DEF Untouched, Good, Kept

LEMMA KeepsUntouched ==
  ASSUME NEW a, Free(a), NEW s, NEW o \in Keeps(a, s)
  PROVE  Untouched(o)
BY LeavesFields DEF Keeps, Untouched

\* What a call makes of an outcome that leaves the number is one of those.
LEMMA StillUntouched ==
  ASSUME NEW a, Free(a), NEW s, NEW t, NEW u
  PROVE  /\ Untouched(Leaves(x, a, s))
         /\ Untouched([Leaves(x, a, s) EXCEPT !.to = t, !.out = u])
         /\ Untouched([Leaves(x, a, s) EXCEPT !.status = t])
         /\ Untouched(Shows(a, s, t, u))
<1> DEFINE o == Leaves(x, a, s)
<1> DEFINE g == [o EXCEPT !.to = t]
<1>1. o = [x |-> x, arena |-> a, status |-> s, out |-> <<>>, to |-> "none"]
  BY DEF Leaves
<1>2. [o EXCEPT !.to = t, !.out = u] = [g EXCEPT !.out = u]
  OBVIOUS
<1>3. Shows(a, s, t, u) = [g EXCEPT !.out = u]
  BY <1>2 DEF Shows
<1> HIDE DEF o
<1>4. g = [x |-> x, arena |-> a, status |-> s, out |-> <<>>, to |-> t]
  BY <1>1
<1> HIDE DEF g
<1>5. [g EXCEPT !.out = u] = [x |-> x, arena |-> a, status |-> s, out |-> u, to |-> t]
  BY <1>4
<1>6. Untouched([g EXCEPT !.out = u])
  BY <1>5 DEF Untouched
<1>7. [o EXCEPT !.status = t] = [x |-> x, arena |-> a, status |-> t, out |-> <<>>, to |-> "none"]
  BY <1>1
<1>8. Untouched([o EXCEPT !.status = t]) /\ Untouched(o)
  BY <1>1, <1>7 DEF Untouched
<1> QED  BY <1>2, <1>3, <1>6, <1>8, Zenon DEF o

\* An allocation for a call that has made h of the number.
LEMMA AllocatesFree ==
  ASSUME Free(arena), ~arena.poisoned, NEW h, NEW k \in Nat, NEW o \in Allocates(h, k)
  PROVE  \E a, s : o = Leaves(h, a, s) /\ Free(a)
<1>1. CASE o \in Ungranted(h, k)
  BY <1>1, GrantedFree
<1>2. CASE o \in {Leaves(h, a, "GO") : a \in Granted(k)}
  <2>1. PICK a \in Granted(k) : o = Leaves(h, a, "GO")
    BY <1>2
  <2> QED  BY <2>1, GrantedFree
<1> QED  BY <1>1, <1>2 DEF Allocates

\* The arena of a client is free, and it has a number.
Working == Free(arena) /\ x \in Numbers

LEMMA WordsOfNumber ==
  ASSUME x \in Numbers
  PROVE  x.n * WordBytes \in Nat
<1>1. WordBytes \in Nat /\ x.n \in Nat
  BY TextAssumption, NumberFields
<1> QED  BY <1>1

\* What a call that only reads makes of the outcome b of its allocation.
Reports(o, b) ==
  \/ o = b
  \/ \E t, u : o = [b EXCEPT !.to = t, !.out = u]
  \/ \E t : o = [b EXCEPT !.status = t]
  \/ \E s, t, u : o = Shows(b.arena, s, t, u)

LEMMA AllocatedUntouched ==
  ASSUME Free(arena), ~arena.poisoned, NEW k \in Nat, NEW b \in Allocates(x, k), NEW o, Reports(o, b)
  PROVE  Untouched(o)
<1>1. PICK a, c : b = Leaves(x, a, c) /\ Free(a)
  BY AllocatesFree
<1>2. Leaves(x, a, c).arena = a
  BY LeavesFields
<1>3. b.arena = a
  BY <1>1, <1>2
<1> DEFINE l == Leaves(x, a, c)
<1>4. /\ Untouched(l)
      /\ \A t, u : Untouched([l EXCEPT !.to = t, !.out = u])
      /\ \A t : Untouched([l EXCEPT !.status = t])
      /\ \A s, t, u : Untouched(Shows(a, s, t, u))
  BY <1>1, StillUntouched
<1>5. b = l
  BY <1>1
<1>6. /\ Untouched(b)
      /\ \A t, u : Untouched([b EXCEPT !.to = t, !.out = u])
      /\ \A t : Untouched([b EXCEPT !.status = t])
      /\ \A s, t, u : Untouched(Shows(b.arena, s, t, u))
  <2> HIDE DEF l
  <2> QED  BY <1>3, <1>4, <1>5
<1>7. CASE \E t, u : o = [b EXCEPT !.to = t, !.out = u]
  <2>1. PICK t, u : o = [b EXCEPT !.to = t, !.out = u]
    BY <1>7
  <2>2. Untouched([b EXCEPT !.to = t, !.out = u])
    BY <1>6, Zenon
  <2> QED  BY <2>1, <2>2, Zenon
<1>8. CASE \E t : o = [b EXCEPT !.status = t]
  BY <1>6, <1>8
<1>9. CASE \E s, t, u : o = Shows(b.arena, s, t, u)
  <2>1. PICK s, t, u : o = Shows(b.arena, s, t, u)
    BY <1>9
  <2>2. Untouched(Shows(b.arena, s, t, u))
    BY <1>6, Zenon
  <2> QED  BY <2>1, <2>2, Zenon
<1> QED  BY <1>6, <1>7, <1>8, <1>9 DEF Reports

-----------------------------------------------------------------------------
(* Printing *)

LEMMA RefusalsUntouched ==
  ASSUME Free(arena), NEW base, NEW o \in Refusals(base)
  PROVE  Untouched(o)
<1>1. o \in Keeps(arena, "BIGINT_ERR_INVAL") \/ o \in Keeps(arena, "STR_INVALID_BASE")
  BY Zenon DEF Refusals
<1> QED  BY <1>1, KeepsUntouched

LEMMA OneDigitUntouched ==
  ASSUME Free(arena), NEW f, NEW len, NEW base, NEW o \in OneDigit(f, len, base)
  PROVE  Untouched(o)
<1>1. o \in Keeps(arena, "STR_INVALID_CAP") \/ \E u : o = Shows(arena, "STR_SUCCESS", "buffer", u)
  BY Zenon DEF OneDigit
<1>2. ASSUME NEW u PROVE Untouched(Shows(arena, "STR_SUCCESS", "buffer", u))
  BY StillUntouched
<1> QED  BY <1>1, <1>2, KeepsUntouched, Zenon

LEMMA ToTruncatedUntouched ==
  ASSUME Working, ~arena.poisoned, NEW f, NEW len, NEW base, NEW o \in ToTruncated(f, len, base)
  PROVE  Untouched(o)
<1>1. CASE o \in Keeps(arena, "STR_INVALID_CAP")
  BY <1>1, KeepsUntouched DEF Working
<1>2. CASE \E b \in Allocates(x, x.n * WordBytes) : Reports(o, b)
  BY <1>2, AllocatedUntouched, WordsOfNumber, Zenon DEF Working
<1> DEFINE s == Minus(x)
<1> DEFINE needed == CountDB(x, base) + Len(s)
<1> DEFINE end == IF needed < len THEN needed ELSE len
<1> DEFINE signed == Overwrite([i \in 1 .. len |-> "?"], 0, s)
<1> DEFINE r == Filled(signed, x.val, base, Len(s), end, ~(f.based /\ ~f.nlen), 0)
<1>3. IF len <= Len(s) THEN o \in Keeps(arena, "STR_INVALID_CAP")
      ELSE \E b \in Allocates(x, x.n * WordBytes) :
             o = IF b.status # "GO" THEN [b EXCEPT !.to = "buffer", !.out = signed]
                 ELSE Shows(b.arena, IF r.status = "STR_SUCCESS" /\ needed > len THEN "STR_TRUNC_SUCCESS" ELSE r.status,
                            "buffer", r.out)
  BY Zenon DEF ToTruncated
<1> HIDE DEF s, needed, end, signed, r
<1> QED  BY <1>1, <1>2, <1>3, Zenon DEF Reports

LEMMA ToWholeUntouched ==
  ASSUME Working, ~arena.poisoned, NEW f, NEW len, NEW base, NEW o \in ToWhole(f, len, base)
  PROVE  Untouched(o)
<1>1. CASE o \in Keeps(arena, "STR_INVALID_CAP")
  BY <1>1, KeepsUntouched DEF Working
<1>2. CASE \E b \in Allocates(x, x.n * WordBytes) : Reports(o, b)
  BY <1>2, AllocatedUntouched, WordsOfNumber, Zenon DEF Working
<1> DEFINE s == Minus(x)
<1> DEFINE needed == CountDB(x, base) + Len(s)
<1> DEFINE signed == Overwrite([i \in 1 .. len |-> "?"], 0, s)
<1> DEFINE r == Filled(signed, x.val, base, Len(s), needed, FALSE, 0)
<1>3. IF len <= Len(s) \/ len < needed THEN o \in Keeps(arena, "STR_INVALID_CAP")
      ELSE \E b \in Allocates(x, x.n * WordBytes) :
             o = CASE b.status # "GO" /\ f.nlen  -> [b EXCEPT !.status = "UNDEFINED"]
                   [] b.status # "GO" /\ ~f.nlen -> [b EXCEPT !.to = "buffer", !.out = signed]
                   [] OTHER -> Shows(b.arena, r.status, "buffer", r.out)
  BY Zenon DEF ToWhole
<1> HIDE DEF s, needed, signed, r
<1> QED  BY <1>1, <1>2, <1>3 DEF Reports

LEMMA PrintedUntouched ==
  ASSUME Working, NEW f, NEW len, NEW base, NEW o \in Printed(f, len, base)
  PROVE  Untouched(o)
<1>1. \/ o \in Refusals(base) \/ o \in OneDigit(f, len, base) \/ o \in Keeps(arena, "DNML_ALLOC_OOM")
      \/ ~arena.poisoned /\ o \in ToTruncated(f, len, base)
      \/ ~arena.poisoned /\ o \in ToWhole(f, len, base)
  BY Zenon DEF Printed
<1> QED  BY <1>1, RefusalsUntouched, OneDigitUntouched, KeepsUntouched, ToTruncatedUntouched,
            ToWholeUntouched DEF Working

LEMMA ToFormattedUntouched ==
  ASSUME Working, NEW len, NEW base, NEW upper, NEW o \in ToFormatted(len, base, upper)
  PROVE  Untouched(o)
<1>1. CASE \/ o \in Refusals(base) \/ o \in Keeps(arena, "DNML_ALLOC_OOM")
           \/ o \in Keeps(arena, "STR_INVALID_CAP")
  BY <1>1, RefusalsUntouched, KeepsUntouched DEF Working
<1>2. CASE ~arena.poisoned /\ \E b \in Allocates(x, x.n * WordBytes) : Reports(o, b)
  BY <1>2, AllocatedUntouched, WordsOfNumber, Zenon DEF Working
<1> DEFINE front == Minus(x) \o PrefixText(base, upper)
<1> DEFINE needed == CountDB(x, base) + Len(front)
<1> DEFINE r == Filled(Overwrite([i \in 1 .. len |-> "?"], 0, front), x.val, base, Len(front), needed, FALSE,
                       IF upper THEN 16 ELSE 0)
<1> DEFINE Behind == CASE arena.poisoned -> Keeps(arena, "DNML_ALLOC_OOM")
                       [] ~arena.poisoned /\ (len <= Len(front) \/ len < needed) -> Keeps(arena, "STR_INVALID_CAP")
                       [] OTHER -> {IF b.status = "GO" THEN Shows(b.arena, r.status, "buffer", r.out)
                                    ELSE [b EXCEPT !.status = "UNDEFINED"] : b \in Allocates(x, x.n * WordBytes)}
<1>3. o \in Refusals(base) \/ o \in Behind
  BY Zenon DEF ToFormatted
<1> HIDE DEF front, needed, r
<1> QED  BY <1>1, <1>2, <1>3 DEF Reports

LEMMA ToFormattedTruncatedUntouched ==
  ASSUME Working, NEW base, NEW o \in ToFormattedTruncated(base)
  PROVE  Untouched(o)
<1>1. o \in Refusals(base) \/ o \in Keeps(arena, "DNML_ALLOC_OOM")
  BY Zenon DEF ToFormattedTruncated
<1> QED  BY <1>1, RefusalsUntouched, KeepsUntouched DEF Working

LEMMA PutLimbsUntouched ==
  ASSUME Working, NEW kind, NEW to, NEW base, NEW upper, NEW o \in PutLimbs(kind, to, base, upper)
  PROVE  Untouched(o)
<1> DEFINE b == IF kind = "put" THEN 10 ELSE base
<1> DEFINE front == Minus(x) \o (IF kind = "putf" THEN PutPrefix(b) ELSE <<>>)
<1> DEFINE text  == LastFirst(x.val, b, IF kind = "putf" /\ upper THEN 15 ELSE 0)
<1>1. IF arena.poisoned THEN o = Shows(arena, "DARENA_POISON", to, front)
      ELSE \E c \in Allocates(x, x.n * WordBytes) :
             o = IF c.status = "GO" THEN Shows(c.arena, "STR_SUCCESS", to, front \o text)
                 ELSE [c EXCEPT !.to = to, !.out = front]
  BY Zenon DEF PutLimbs
<1> HIDE DEF b, front, text
<1>2. Untouched(Shows(arena, "DARENA_POISON", to, front))
  BY StillUntouched DEF Working
<1>3. CASE ~arena.poisoned /\ \E c \in Allocates(x, x.n * WordBytes) : Reports(o, c)
  BY <1>3, AllocatedUntouched, WordsOfNumber, Zenon DEF Working
<1> QED  BY <1>1, <1>2, <1>3, Zenon DEF Reports

LEMMA PutUntouched ==
  ASSUME Working, NEW kind, NEW f, NEW base, NEW upper, NEW o \in Put(kind, f, base, upper)
  PROVE  Untouched(o)
<1> DEFINE to == IF f THEN "stream" ELSE "stdout"
<1> DEFINE b  == IF kind = "put" THEN 10 ELSE base
<1> DEFINE Behind ==
      CASE x.n = 0 -> {Shows(arena, "STR_SUCCESS", IF kind = "put" THEN to ELSE "stdout", <<"0">>)}
        [] x.n = 1 -> (IF PutLimb(kind, f, b, upper) = <<>> THEN Keeps(arena, "UNDEFINED")
                       ELSE {Shows(arena, "STR_SUCCESS", to, Minus(x) \o PutLimb(kind, f, b, upper))})
        [] OTHER -> PutLimbs(kind, to, b, upper)
<1>1. o \in Refusals(b) \/ o \in Behind
  BY Zenon DEF Put
<1> HIDE DEF to, b
<1>2. \/ \E t, u : o = Shows(arena, "STR_SUCCESS", t, u)
      \/ o \in Refusals(b) \/ o \in Keeps(arena, "UNDEFINED") \/ o \in PutLimbs(kind, to, b, upper)
  BY <1>1
<1>3. ASSUME NEW t, NEW u PROVE Untouched(Shows(arena, "STR_SUCCESS", t, u))
  BY StillUntouched DEF Working
<1> QED  BY <1>2, <1>3, RefusalsUntouched, KeepsUntouched, PutLimbsUntouched, Zenon DEF Working

LEMMA SputLimbsUntouched ==
  ASSUME Working, NEW kind, NEW f, NEW base, NEW upper, NEW o \in SputLimbs(kind, f, base, upper)
  PROVE  Untouched(o)
<1> DEFINE other == base \notin {2, 8, 10, 16, 64}
<1> DEFINE front == CASE kind # "putf" \/ base = 10 -> Minus(x)
                      [] kind = "putf" /\ base # 10 /\ other -> Minus(x)
                      [] OTHER -> Minus(x) \o (IF upper /\ base # 64
                                               THEN <<"0", CASE base = 2 -> "B" [] base = 8 -> "O" [] OTHER -> "X">>
                                               ELSE PrefixText(base, FALSE))
<1> DEFINE k    == CountDB(x, base)
<1> DEFINE text == DigitText(x.val, base, k, IF kind = "putf" /\ upper THEN 16 ELSE 0)
<1> DEFINE to   == IF f THEN "stream" ELSE "stdout"
<1> DEFINE ends == front # <<>> /\ Len(front) + k <= BufSize /\ ~(kind = "putf" /\ other)
<1> DEFINE tail == IF kind = "putb" /\ ~f THEN <<>> ELSE <<NL>>
<1> DEFINE Chunks == {CASE c.status # "GO" -> c
                        [] c.status = "GO" /\ ~ends -> [c EXCEPT !.status = "UNDEFINED"]
                        [] OTHER -> Shows(c.arena, "STR_SUCCESS", to, front \o text \o tail) :
                        c \in Allocates(x, x.n * WordBytes)}
<1> DEFINE poison == IF kind = "put" /\ ~f THEN "DARENA_POISON" ELSE "DNML_ALLOC_OOM"
<1>2. o \in CASE kind = "putf" /\ ~f -> Keeps(arena, "DNML_ALLOC_OOM")
               [] ~(kind = "putf" /\ ~f) /\ arena.poisoned -> Keeps(arena, poison)
               [] OTHER -> Chunks
  BY Zenon DEF SputLimbs
<1>3. (\E c \in Allocates(x, x.n * WordBytes) : Reports(o, c)) \/ o \notin Chunks
  <2> HIDE DEF ends, front, k, text, to, tail
  <2> QED  BY DEF Reports
<1> HIDE DEF Chunks, poison
<1>1. \/ o \in Keeps(arena, "DNML_ALLOC_OOM") \/ o \in Keeps(arena, poison)
      \/ ~arena.poisoned /\ \E c \in Allocates(x, x.n * WordBytes) : Reports(o, c)
  BY <1>2, <1>3, Zenon
<1> QED  BY <1>1, KeepsUntouched, AllocatedUntouched, WordsOfNumber, Zenon DEF Working

LEMMA SputUntouched ==
  ASSUME Working, NEW kind, NEW f, NEW base, NEW upper, NEW o \in Sput(kind, f, base, upper)
  PROVE  Untouched(o)
<1> DEFINE to == IF f THEN "stream" ELSE "stdout"
<1> DEFINE b  == IF kind = "put" THEN 10 ELSE base
<1> DEFINE Behind ==
      CASE x.n = 0 -> {Shows(arena, "STR_SUCCESS", to, <<"0", NL>>)}
        [] x.n = 1 -> {Shows(arena, "STR_SUCCESS", to, SputLimb(kind, f, b, upper))}
        [] OTHER -> SputLimbs(kind, f, b, upper)
<1>1. o \in Refusals(b) \/ o \in Behind
  BY Zenon DEF Sput
<1> HIDE DEF to, b
<1>2. \/ \E t, u : o = Shows(arena, "STR_SUCCESS", t, u)
      \/ o \in Refusals(b) \/ o \in SputLimbs(kind, f, b, upper)
  BY <1>1
<1>3. ASSUME NEW t, NEW u PROVE Untouched(Shows(arena, "STR_SUCCESS", t, u))
  BY StillUntouched DEF Working
<1> QED  BY <1>2, <1>3, RefusalsUntouched, SputLimbsUntouched, Zenon DEF Working

-----------------------------------------------------------------------------
(* Scanning *)

LEMMA LeftFields ==
  ASSUME NEW h, NEW a, NEW s, NEW t, NEW p, NEW u
  PROVE  LET o == Left(Leaves(h, a, s), t, p)
             l == [o EXCEPT !.to = u]
         IN  /\ o.x = h /\ o.arena = a /\ o.status = s
             /\ l.x = h /\ l.arena = a /\ l.status = s
<1> DEFINE b == Leaves(h, a, s)
<1> DEFINE to == "stream"
<1> DEFINE g == [b EXCEPT !.to = to]
<1> DEFINE r == Rest(t, p)
<1> DEFINE o == [g EXCEPT !.out = r]
<1>1. b = [x |-> h, arena |-> a, status |-> s, out |-> <<>>, to |-> "none"]
  BY DEF Leaves
<1>2. Left(b, t, p) = o
  BY DEF Left
<1> HIDE DEF b, r
<1>3. g = [x |-> h, arena |-> a, status |-> s, out |-> <<>>, to |-> to]
  BY <1>1
<1> HIDE DEF g, to
<1>4. o = [x |-> h, arena |-> a, status |-> s, out |-> r, to |-> to]
  BY <1>3
<1> HIDE DEF o
<1>5. [o EXCEPT !.to = u] = [x |-> h, arena |-> a, status |-> s, out |-> r, to |-> u]
  BY <1>4
<1>6. o.x = h /\ o.arena = a /\ o.status = s
  BY <1>4
<1> DEFINE l == [o EXCEPT !.to = u]
<1>7. l.x = h /\ l.arena = a /\ l.status = s
  BY <1>5
<1> QED  BY <1>2, <1>6, <1>7 DEF b

\* The number behind a front: as it was, or on stdin cleared.
Begun(stdin, h) == h = x \/ (stdin /\ h = Cleared(x))

LEMMA BegunNumber ==
  ASSUME x \in Numbers, NEW stdin, NEW h, Begun(stdin, h)
  PROVE  h \in Numbers /\ h.cap = x.cap /\ h.n <= h.cap
<1> DEFINE v == 0
<1> DEFINE s == 1
<1>1. CASE h = x
  BY <1>1, NumberFields
<1>2. CASE h = Cleared(x)
  <2> HIDE DEF v, s
  <2>1. [x EXCEPT !.val = v, !.n = v, !.sign = s] = [val |-> v, n |-> v, cap |-> x.cap, sign |-> s]
    BY Rewritten
  <2>2. h = [val |-> v, n |-> v, cap |-> x.cap, sign |-> s]
    BY <1>2, <2>1 DEF Cleared, v, s
  <2>3. x.cap \in Nat /\ v = 0 /\ s = 1
    BY NumberFields DEF v, s
  <2> QED  BY <2>2, <2>3 DEF Numbers
<1> QED  BY <1>1, <1>2 DEF Begun

\* A scan that ends there, whatever its status.
LEMMA BegunIsGood ==
  ASSUME x \in Numbers, NEW stdin, NEW h, Begun(stdin, h), NEW a, Free(a),
         NEW o, o.x = h, o.arena = a
  PROVE  Good("scan", stdin, o)
BY BegunNumber DEF Begun, Good, Kept

\* What a scan stores.
LEMMA StoredIsGood ==
  ASSUME x \in Numbers, NEW stdin, NEW h, Begun(stdin, h), NEW a, Free(a), NEW c, NEW sign,
         Limbs(c.val) <= h.cap, NEW o, o.x = Stored(h, c, sign), o.arena = a, Success(o.status)
  PROVE  Good("scan", stdin, o)
<1> DEFINE n == Limbs(c.val)
<1> DEFINE v == c.val
<1>1. Stored(h, c, sign) = [h EXCEPT !.val = v, !.n = n, !.sign = sign]
  BY DEF Stored
<1>2. h \in Numbers /\ h.cap = x.cap /\ n <= h.cap
  BY BegunNumber
<1> HIDE DEF n, v
<1>3. o.x = [val |-> v, n |-> n, cap |-> h.cap, sign |-> sign]
  BY <1>1, <1>2, Rewritten
<1>4. o.x.cap = x.cap /\ o.x.n <= o.x.cap
  BY <1>2, <1>3
<1> QED  BY <1>4 DEF Good, Kept

LEMMA SettledIsGood ==
  ASSUME x \in Numbers, NEW stdin, NEW h, Begun(stdin, h), NEW mem, Free(mem), NEW f, NEW t, NEW front,
         NEW a, NEW k, NEW fails
  PROVE  Good("scan", stdin, Settled(f, t, front, h, a, mem, k, fails))
<1> DEFINE p      == StreamPos(f, t, front.pos, k, a)
<1> DEFINE broken == f.file /\ fails /\ a.end \in {"no", "CUT"} /\ ChunkEnd(front.pos, a.used) > Len(t)
<1> DEFINE lost   == f.mode = "scan" /\ a.end = "DNML_ALLOC_OOM"
<1> DEFINE beyond == f.mode # "scan" /\ Limbs(a.val) = h.cap /\ arena.held + h.cap = mem.cap
<1> DEFINE cut    == a.end = "CUT" \/ (f.mode = "tscan" /\ a.used > 0 /\ WillOverflow(a, front.base, a.last))
<1> DEFINE fits   == Limbs(a.val) <= h.cap
<1> DEFINE stored == IF cut THEN "STR_TRUNC_SUCCESS" ELSE "STR_SUCCESS"
<1> DEFINE g      == Stored(h, a, front.sign)
<1> DEFINE o      == CASE beyond -> Leaves(h, mem, "UNDEFINED")
                       [] ~beyond /\ broken -> Leaves(h, mem, "FILE_ERR_PARSE")
                       [] ~beyond /\ ~broken /\ a.end \notin {"no", "CUT"} -> Leaves(h, mem, a.end)
                       [] ~beyond /\ ~broken /\ a.end \in {"no", "CUT"} /\ fits -> Leaves(g, mem, stored)
                       [] OTHER -> Leaves(h, mem, "UNDEFINED")
<1> DEFINE s == Settled(f, t, front, h, a, mem, k, fails)
<1>1. s = IF lost THEN [Left(o, t, p) EXCEPT !.to = "lost"] ELSE Left(o, t, p)
  BY Zenon DEF Settled
<1>2. Success(stored)
  BY DEF Success
<1> HIDE DEF broken, beyond, cut, stored
<1>3. (\E c : o = Leaves(h, mem, c)) \/ (fits /\ o = Leaves(g, mem, stored))
  <2> HIDE DEF g, fits
  <2> QED  OBVIOUS
<1> HIDE DEF o, p, lost
<1>4. ASSUME NEW e, NEW c, o = Leaves(e, mem, c)
      PROVE  s.x = e /\ s.arena = mem /\ s.status = c
  <2>1. \/ s = Left(Leaves(e, mem, c), t, p)
        \/ s = [Left(Leaves(e, mem, c), t, p) EXCEPT !.to = "lost"]
    BY <1>1, <1>4
  <2> DEFINE l == Left(Leaves(e, mem, c), t, p)
  <2> DEFINE r == [l EXCEPT !.to = "lost"]
  <2>2. l.x = e /\ l.arena = mem /\ l.status = c /\ r.x = e /\ r.arena = mem /\ r.status = c
    BY LeftFields
  <2> HIDE DEF s, l, r
  <2> QED  BY <2>1, <2>2, Zenon DEF l, r
<1>5. CASE \E c : o = Leaves(h, mem, c)
  BY <1>4, <1>5, BegunIsGood
<1>6. CASE fits /\ o = Leaves(g, mem, stored)
  <2>1. s.x = g /\ s.arena = mem /\ s.status = stored
    BY <1>4, <1>6
  <2> HIDE DEF s
  <2>2. Good("scan", stdin, s)
    BY <1>2, <1>6, <2>1, StoredIsGood
  <2> QED  BY <2>2 DEF s
<1> QED  BY <1>3, <1>5, <1>6

\* A digit does not end a line.
LEMMA DigitsAreNoEnds == \A c : IsDigit(c) => c \notin LineEnds
<1>1. DOMAIN Decimal = 1 .. 10
  BY DEF Decimal
<1>2. \A i \in 1 .. 10 : Decimal[i] \notin {"NUL", "NL"}
  BY DEF Decimal
<1> QED  BY <1>1, <1>2 DEF IsDigit, Digits, ToSet, LineEnds, NUL, NL

\* Only stdin's front clears the number before the text is read.
LEMMA FileFrontsKeep ==
  ASSUME NEW f, f.file, NEW t, NEW base, NEW fails
  PROVE  ScanFront(f, t, base, fails).zeroed = FALSE
<1>1. ASSUME NEW s, NEW p, NEW g, NEW b PROVE Decided(s, p, g, b).zeroed = FALSE
  BY DEF Decided
<1>2. ASSUME NEW p, NEW g, NEW b PROVE ZerosOf(t, p, g, b, fails).zeroed = FALSE
  BY <1>1, Zenon DEF ZerosOf
<1>3. ASSUME NEW q, NEW g, NEW r PROVE FileBehind(f, t, fails, q, g, r).zeroed = FALSE
  <2> DEFINE ends == AtEnd(t, q, fails /\ f.mode # "scan", "STR_INCOMPLETE")
  <2> DEFINE zero == IF g = -1 THEN "STR_INVALID_SIGN" ELSE "ZERO"
  <2> DEFINE rest == ZerosOf(t, r.pos, g, r.base, fails)
  <2>1. FileBehind(f, t, fails, q, g, r) =
          CASE At(t, q) \in LineEnds -> Decided(ends, q, g, 10)
            [] At(t, q) \notin LineEnds /\ ~IsDigit(At(t, q)) -> Decided("STR_INVALID_SIGN", q, g, 10)
            [] IsDigit(At(t, q)) /\ r.code = 0 -> Decided(zero, r.pos, g, 10)
            [] IsDigit(At(t, q)) /\ r.code = 2 -> Decided("STR_INVALID_BASE_PREFIX", r.pos, g, 10)
            [] IsDigit(At(t, q)) /\ r.code = 3 -> Decided("STR_INCOMPLETE", r.pos, g, 10)
            [] IsDigit(At(t, q)) /\ r.code = 4 -> Decided("STR_INVALID_BASE", r.pos, g, 10)
            [] OTHER -> rest
    BY Zenon DEF FileBehind
  <2>2. rest.zeroed = FALSE
    BY <1>2
  <2>3. IsDigit(At(t, q)) => At(t, q) \notin LineEnds
    BY DigitsAreNoEnds
  <2> HIDE DEF ends, zero, rest
  <2>4. FileBehind(f, t, fails, q, g, r) = rest \/ \E s, p : FileBehind(f, t, fails, q, g, r) = Decided(s, p, g, 10)
    BY <2>1, <2>3
  <2>5. CASE FileBehind(f, t, fails, q, g, r) = rest
    BY <2>2, <2>5, Zenon
  <2>6. ASSUME NEW s, NEW p, FileBehind(f, t, fails, q, g, r) = Decided(s, p, g, 10)
        PROVE  FileBehind(f, t, fails, q, g, r).zeroed = FALSE
    <3>1. Decided(s, p, g, 10).zeroed = FALSE
      BY <1>1, Zenon
    <3> QED  BY <2>6, <3>1, Zenon
  <2> QED  BY <2>4, <2>5, <2>6, Zenon
<1>4. FileFront(f, t, fails).zeroed = FALSE
  BY <1>3, Zenon DEF FileFront, FileSigned
<1>5. ASSUME NEW p PROVE BasedFileSigned(t, base, fails, p).zeroed = FALSE
  BY <1>1, <1>2 DEF BasedFileSigned
<1>6. BasedFileFront(t, base, fails).zeroed = FALSE
  BY <1>5 DEF BasedFileFront
<1> QED  BY <1>4, <1>6 DEF ScanFront

LEMMA BeforeBegun ==
  ASSUME NEW front, NEW stdin, front.zeroed => stdin
  PROVE  Begun(stdin, Before(front))
BY DEF Before, Begun, Cleared

LEMMA ScannedIsGood ==
  ASSUME Working, NEW f, f.mode # "scan" => ~arena.poisoned, NEW t, NEW front, front.zeroed => ~f.file,
         NEW fails, NEW o \in Scanned(f, t, front, fails)
  PROVE  Good("scan", ~f.file, o)
<1> DEFINE h == Before(front)
<1> DEFINE d == Feed(f, t, front.pos)
<1> DEFINE After(a) == {Settled(f, t, front, h, m, a, Len(d), fails) : m \in Fed(f, d, front.base, x.cap)}
<1> DEFINE Failed == {Left(Leaves(h, arena, "DNML_ALLOC_OOM"), t, front.pos + 1)}
<1>1. IF f.mode = "scan" THEN o \in After(arena) \/ o \in Failed
      ELSE \E b \in Allocates(h, x.cap) :
             IF b.status = "GO" THEN o \in After(b.arena) ELSE o = Left(b, t, front.pos + 1)
  BY Zenon DEF Scanned
<1>2. Begun(~f.file, h)
  BY BeforeBegun
<1> HIDE DEF h, d
<1>3. ASSUME NEW a, Free(a), o \in After(a) PROVE Good("scan", ~f.file, o)
  <2>1. PICK m : o = Settled(f, t, front, h, m, a, Len(d), fails)
    BY <1>3, Zenon
  <2> QED  BY <1>2, <1>3, <2>1, SettledIsGood, Zenon DEF Working
<1> HIDE DEF After
<1>4. ASSUME NEW a, Free(a), NEW s, o = Left(Leaves(h, a, s), t, front.pos + 1)
      PROVE  Good("scan", ~f.file, o)
  BY <1>2, <1>4, LeftFields, BegunIsGood DEF Working
<1>5. CASE f.mode = "scan"
  BY <1>1, <1>3, <1>4, <1>5 DEF Working
<1>6. ASSUME f.mode # "scan", NEW b \in Allocates(h, x.cap),
             IF b.status = "GO" THEN o \in After(b.arena) ELSE o = Left(b, t, front.pos + 1)
      PROVE  Good("scan", ~f.file, o)
  <2>1. x.cap \in Nat
    BY NumberFields DEF Working
  <2>2. PICK a, s : b = Leaves(h, a, s) /\ Free(a)
    BY <1>6, <2>1, AllocatesFree DEF Working
  <2>3. b.arena = a
    BY <2>2, LeavesFields
  <2> QED  BY <1>3, <1>4, <1>6, <2>2, <2>3
<1> QED  BY <1>1, <1>5, <1>6

LEMMA ScanBehindIsGood ==
  ASSUME Working, NEW f, f.mode # "scan" => ~arena.poisoned, NEW t, NEW front, front.zeroed => ~f.file,
         NEW fails, NEW o \in ScanBehind(f, t, front, fails)
  PROVE  Good("scan", ~f.file, o)
<1> DEFINE zero == Cleared(x)
<1>1. ASSUME NEW s, NEW p, o = Left(Leaves(x, arena, s), t, p)
      PROVE  Good("scan", ~f.file, o)
  <2>1. o.x = x /\ o.arena = arena
    BY <1>1, LeftFields
  <2>2. Untouched(o)
    BY <2>1 DEF Untouched, Working
  <2> QED  BY <2>2, UntouchedIsGood DEF Working
<1>2. CASE front.status = "GO"
  BY <1>2, ScannedIsGood, Zenon DEF ScanBehind
<1>3. CASE front.status = "ZERO"
  <2>1. o = Left(Leaves(zero, arena, "STR_SUCCESS"), t, front.pos + 1)
    BY <1>3 DEF ScanBehind, Cleared
  <2>2. o.x = zero /\ o.arena = arena /\ o.status = "STR_SUCCESS"
    BY <2>1, LeftFields
  <2>3. Begun(TRUE, zero)
    BY DEF Begun
  <2>4. zero.cap = x.cap /\ zero.n <= zero.cap
    BY <2>3, BegunNumber DEF Working
  <2> HIDE DEF zero
  <2> QED  BY <2>2, <2>4 DEF Good, Kept, Success, Working
<1>4. CASE front.status \notin {"GO", "ZERO"}
  <2>1. o = Left(Leaves(x, arena, front.status), t, front.pos + 1)
    BY <1>4, Zenon DEF ScanBehind
  <2> QED  BY <1>1, <2>1 DEF Working
<1> QED  BY <1>2, <1>3, <1>4

LEMMA ScanIsGood ==
  ASSUME Working, NEW f, f.file \in BOOLEAN, NEW t, NEW base, NEW fails, NEW o \in Scan(f, t, base, fails)
  PROVE  Good("scan", ~f.file, o)
<1>1. ASSUME NEW s, o = Left(Leaves(x, arena, s), t, 0)
      PROVE  Good("scan", ~f.file, o)
  <2>1. o.x = x /\ o.arena = arena
    BY <1>1, LeftFields
  <2>2. Untouched(o)
    BY <2>1 DEF Untouched, Working
  <2> QED  BY <2>2, UntouchedIsGood DEF Working
<1> DEFINE front == ScanFront(f, t, base, fails)
<1>2. front.zeroed => ~f.file
  BY FileFrontsKeep
<1>3. \/ \E s : o = Left(Leaves(x, arena, s), t, 0)
      \/ (f.mode # "scan" => ~arena.poisoned) /\ o \in ScanBehind(f, t, front, fails)
  <2> HIDE DEF front
  <2>1. o \in CASE x.cap = 0 -> {Left(Leaves(x, arena, "BIGINT_ERR_STORE_IN"), t, 0)}
                [] x.cap > 0 /\ f.based /\ base <= 1 -> {Left(Leaves(x, arena, "STR_INVALID_BASE"), t, 0)}
                [] x.cap > 0 /\ ~(f.based /\ base <= 1) /\ f.mode # "scan" /\ arena.poisoned ->
                     {Left(Leaves(x, arena, "DNML_ALLOC_OOM"), t, 0)}
                [] OTHER -> ScanBehind(f, t, front, fails)
    BY Zenon DEF Scan, front
  <2>2. x.cap \in Nat
    BY NumberFields DEF Working
  <2> QED  BY <2>1, <2>2
<1> HIDE DEF front
<1> QED  BY <1>1, <1>2, <1>3, ScanBehindIsGood

-----------------------------------------------------------------------------
(* Reading a text *)

\* A count of limbs is one, or the estimate has left its type.
LEMMA NeedLimbsType ==
  ASSUME NEW d, NEW base
  PROVE  NeedLimbs(d, base) = Undef \/ NeedLimbs(d, base) \in Nat
<1> DEFINE S == {b \in 0 .. MaxValue : 2 ^ b < base ^ d}
<1>1. MaxValue \in Nat /\ LimbBits \in Nat /\ LimbBits >= 1
  BY TextAssumption
<1>2. IsFiniteSet(0 .. MaxValue) /\ S \subseteq 0 .. MaxValue
  BY <1>1, FS_Interval
<1>3. BitCount(d, base) \in Nat
  BY <1>2, FS_Subset, FS_CardinalityType, Zenon DEF BitCount
<1> DEFINE bits == BitCount(d, base)
<1> HIDE DEF bits
<1>4. (bits + LimbBits - 1) \div LimbBits \in Nat
  <2>1. bits \in Nat
    BY <1>3 DEF bits
  <2> QED  BY <1>1, <2>1
<1>5. NeedLimbs(d, base) \in {0, Undef, (bits + LimbBits - 1) \div LimbBits}
  BY Zenon DEF NeedLimbs, bits
<1> QED  BY <1>4, <1>5

LEMMA WordsType ==
  ASSUME NEW k \in Nat
  PROVE  k * WordBytes \in Nat
<1>1. WordBytes \in Nat
  BY TextAssumption
<1> QED  BY <1>1

\* A call that succeeds may leave any number, if it is not one that must not
\* make room.
LEMMA SuccessIsGood ==
  ASSUME NEW fn, fn \notin {"sget_str", "tget_str", "scan"}, NEW stdin, NEW h, NEW a, Free(a), NEW s, Success(s)
  PROVE  Good(fn, stdin, Leaves(h, a, s))
<1> DEFINE o == Leaves(h, a, s)
<1>1. o.arena = a /\ o.status = s
  BY LeavesFields
<1> HIDE DEF o
<1>2. Good(fn, stdin, o)
  BY <1>1 DEF Good, Kept
<1> QED  BY <1>2 DEF o

LEMMA UngrantedUntouched ==
  ASSUME Free(arena), ~arena.poisoned, NEW k \in Nat, NEW o \in Ungranted(x, k)
  PROVE  Untouched(o)
<1>1. PICK a : o = Leaves(x, a, "DNML_ALLOC_OOM") /\ Free(a)
  BY GrantedFree
<1>2. Untouched(Leaves(x, a, "DNML_ALLOC_OOM"))
  BY <1>1, StillUntouched
<1> QED  BY <1>1, <1>2, Zenon

LEMMA ConstructedIsGood ==
  ASSUME Working, ~arena.poisoned, NEW f, NEW front, NEW cap, cap = Undef \/ cap \in Nat, NEW r, NEW stdin,
         NEW o \in ConstructedWith(f, front, cap, r)
  PROVE  Good("strinit", stdin, o)
<1> DEFINE k == cap * WordBytes
<1> DEFINE n == IF f.based /\ ~f.nlen THEN cap ELSE Limbs(r.val)
<1> DEFINE Made(a) == {Leaves(Number(v, n, cap, front.sign), a, "STR_SUCCESS") : v \in Stale(r.val, Limbs(r.val), n)}
<1> DEFINE After(a) == CASE r.status # "STR_SUCCESS" -> Keeps(a, r.status)
                         [] r.status = "STR_SUCCESS" /\ cap = 0 -> Keeps(a, "UNDEFINED")
                         [] OTHER -> Keeps(a, "ABORTED") \cup Made(a)
<1>1. IF cap = Undef THEN o \in Keeps(arena, "UNDEFINED")
      ELSE o \in Ungranted(x, k) \/ \E a \in Granted(k) : o \in After(a)
  BY Zenon DEF ConstructedWith
<1> HIDE DEF n
<1>2. ASSUME NEW a, o \in After(a) PROVE (\E s : o \in Keeps(a, s)) \/ \E h : o = Leaves(h, a, "STR_SUCCESS")
  BY <1>2, Zenon
<1> HIDE DEF After
<1>3. Success("STR_SUCCESS")
  BY DEF Success
<1>4. CASE cap = Undef
  <2>1. Untouched(o)
    BY <1>1, <1>4, KeepsUntouched DEF Working
  <2> QED  BY <2>1, UntouchedIsGood DEF Working
<1>5. CASE cap # Undef /\ o \in Ungranted(x, k)
  <2>1. k \in Nat
    BY <1>5, WordsType
  <2> HIDE DEF k
  <2>2. Untouched(o)
    BY <1>5, <2>1, UngrantedUntouched DEF Working
  <2> QED  BY <2>2, UntouchedIsGood DEF Working
<1>6. ASSUME cap # Undef, NEW a \in Granted(k), o \in After(a) PROVE Good("strinit", stdin, o)
  <2>1. k \in Nat
    BY <1>6, WordsType
  <2> HIDE DEF k
  <2>2. Free(a)
    BY <1>6, <2>1, GrantedFree DEF Working
  <2>3. CASE \E s : o \in Keeps(a, s)
    <3>1. Untouched(o)
      BY <2>2, <2>3, KeepsUntouched
    <3> QED  BY <3>1, UntouchedIsGood DEF Working
  <2>4. CASE \E h : o = Leaves(h, a, "STR_SUCCESS")
    BY <1>3, <2>2, <2>4, SuccessIsGood
  <2> QED  BY <1>2, <1>6, <2>3, <2>4
<1> QED  BY <1>1, <1>4, <1>5, <1>6

\* Making room keeps all but the capacity.
LEMMA ReservedGrows ==
  ASSUME x \in Numbers, NEW k \in Nat, NEW h \in Reserved(x, k)
  PROVE  h = [x EXCEPT !.cap = h.cap] /\ h.cap >= x.cap
<1>1. CASE h = x
  <2>1. [x EXCEPT !.cap = x.cap] = x
    BY NumberFields
  <2> QED  BY <1>1, <2>1, NumberFields
<1>2. ASSUME NEW c \in k .. 2 * k - 1, ~(x.cap >= k), h = [x EXCEPT !.cap = c]
      PROVE  h = [x EXCEPT !.cap = h.cap] /\ h.cap >= x.cap
  <2>1. h.cap = c
    BY <1>2, Recapped
  <2>2. c >= x.cap
    BY <1>2, NumberFields
  <2> QED  BY <1>2, <2>1, <2>2
<1> QED  BY <1>1, <1>2 DEF Reserved

LEMMA ReservedIsGood ==
  ASSUME x \in Numbers, NEW k \in Nat, NEW h \in Reserved(x, k), NEW a, Free(a), NEW s, NEW stdin
  PROVE  Good("get_str", stdin, Leaves(h, a, s))
<1> DEFINE o == Leaves(h, a, s)
<1>1. o.x = h /\ o.arena = a
  BY LeavesFields
<1>2. h = [x EXCEPT !.cap = h.cap] /\ h.cap >= x.cap
  BY ReservedGrows
<1> HIDE DEF o
<1>3. Good("get_str", stdin, o)
  BY <1>1, <1>2 DEF Good, Kept
<1> QED  BY <1>3 DEF o

LEMMA GottenIsGood ==
  ASSUME Working, ~arena.poisoned, NEW front, NEW cap, cap = Undef \/ cap \in Nat, NEW r, NEW stdin,
         NEW o \in GottenWith(front, cap, r)
  PROVE  Good("get_str", stdin, o)
<1> DEFINE k == cap * WordBytes
<1> DEFINE After(h, a) == IF r.status # "STR_SUCCESS" THEN {Leaves(h, a, r.status)}
                          ELSE {Leaves(g, a, "STR_SUCCESS") : g \in CopiedOver(h, r, front.base, front.sign, cap)}
<1> DEFINE All(h) == IF h.cap < cap THEN Keeps(arena, "DNML_ALLOC_OOM")
                     ELSE Ungranted(h, k) \cup UNION {After(h, a) : a \in Granted(k)}
<1>7. IF cap = Undef THEN o \in Keeps(arena, "UNDEFINED") ELSE \E h \in Reserved(x, cap) : o \in All(h)
  BY Zenon DEF GottenWith
<1>8. ASSUME NEW h, o \in All(h)
      PROVE  \/ o \in Keeps(arena, "DNML_ALLOC_OOM") \/ o \in Ungranted(h, k)
             \/ \E a \in Granted(k) : o \in After(h, a)
  <2> HIDE DEF After
  <2> QED  BY <1>8, Zenon
<1> HIDE DEF All
<1>1. IF cap = Undef THEN o \in Keeps(arena, "UNDEFINED")
      ELSE \E h \in Reserved(x, cap) :
             \/ o \in Keeps(arena, "DNML_ALLOC_OOM") \/ o \in Ungranted(h, k)
             \/ \E a \in Granted(k) : o \in After(h, a)
  <2> HIDE DEF After
  <2> QED  BY <1>7, <1>8, Zenon
<1>2. ASSUME NEW h, NEW a, o \in After(h, a)
      PROVE  o = Leaves(h, a, r.status) \/ \E g : o = Leaves(g, a, "STR_SUCCESS")
  BY <1>2, Zenon
<1> HIDE DEF After
<1>3. Success("STR_SUCCESS")
  BY DEF Success
<1>4. CASE o \in Keeps(arena, "UNDEFINED") \/ o \in Keeps(arena, "DNML_ALLOC_OOM")
  <2>1. Untouched(o)
    BY <1>4, KeepsUntouched DEF Working
  <2> QED  BY <2>1, UntouchedIsGood DEF Working
<1>5. ASSUME cap # Undef, NEW h \in Reserved(x, cap), o \in Ungranted(h, k)
      PROVE  Good("get_str", stdin, o)
  <2>1. k \in Nat
    BY <1>5, WordsType
  <2> HIDE DEF k
  <2>2. PICK a : o = Leaves(h, a, "DNML_ALLOC_OOM") /\ Free(a)
    BY <1>5, <2>1, GrantedFree DEF Working
  <2> QED  BY <1>5, <2>2, ReservedIsGood DEF Working
<1>6. ASSUME cap # Undef, NEW h \in Reserved(x, cap), NEW a \in Granted(k), o \in After(h, a)
      PROVE  Good("get_str", stdin, o)
  <2>1. k \in Nat
    BY <1>6, WordsType
  <2> HIDE DEF k
  <2>2. Free(a)
    BY <1>6, <2>1, GrantedFree DEF Working
  <2>3. CASE o = Leaves(h, a, r.status)
    BY <1>6, <2>2, <2>3, ReservedIsGood DEF Working
  <2>4. CASE \E g : o = Leaves(g, a, "STR_SUCCESS")
    BY <1>3, <2>2, <2>4, SuccessIsGood
  <2> QED  BY <1>2, <1>6, <2>3, <2>4
<1> QED  BY <1>1, <1>4, <1>5, <1>6

\* What fits the number's array is stored in it.
LEMMA FittingIsGood ==
  ASSUME NEW h, h.cap = x.cap, h.n <= h.cap, NEW a, Free(a), NEW s, Success(s), NEW fn, NEW stdin
  PROVE  Good(fn, stdin, Leaves(h, a, s))
<1> DEFINE o == Leaves(h, a, s)
<1>1. o.x = h /\ o.arena = a /\ o.status = s
  BY LeavesFields
<1> HIDE DEF o
<1>2. Good(fn, stdin, o)
  BY <1>1 DEF Good, Kept
<1> QED  BY <1>2 DEF o

LEMMA CopiedFits ==
  ASSUME x \in Numbers, NEW r, NEW base, NEW sign, NEW n, n <= x.cap, NEW h \in CopiedOver(x, r, base, sign, n)
  PROVE  h.cap = x.cap /\ h.n <= h.cap
<1>1. PICK v : h = [x EXCEPT !.val = v, !.n = n, !.sign = SignKept(r.val, base, sign)]
  BY Zenon DEF CopiedOver
<1> DEFINE s == SignKept(r.val, base, sign)
<1> HIDE DEF s
<1>2. h = [val |-> v, n |-> n, cap |-> x.cap, sign |-> s]
  BY <1>1, Rewritten DEF s
<1> QED  BY <1>2

LEMMA TruncGottenIsGood ==
  ASSUME Working, ~arena.poisoned, NEW f, NEW front, NEW cap, cap = Undef \/ cap \in Nat, NEW r, NEW stdin,
         NEW o \in TruncGottenWith(f, front, cap, r)
  PROVE  Good("tget_str", stdin, o)
<1> DEFINE cut   == cap > x.cap
<1> DEFINE room  == IF cut THEN x.cap ELSE cap
<1> DEFINE words == (IF f.nlen \/ f.based THEN cap ELSE room) * WordBytes
<1> DEFINE good  == IF cut THEN "STR_TRUNC_SUCCESS" ELSE "STR_SUCCESS"
<1> DEFINE After(a) == IF r.status # "STR_SUCCESS" THEN Keeps(a, r.status)
                       ELSE {Leaves(g, a, good) : g \in CopiedOver(x, r, front.base, front.sign, room)}
<1>1. IF cap = Undef THEN o \in Keeps(arena, "UNDEFINED")
      ELSE o \in Ungranted(x, words) \/ \E a \in Granted(words) : o \in After(a)
  BY Zenon DEF TruncGottenWith
<1>2. Success(good)
  BY DEF Success
<1>3. ASSUME cap # Undef PROVE words \in Nat /\ room <= x.cap
  <2>1. cap \in Nat /\ x.cap \in Nat
    BY <1>3, NumberFields DEF Working
  <2>2. room \in Nat /\ room <= x.cap
    BY <2>1
  <2> HIDE DEF room
  <2>3. (IF f.nlen \/ f.based THEN cap ELSE room) \in Nat
    BY <2>1, <2>2
  <2> QED  BY <2>2, <2>3, WordsType
<1> HIDE DEF words, good, room
<1>4. CASE cap = Undef
  <2>1. Untouched(o)
    BY <1>1, <1>4, KeepsUntouched DEF Working
  <2> QED  BY <2>1, UntouchedIsGood DEF Working
<1>5. CASE cap # Undef /\ o \in Ungranted(x, words)
  <2>1. Untouched(o)
    BY <1>3, <1>5, UngrantedUntouched DEF Working
  <2> QED  BY <2>1, UntouchedIsGood DEF Working
<1>6. ASSUME cap # Undef, NEW a \in Granted(words), o \in After(a)
      PROVE  Good("tget_str", stdin, o)
  <2>1. Free(a)
    BY <1>3, <1>6, GrantedFree DEF Working
  <2>2. CASE o \in Keeps(a, r.status)
    <3>1. Untouched(o)
      BY <2>1, <2>2, KeepsUntouched
    <3> QED  BY <3>1, UntouchedIsGood DEF Working
  <2>3. ASSUME NEW g \in CopiedOver(x, r, front.base, front.sign, room), o = Leaves(g, a, good)
        PROVE  Good("tget_str", stdin, o)
    <3>1. g.cap = x.cap /\ g.n <= g.cap
      BY <1>3, <1>6, <2>3, CopiedFits DEF Working
    <3> QED  BY <1>2, <2>1, <2>3, <3>1, FittingIsGood
  <2> QED  BY <1>6, <2>2, <2>3
<1> QED  BY <1>1, <1>4, <1>5, <1>6

LEMMA SafeGottenIsGood ==
  ASSUME Working, ~arena.poisoned, NEW front, NEW digits, NEW cap, cap = Undef \/ cap \in Nat, NEW r, NEW stdin,
         NEW o \in SafeGottenWith(front, digits, cap, r)
  PROVE  Good("sget_str", stdin, o)
<1> DEFINE k == cap * WordBytes
<1> DEFINE h == [x EXCEPT !.val = r.val, !.n = cap, !.sign = front.sign]
<1> DEFINE After(a) == (IF r.status # "STR_SUCCESS" THEN Keeps(a, r.status) ELSE {Leaves(h, a, "STR_SUCCESS")})
                       \cup (IF cap > 0 /\ digits # <<>> /\ DigitValue(digits[1], front.base) <= front.base
                             THEN Keeps(a, "UNDEFINED") ELSE {})
<1>1. o \in CASE cap = Undef -> Keeps(arena, "UNDEFINED")
              [] cap # Undef /\ TooLarge(cap) -> Keeps(arena, "BIGINT_ERR_RANGE")
              [] OTHER -> Ungranted(x, k) \cup UNION {After(a) : a \in Granted(k)}
  BY Zenon DEF SafeGottenWith
<1>2. ASSUME NEW a, o \in After(a)
      PROVE  (\E s : o \in Keeps(a, s)) \/ o = Leaves(h, a, "STR_SUCCESS")
  <2> HIDE DEF h
  <2> QED  BY <1>2, Zenon
<1> HIDE DEF After
<1>3. \/ \E s : o \in Keeps(arena, s)
      \/ cap # Undef /\ ~TooLarge(cap) /\ o \in Ungranted(x, k)
      \/ cap # Undef /\ ~TooLarge(cap) /\ \E a \in Granted(k) : o \in After(a)
  <2> HIDE DEF k
  <2> QED  BY <1>1, Zenon
<1>4. CASE \E s : o \in Keeps(arena, s)
  <2>1. Untouched(o)
    BY <1>4, KeepsUntouched DEF Working
  <2> QED  BY <2>1, UntouchedIsGood DEF Working
<1>5. CASE cap # Undef /\ o \in Ungranted(x, k)
  <2>1. k \in Nat
    BY <1>5, WordsType
  <2> HIDE DEF k
  <2>2. Untouched(o)
    BY <1>5, <2>1, UngrantedUntouched DEF Working
  <2> QED  BY <2>2, UntouchedIsGood DEF Working
<1>6. ASSUME cap # Undef, ~TooLarge(cap), NEW a \in Granted(k), o \in After(a)
      PROVE  Good("sget_str", stdin, o)
  <2>1. k \in Nat
    BY <1>6, WordsType
  <2> HIDE DEF k
  <2>2. Free(a)
    BY <1>6, <2>1, GrantedFree DEF Working
  <2>3. CASE \E s : o \in Keeps(a, s)
    <3>1. Untouched(o)
      BY <2>2, <2>3, KeepsUntouched
    <3> QED  BY <3>1, UntouchedIsGood DEF Working
  <2>4. CASE o = Leaves(h, a, "STR_SUCCESS")
    <3> DEFINE v == r.val
    <3> DEFINE s == front.sign
    <3>1. cap <= x.cap
      BY <1>6, NumberFields DEF TooLarge, Working
    <3>2. h = [x EXCEPT !.val = v, !.n = cap, !.sign = s]
      OBVIOUS
    <3> HIDE DEF h, v, s
    <3>3. h = [val |-> v, n |-> cap, cap |-> x.cap, sign |-> s]
      BY <3>2, Rewritten DEF Working
    <3>4. h.cap = x.cap /\ h.n <= h.cap /\ Success("STR_SUCCESS")
      BY <3>1, <3>3 DEF Success
    <3> QED  BY <2>2, <2>4, <3>4, FittingIsGood
  <2> QED  BY <1>2, <1>6, <2>3, <2>4
<1> QED  BY <1>3, <1>4, <1>5, <1>6

\* No call goes on, past the assertions at its head, with a poisoned arena.
LEMMA OpeningAsserts ==
  ASSUME NEW f, NEW t, NEW len, NEW base, Opening(f, t, len, base).status = "GO"
  PROVE  ~arena.poisoned
<1> DEFINE front == IF f.based THEN BasedFront(f, t, len, base) ELSE PrefixedFront(f, t, len)
<1> DEFINE Inner == CASE Ended(f, t, 0, len) -> Stop("STR_EMPTY")
                      [] ~Ended(f, t, 0, len) /\ arena.poisoned -> Stop("DNML_ALLOC_OOM")
                      [] OTHER -> front
<1> DEFINE o == Opening(f, t, len, base)
<1>1. o = CASE f.family # "strinit" /\ ~CoreValid(x) -> Stop("BIGINT_ERR_SINVAL")
            [] (f.family = "strinit" \/ CoreValid(x)) /\ f.based /\ base <= 1 -> Stop("STR_INVALID_BASE")
            [] OTHER -> Inner
  BY Zenon DEF Opening
<1>2. ASSUME NEW s, o = Stop(s) PROVE s = "GO"
  BY <1>2 DEF Stop
<1>3. arena.poisoned => Inner = Stop("STR_EMPTY") \/ Inner = Stop("DNML_ALLOC_OOM")
  <2> HIDE DEF front
  <2> QED  BY Zenon
<1> HIDE DEF Inner, o
<1>4. ASSUME arena.poisoned
      PROVE  \/ o = Stop("BIGINT_ERR_SINVAL") \/ o = Stop("STR_INVALID_BASE")
             \/ o = Stop("STR_EMPTY") \/ o = Stop("DNML_ALLOC_OOM")
  BY <1>1, <1>3, <1>4
<1> QED  BY <1>2, <1>4

LEMMA GotZeroIsGood ==
  ASSUME Working, NEW f, NEW stdin, NEW o \in GotZero(f)
  PROVE  Good(f.family, stdin, o)
<1> DEFINE zero == Cleared(x)
<1> DEFINE new  == Number(0, 0, 1, 1)
<1>1. Success("STR_SUCCESS")
  BY DEF Success
<1>2. IF f.family = "strinit"
      THEN o = Leaves(new, arena, "STR_SUCCESS") \/ o = Leaves(x, arena, "DNML_ALLOC_OOM")
      ELSE o = Leaves(zero, arena, "STR_SUCCESS")
  BY Zenon DEF GotZero, Cleared
<1>3. zero.cap = x.cap /\ zero.n <= zero.cap
  <2>1. Begun(TRUE, zero)
    BY DEF Begun
  <2> QED  BY <2>1, BegunNumber DEF Working
<1> HIDE DEF zero, new
<1>4. CASE o = Leaves(zero, arena, "STR_SUCCESS")
  BY <1>1, <1>3, <1>4, FittingIsGood DEF Working
<1>5. CASE f.family = "strinit" /\ o = Leaves(new, arena, "STR_SUCCESS")
  <2>1. f.family \notin {"sget_str", "tget_str", "scan"}
    BY <1>5
  <2> QED  BY <1>1, <1>5, <2>1, SuccessIsGood DEF Working
<1>6. CASE o = Leaves(x, arena, "DNML_ALLOC_OOM")
  <2>1. Untouched(o)
    BY <1>6, StillUntouched DEF Working
  <2> QED  BY <2>1, UntouchedIsGood DEF Working
<1> QED  BY <1>2, <1>4, <1>5, <1>6

LEMMA ReadBehindIsGood ==
  ASSUME Working, NEW f, f.family \in Families, NEW t, NEW len,
         NEW front, front.status = "GO" => ~arena.poisoned, NEW stdin, NEW o \in ReadBehind(f, t, len, front)
  PROVE  Good(f.family, stdin, o)
<1>1. \/ o \in GotZero(f) \/ o \in Keeps(arena, front.status)
      \/ front.status = "GO" /\ f.family = "strinit" /\ o \in Constructed(f, t, len, front)
      \/ front.status = "GO" /\ f.family = "get_str" /\ o \in Gotten(f, t, len, front)
      \/ front.status = "GO" /\ f.family = "tget_str" /\ o \in TruncGotten(f, t, len, front)
      \/ front.status = "GO" /\ f.family = "sget_str" /\ o \in SafeGotten(f, t, len, front)
  BY DEF ReadBehind, Families
<1>2. CASE o \in GotZero(f)
  BY <1>2, GotZeroIsGood
<1>3. CASE o \in Keeps(arena, front.status)
  <2>1. Untouched(o)
    BY <1>3, KeepsUntouched DEF Working
  <2> QED  BY <2>1, UntouchedIsGood DEF Working
<1>4. CASE front.status = "GO" /\ f.family = "strinit" /\ o \in Constructed(f, t, len, front)
  <2> DEFINE cap == NeedLimbs(IF f.nlen THEN len - front.pos + 1 ELSE StrLen(t, front.pos), front.base)
  <2> DEFINE r == Accumulate(InitDigits(f, t, front.pos, len), front.base, 0, cap)
  <2>1. cap = Undef \/ cap \in Nat
    BY NeedLimbsType
  <2>2. o \in ConstructedWith(f, front, cap, r)
    BY <1>4, Zenon DEF Constructed
  <2> HIDE DEF cap, r
  <2>3. Good("strinit", stdin, o)
    BY <1>4, <2>1, <2>2, ConstructedIsGood
  <2> QED  BY <1>4, <2>3
<1>5. CASE front.status = "GO" /\ f.family = "get_str" /\ o \in Gotten(f, t, len, front)
  <2> DEFINE p   == front.pos
  <2> DEFINE end == TailEnd(f, t, p, len)
  <2> DEFINE cap == NeedLimbs(end - p, front.base)
  <2> DEFINE r == Counted(Downwards(t, p, end), front.base, 0, cap, p = 0)
  <2>1. cap = Undef \/ cap \in Nat
    BY NeedLimbsType
  <2>2. o \in GottenWith(front, cap, r)
    BY <1>5, Zenon DEF Gotten
  <2> HIDE DEF cap, r
  <2>3. Good("get_str", stdin, o)
    BY <1>5, <2>1, <2>2, GottenIsGood
  <2> QED  BY <1>5, <2>3
<1>6. CASE front.status = "GO" /\ f.family = "tget_str" /\ o \in TruncGotten(f, t, len, front)
  <2> DEFINE end == TailEnd(f, t, front.pos, len)
  <2> DEFINE cap == NeedLimbs(IF f.based THEN end ELSE end - front.pos, front.base)
  <2> DEFINE r == TruncCounted(t, front, end, IF cap > x.cap THEN end - CountDB(x, 10) ELSE front.pos,
                               Min({cap, x.cap}))
  <2>1. cap = Undef \/ cap \in Nat
    BY NeedLimbsType
  <2>2. o \in TruncGottenWith(f, front, cap, r)
    BY <1>6, Zenon DEF TruncGotten, TruncFitted
  <2> HIDE DEF cap, r
  <2>3. Good("tget_str", stdin, o)
    BY <1>6, <2>1, <2>2, TruncGottenIsGood
  <2> QED  BY <1>6, <2>3
<1>7. CASE front.status = "GO" /\ f.family = "sget_str" /\ o \in SafeGotten(f, t, len, front)
  <2> DEFINE p   == front.pos
  <2> DEFINE end == TailEnd(f, t, p, len)
  <2> DEFINE cap == NeedLimbs(end - p, front.base)
  <2> DEFINE d == Downwards(t, p, end)
  <2> DEFINE r == Counted(d, front.base, 0, cap, p = 0)
  <2>1. cap = Undef \/ cap \in Nat
    BY NeedLimbsType
  <2>2. o \in SafeGottenWith(front, d, cap, r)
    BY <1>7, Zenon DEF SafeGotten
  <2> HIDE DEF cap, d, r
  <2>3. Good("sget_str", stdin, o)
    BY <1>7, <2>1, <2>2, SafeGottenIsGood
  <2> QED  BY <1>7, <2>3
<1> QED  BY <1>1, <1>2, <1>3, <1>4, <1>5, <1>6, <1>7

LEMMA ReadIsGood ==
  ASSUME Working, NEW f, f.family \in Families, NEW t, NEW len, NEW base, NEW stdin, NEW o \in Read(f, t, len, base)
  PROVE  Good(f.family, stdin, o)
<1> DEFINE front == Opening(f, t, len, base)
<1>1. o \in Keeps(arena, "STR_SUCCESS") \/ o \in ReadBehind(f, t, len, front)
  BY Zenon DEF Read
<1>2. CASE o \in Keeps(arena, "STR_SUCCESS")
  <2>1. Untouched(o)
    BY <1>2, KeepsUntouched DEF Working
  <2> QED  BY <2>1, UntouchedIsGood DEF Working
<1>3. front.status = "GO" => ~arena.poisoned
  BY OpeningAsserts
<1> HIDE DEF front
<1> QED  BY <1>1, <1>2, <1>3, ReadBehindIsGood

-----------------------------------------------------------------------------
(* The actions *)

LEMMA IdleWorks ==
  ASSUME IInv, Idle
  PROVE  Working
BY IOAssumption DEF IInv, Idle, Working

LEMMA EndsGood ==
  ASSUME NEW fn, fn # "none", NEW kind, NEW line, NEW base, NEW len, NEW o, Ends(fn, kind, line, base, len, o),
         NEW stdin, stdin => ~kind.file, Good(fn, stdin, o)
  PROVE  IInv'
<1>1. Free(arena') /\ Kept(fn, stdin, x, o.status, x')
  BY DEF Ends, Good
<1>2. call'.fn = fn /\ call'.kind = kind /\ call'.was = x /\ call'.status = o.status
  BY DEF Ends
<1>3. RefusalKeeps'
  BY <1>1, <1>2 DEF Kept, Returns, Success, RefusalKeeps, CameBack, Done, Cleared
<1>4. KeepsRoom'
  BY <1>1, <1>2 DEF Kept, Returns, KeepsRoom, CameBack
<1> QED  BY <1>1, <1>2, <1>3, <1>4 DEF IInv, NumberKept

LEMMA EndsUntouched ==
  ASSUME IInv, Idle, NEW fn, fn # "none", NEW kind, NEW line, NEW base, NEW len, NEW o,
         Ends(fn, kind, line, base, len, o), Untouched(o)
  PROVE  IInv'
<1>1. Good(fn, FALSE, o)
  BY IdleWorks, UntouchedIsGood DEF Working
<1> QED  BY <1>1, EndsGood

LEMMA ReadLineStep ==
  ASSUME IInv, NEW family \in Families, ReadLine(family)
  PROVE  IInv'
<1>1. PICK f, l, base, cut, o :
        /\ f \in TextFns /\ f.family = family
        /\ o \in Read(f, Text(l), Len(Text(l)) - cut, base)
        /\ Ends(family, f, l, base, Len(Text(l)) - cut, o)
  BY Zenon DEF ReadLine
<1>2. Working /\ family # "none"
  BY IdleWorks DEF ReadLine, Families
<1>3. Good(family, FALSE, o)
  BY <1>1, <1>2, ReadIsGood
<1> QED  BY <1>1, <1>2, <1>3, EndsGood

LEMMA PrintIntoStep ==
  ASSUME IInv, NEW family \in {"tto_str", "to_str"}, PrintInto(family)
  PROVE  IInv'
<1>1. PICK f, base, len, o : o \in Printed(f, len, base) /\ Ends(family, f, NoLine, base, len, o)
  BY Zenon DEF PrintInto
<1>2. Working /\ family # "none" /\ Idle
  BY IdleWorks DEF PrintInto
<1>3. Untouched(o)
  BY <1>1, <1>2, PrintedUntouched
<1> QED  BY <1>1, <1>2, <1>3, EndsUntouched

LEMMA UnreachedStep ==
  ASSUME IInv, FromStr \/ BinaryIO
  PROVE  IInv'
<1>1. Idle /\ Working
  BY IdleWorks DEF FromStr, BinaryIO
<1>2. PICK fn, s, o : /\ fn \in {"from_str", "binary"} /\ o \in Keeps(arena, s)
                      /\ Ends(fn, "none", NoLine, 10, 0, o)
  BY DEF FromStr, BinaryIO, FromText, Binary
<1>3. Untouched(o)
  BY <1>1, <1>2, KeepsUntouched DEF Working
<1> QED  BY <1>1, <1>2, <1>3, EndsUntouched

LEMMA FormattedStep ==
  ASSUME IInv, ToStrf \/ TToStrf
  PROVE  IInv'
<1>1. Idle /\ Working
  BY IdleWorks DEF ToStrf, TToStrf
<1>2. CASE ToStrf
  <2>1. PICK base, len, upper, o : /\ o \in ToFormatted(len, base, upper)
                                   /\ Ends("to_strf", "none", NoLine, base, len, o)
    BY <1>2, Zenon DEF ToStrf
  <2>2. Untouched(o)
    BY <1>1, <2>1, ToFormattedUntouched
  <2> QED  BY <1>1, <2>1, <2>2, EndsUntouched
<1>3. CASE TToStrf
  <2>1. PICK base, o : o \in ToFormattedTruncated(base) /\ Ends("tto_strf", "none", NoLine, base, 0, o)
    BY <1>3, Zenon DEF TToStrf
  <2>2. Untouched(o)
    BY <1>1, <2>1, ToFormattedTruncatedUntouched
  <2> QED  BY <1>1, <2>1, <2>2, EndsUntouched
<1> QED  BY <1>2, <1>3

LEMMA PutStep ==
  ASSUME IInv, NEW file, PutOn(file) \/ SputOn(file)
  PROVE  IInv'
<1>1. Idle /\ Working
  BY IdleWorks DEF PutOn, SputOn
<1>2. CASE PutOn(file)
  <2>1. PICK a, o : o \in Put(a.kind, file, a.base, a.upper) /\ Ends("put", a.kind, NoLine, a.base, 0, o)
    BY <1>2, Zenon DEF PutOn
  <2>2. Untouched(o)
    BY <1>1, <2>1, PutUntouched
  <2> QED  BY <1>1, <2>1, <2>2, EndsUntouched
<1>3. CASE SputOn(file)
  <2>1. PICK a, o : o \in Sput(a.kind, file, a.base, a.upper) /\ Ends("sput", a.kind, NoLine, a.base, 0, o)
    BY <1>3, Zenon DEF SputOn
  <2>2. Untouched(o)
    BY <1>1, <2>1, SputUntouched
  <2> QED  BY <1>1, <2>1, <2>2, EndsUntouched
<1> QED  BY <1>2, <1>3

LEMMA ScanStep ==
  ASSUME IInv, NEW mode, NEW file, ScanFrom(mode, file)
  PROVE  IInv'
<1>1. PICK f \in ScanFns : \E t, base, fails, l, tail, o :
        o \in Scan(f, t, base, fails) /\ Ends("scan", f, l, base, Len(tail), o)
  BY Zenon DEF ScanFrom
<1>2. PICK t, base, fails, l, tail, o :
        o \in Scan(f, t, base, fails) /\ Ends("scan", f, l, base, Len(tail), o)
  BY <1>1
<1>3. Working /\ f.file \in BOOLEAN
  BY IdleWorks DEF ScanFrom, ScanFns
<1>4. Good("scan", ~f.file, o)
  BY <1>2, <1>3, ScanIsGood
<1> QED  BY <1>2, <1>4, EndsGood

LEMMA RenewStep ==
  ASSUME IInv, Renew
  PROVE  IInv'
<1>1. Free(arena')
  <2>1. ASSUME NEW a \in Arenas PROVE Free(a)
    BY IOAssumption DEF Free
  <2> QED  BY <2>1 DEF Renew, IInv
<1>2. call'.fn = "none" /\ call'.status = "NONE" /\ call'.was = x'
  BY DEF Renew, NoCall
<1>3. x' \in Objects \cup Printees
  BY DEF Renew
<1>4. NumberKept'
  BY <1>2 DEF NumberKept, RefusalKeeps, KeepsRoom
<1> QED  BY <1>1, <1>3, <1>4 DEF IInv

LEMMA InitInv == Init => IInv
<1> SUFFICES ASSUME Init PROVE IInv
  OBVIOUS
<1>1. Free(arena)
  BY IOAssumption DEF Init, Free
<1>2. call.fn = "none" /\ call.status = "NONE" /\ call.was = x
  BY DEF Init, NoCall
<1>3. NumberKept
  BY <1>2 DEF NumberKept, RefusalKeeps, KeepsRoom
<1> QED  BY <1>1, <1>3 DEF IInv, Init

LEMMA NextInv == IInv /\ [Next]_vars => IInv'
<1> SUFFICES ASSUME IInv, [Next]_vars PROVE IInv'
  OBVIOUS
<1>1. CASE StrInit \/ GetStr \/ TGetStr \/ SGetStr
  BY <1>1, ReadLineStep DEF StrInit, GetStr, TGetStr, SGetStr, Families
<1>2. CASE FromStr \/ BinaryIO
  BY <1>2, UnreachedStep
<1>3. CASE TToStr \/ ToStr
  BY <1>3, PrintIntoStep DEF TToStr, ToStr
<1>4. CASE TToStrf \/ ToStrf
  BY <1>4, FormattedStep
<1>5. CASE PutText \/ FputText \/ SputText \/ SfputText
  BY <1>5, PutStep DEF PutText, FputText, SputText, SfputText
<1>6. CASE ScanText \/ SscanText \/ TscanText \/ FscanText \/ FsscanText \/ FtscanText
  BY <1>6, ScanStep DEF ScanText, SscanText, TscanText, FscanText, FsscanText, FtscanText
<1>7. CASE Renew
  BY <1>7, RenewStep
<1>8. CASE UNCHANGED vars
  BY <1>8 DEF vars, IInv, NumberKept, RefusalKeeps, KeepsRoom, CameBack, Done, Free
<1> QED  BY <1>1, <1>2, <1>3, <1>4, <1>5, <1>6, <1>7, <1>8 DEF Next

-----------------------------------------------------------------------------
(* The theorems *)

\* Between any two calls the I/O arena is free and the number is one of the
\* client's; behind a call the number is as NumberKept says.
THEOREM IOInvariant == Spec => []IInv
BY InitInv, NextInv, PTL DEF Spec

\* Every call of the text input and output gives back, on every way out, what it
\* has taken of the I/O arena: also where an allocation or a growth fails, where
\* the line is refused, where a stream breaks off.
THEOREM IOArenaBalanced == Spec => []ArenaBalanced
<1>1. IInv => ArenaBalanced
  BY DEF IInv, Free, ArenaBalanced
<1> QED  BY <1>1, IOInvariant, PTL

\* A call that refuses its line leaves the number as it was, but for the room that
\* get may have made and the number that a stdin scan has cleared; what tget, sget and
\* the scans store fits the array that was there.
THEOREM IONumberKept == Spec => []NumberKept
<1>1. IInv => NumberKept
  BY DEF IInv
<1> QED  BY <1>1, IOInvariant, PTL
=============================================================================
