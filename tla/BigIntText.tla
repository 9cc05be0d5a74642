------------------------------ MODULE BigIntText ------------------------------
(***************************************************************************)
(* Text to number (dynamol/bigint/bigInt_io.c): the calls that construct a *)
(* bigInt from a text (strinit), assign one and grow (get), truncate       *)
(* (tget) or refuse (sget) when it does not fit, and the functional ones   *)
(* (from).  Each exists for a terminated string and for n characters, with *)
(* a prefix in the text or an explicit base.                               *)
(*                                                                         *)
(* A number is seen by its value: [val, n, cap, sign], where val is what   *)
(* its n limbs hold and cap = 0 stands for limbs = NULL.  A limb that a    *)
(* call brings into use without writing it is unset, see Stale.            *)
(* The calls work in the thread's I/O arena, [cap, held, poisoned] in      *)
(* words; held is what the calls so far have not given back.               *)
(*                                                                         *)
(* "UNDEFINED" stands for a call that leaves its blocks or its text, never *)
(* ends, or asks the C library for something it does not define.           *)
(***************************************************************************)
EXTENDS StrParse, FiniteSets, FiniteSetsExt

CONSTANTS
  LimbBits,   \* 64 in the code
  WordBytes,  \* U64_BYTES: the text calls ask for bytes where the arena counts words
  MaxValue    \* bound on the powers the digit estimates look at

ASSUME TextAssumption == LimbBits \in Nat \ {0} /\ WordBytes \in Nat \ {0} /\ MaxValue \in Nat

VARIABLES
  x,      \* the number the client works on
  arena,  \* the I/O arena of the thread
  call    \* the last call: [fn, arg, was, status, out]

vars == <<x, arena, call>>

Radix == 2 ^ LimbBits
Limbs(v) == CHOOSE k \in 0 .. v : v < Radix ^ k /\ (k > 0 => v >= Radix ^ (k - 1))
TopLimb(h) == h.val \div Radix ^ (h.n - 1)

\* The unset limbs from limb n up to limb k, above the value v.  Bound: all are
\* zero, or all are ones.
Stale(v, n, k) == IF n >= k THEN {v} ELSE {v, v + (Radix ^ (k - n) - 1) * Radix ^ n}

Number(v, n, cap, sign) == [val |-> v, n |-> n, cap |-> cap, sign |-> sign]

\* __BIGINT_INTERNAL_PVALID__.
CoreValid(h) == h.cap >= 1 /\ h.n <= h.cap /\ h.sign \in {1, -1}

-----------------------------------------------------------------------------
(* Digits and limbs *)

\* Mutant: the first digit is not counted.
BitCountShort(d, base) == Cardinality({b \in 0 .. MaxValue : 2 ^ b < base ^ (d - 1)})

\* __BITCOUNT___, base 1 to 255: the ceiling of d * log2(base), which is how many
\* powers of two are less than base^d.
BitCount(d, base) == Cardinality({b \in 0 .. MaxValue : 2 ^ b < base ^ d})

\* __BIGINT_LIMBS_NEEDED__ of that, d being unsigned: of a negative number of
\* bits the sum wraps to no limb, every other factor leaves the type.
Undef == -1
NeedLimbs(d, base) ==
  CASE d = 0 -> 0
    [] d # 0 /\ base = 0 -> Undef
    [] d < 0 /\ base > 0 -> IF base = 2 THEN 0 ELSE IF base = 1 THEN 0 ELSE Undef
    [] OTHER -> (BitCount(d, base) + LimbBits - 1) \div LimbBits

\* __BIGINT_COUNTDB__ for a base that is no power of two, from the top limb and
\* the next: one plus the logarithm of (top + next / (R - 1) + 1) * R^(n - 1).
CountDigits(h, base) ==
  LET top  == TopLimb(h)
      next == (h.val \div Radix ^ (h.n - 2)) % Radix
      num  == IF h.n = 1 THEN top * (Radix - 1) ELSE top * (Radix - 1) + next + Radix - 1
  IN  IF h.n = 0 \/ (h.n = 1 /\ h.val = 0) THEN 0
      ELSE 1 + CHOOSE k \in 0 .. MaxValue :
                 /\ base ^ k * (Radix - 1) <= num * Radix ^ (h.n - 1)
                 /\ base ^ (k + 1) * (Radix - 1) > num * Radix ^ (h.n - 1)

\* A power of two: from the bits in use, a top limb of 0 counting none.
CountDB(h, base) ==
  IF base \in {2, 4, 8, 16, 32, 64, 128} THEN
    LET per  == CHOOSE k \in 1 .. 7 : base = 2 ^ k
        bits == IF h.n = 0 THEN 0
                ELSE (h.n - 1) * LimbBits
                     + CHOOSE b \in 0 .. LimbBits : TopLimb(h) < 2 ^ b /\ (b > 0 => TopLimb(h) >= 2 ^ (b - 1))
    IN  IF h.n = 0 \/ (h.n = 1 /\ h.val = 0) THEN 0 ELSE (bits + per - 1) \div per
  ELSE CountDigits(h, base)

\* The loop of __BIGINT_INTERNAL_MUL_UI64__ and _ADD_UI64__ over digits, from the
\* value start and in room limbs: a wrong digit ends it, a value that does not
\* fit is stored behind the block.  The digit base itself is not refused.
Accumulate(digits, base, start, room) ==
  LET Bad(c)  == DigitValue(c, base) > base
      n       == IF \E i \in DOMAIN digits : Bad(digits[i])
                 THEN SelectInSeq(digits, Bad) - 1 ELSE Len(digits)
      value   == FoldLeft(LAMBDA v, c : (IF base = 0 THEN 0 ELSE v * base) + DigitValue(c, base),
                          start, SubSeq(digits, 1, n))
  IN  CASE Limbs(value) > room -> [status |-> "UNDEFINED", val |-> 0]
        [] Limbs(value) <= room /\ n < Len(digits) -> [status |-> "STR_INVALID_DIGIT", val |-> 0]
        [] OTHER -> [status |-> "STR_SUCCESS", val |-> value]

-----------------------------------------------------------------------------
(* Outcomes: what a call leaves, and the arena it leaves *)

Leaves(h, a, status) == [x |-> h, arena |-> a, status |-> status, out |-> <<>>, to |-> "none"]
Keeps(a, status)     == {Leaves(x, a, status)}

\* arena_galloc of k words: the arena doubles until they fit, or is poisoned.
Grown(a, k) ==
  [a EXCEPT !.cap = CHOOSE c \in {@ * 2 ^ j : j \in 0 .. k} :
                      c >= a.held + k /\ (c > a.cap => c \div 2 < a.held + k)]
Galloc(a, k) ==
  IF a.held + k <= a.cap THEN {[a EXCEPT !.held = @ + k]}
  ELSE {[Grown(a, k) EXCEPT !.held = @ + k], [a EXCEPT !.poisoned = TRUE]}

\* bigInt_reserve: the capacity doubles until k limbs fit, or the allocation fails.
Reserved(h, k) ==
  IF h.cap >= k THEN {h}
  ELSE {h} \cup {[h EXCEPT !.cap = c] : c \in {c \in k .. 2 * k - 1 : \E j \in 1 .. k : c = h.cap * 2 ^ j}}

\* Mutant: the call forgets to rewind.
RewoundNot(a, mark) == a

\* arena_rewind.
Rewound(a, mark) == [a EXCEPT !.held = IF mark <= @ THEN mark ELSE @]

-----------------------------------------------------------------------------
(* The front of every call: white space, sign, prefix, leading zeros *)

Families == {"strinit", "get_str", "tget_str", "sget_str"}
TextFns  == [family : Families, nlen : BOOLEAN, based : BOOLEAN]

\* Where the text ends for a call of its kind.
End(f, t, len) == IF f.nlen THEN len ELSE Len(t)
Ended(f, t, p, len) == (f.nlen /\ p = len) \/ At(t, p) = NUL

Stop(status)        == [status |-> status, pos |-> 0, sign |-> 1, base |-> 10]
Go(p, sign, base)   == [status |-> "GO", pos |-> p, sign |-> sign, base |-> base]
ZeroOf(sign)        == Stop(IF sign = -1 THEN "STR_INVALID_SIGN" ELSE "ZERO")

\* Leading zeros.  With a length, the loop does not stop at it.
ZerosSkipped(f, t, p, len, sign, base) ==
  LET q == RunEnd(t, p, Len(t), {"0"})
  IN  IF Ended(f, t, q, len) THEN ZeroOf(sign) ELSE Go(q, sign, base)

\* strbinit has no test behind the white space, get_strnb another status.
BasedFront(f, t, len, base) ==
  LET p == SkipWhitespace(t, 0, End(f, t, len))
      q == IF At(t, p) \in Signs THEN p + 1 ELSE p
      strbinit == f.family = "strinit" /\ ~f.nlen
  IN  CASE Ended(f, t, p, len) /\ ~strbinit -> Stop("STR_EMPTY")
        [] Ended(f, t, q, len) /\ (strbinit \/ ~Ended(f, t, p, len)) ->
             Stop(IF f.family = "get_str" /\ f.nlen THEN "STR_INVALID_DIGIT" ELSE "STR_INCOMPLETE")
        [] OTHER -> ZerosSkipped(f, t, q, len, IF At(t, p) = "-" THEN -1 ELSE 1, base)

\* Behind the sign s, with the prefix b: strinit and strninit do not look at code
\* 4, a base over 255.
BehindPrefix(f, t, len, s, b) ==
  LET init == f.family = "strinit"
  IN  CASE b.code = 3 -> Stop("STR_INCOMPLETE")
        [] b.code = 0 -> ZeroOf(s.sign)
        [] b.code = 2 -> Stop("STR_INVALID_BASE_PREFIX")
        [] b.code = 4 /\ ~init -> Stop("STR_INVALID_BASE")
        [] OTHER -> ZerosSkipped(f, t, b.pos, len, s.sign, b.base)

\* Behind the white space, with the sign s.
BehindSign(f, t, len, s) ==
  CASE s.code = 4 -> Stop(IF f.family = "strinit" THEN "STR_INVALID_SIGN" ELSE "STR_INVALID_DIGIT")
    [] s.code = 3 -> Stop("STR_INCOMPLETE")
    [] OTHER -> BehindPrefix(f, t, len, s, IF f.nlen THEN PrefixHandleNlen(t, s.pos, len)
                                           ELSE PrefixHandle(t, s.pos))

PrefixedFront(f, t, len) ==
  LET p == SkipWhitespace(t, 0, End(f, t, len))
  IN  IF Ended(f, t, p, len) THEN Stop("STR_EMPTY")
      ELSE BehindSign(f, t, len, IF f.nlen THEN SignHandleNlen(t, p, len) ELSE SignHandle(t, p))

\* The assertions at the head, in their order, and then the front.
Opening(f, t, len, base) ==
  CASE f.family # "strinit" /\ ~CoreValid(x) -> Stop("BIGINT_ERR_SINVAL")
    [] (f.family = "strinit" \/ CoreValid(x)) /\ f.based /\ base <= 1 -> Stop("STR_INVALID_BASE")
    [] OTHER -> CASE Ended(f, t, 0, len) -> Stop("STR_EMPTY")
                  [] ~Ended(f, t, 0, len) /\ arena.poisoned -> Stop("DNML_ALLOC_OOM")
                  [] OTHER -> IF f.based THEN BasedFront(f, t, len, base) ELSE PrefixedFront(f, t, len)

-----------------------------------------------------------------------------
(* The calls *)

\* From p upwards, end excluded, and downwards from end.
Upwards(t, p, end)   == SubSeq(t, p + 1, end)
Downwards(t, p, end) == Reverse(Upwards(t, p, end))

\* Mutant: the loop stops before the last character.
InitDigitsShort(f, t, p, len) == Upwards(t, p, IF f.nlen THEN len - 1 ELSE StrLen(t, p) - 1)

\* The digits strinit reads.  For a string the length of the tail is taken for
\* the position of its end: as many digits are lost as were characters skipped.
InitDigits(f, t, p, len) == Upwards(t, p, IF f.nlen THEN len ELSE StrLen(t, p))

\* The allocation of k words fails, or is granted: the arena rewinds on every way
\* out that has allocated.
Ungranted(h, k) == {Leaves(h, a, "DNML_ALLOC_OOM") : a \in {a \in Galloc(arena, k) : a.poisoned}}
Granted(k) == {Rewound(a, arena.held) : a \in {a \in Galloc(arena, k) : ~a.poisoned}}
Allocates(h, k) == Ungranted(h, k) \cup {Leaves(h, a, "GO") : a \in Granted(k)}

\* The new number of cap limbs, of what the digits gave.
ConstructedWith(f, front, cap, r) ==
  LET n == IF f.based /\ ~f.nlen THEN cap ELSE Limbs(r.val)
      After(a) ==
        CASE r.status # "STR_SUCCESS" -> Keeps(a, r.status)
          [] r.status = "STR_SUCCESS" /\ cap = 0 -> Keeps(a, "UNDEFINED")
          [] OTHER -> Keeps(a, "ABORTED")
                      \cup {Leaves(Number(v, n, cap, front.sign), a, "STR_SUCCESS") :
                              v \in Stale(r.val, Limbs(r.val), n)}
  IN  IF cap = Undef THEN Keeps(arena, "UNDEFINED")
      ELSE Ungranted(x, cap * WordBytes) \cup UNION {After(a) : a \in Granted(cap * WordBytes)}

\* bigInt_strinit, _strbinit, _strninit, _strnbinit, behind the front.
Constructed(f, t, len, front) ==
  LET cap == NeedLimbs(IF f.nlen THEN len - front.pos + 1 ELSE StrLen(t, front.pos), front.base)
  IN  ConstructedWith(f, front, cap, Accumulate(InitDigits(f, t, front.pos, len), front.base, 0, cap))

\* The end the other families count down from.
TailEnd(f, t, p, len) == IF f.nlen THEN ActualLen(t, len) ELSE StrLen(t, p)

\* The loop over digits: one that should end below position 0 does not end.
Unended(r, endless) ==
  IF endless /\ r.status = "STR_SUCCESS" THEN [r EXCEPT !.status = "UNDEFINED"] ELSE r
Counted(digits, base, start, room, endless) == Unended(Accumulate(digits, base, start, room), endless)

\* A shift of the temporary while it is zero sets its sign to 1.
SignKept(val, base, sign) == IF val = 0 \/ base \in {2, 4, 8, 16, 32, 64, 128} THEN 1 ELSE sign

\* The temporary copied into h, which then counts n limbs.
CopiedOver(h, r, base, sign, n) ==
  {[h EXCEPT !.val = v, !.n = n, !.sign = SignKept(r.val, base, sign)] : v \in Stale(r.val, Limbs(r.val), n)}

\* x grows to cap limbs and takes what the digits gave.
GottenWith(front, cap, r) ==
  LET After(h, a) == IF r.status # "STR_SUCCESS" THEN {Leaves(h, a, r.status)}
                     ELSE {Leaves(g, a, "STR_SUCCESS") : g \in CopiedOver(h, r, front.base, front.sign, cap)}
  IN  IF cap = Undef THEN Keeps(arena, "UNDEFINED")
      ELSE UNION {IF h.cap < cap THEN Keeps(arena, "DNML_ALLOC_OOM")
                  ELSE Ungranted(h, cap * WordBytes)
                       \cup UNION {After(h, a) : a \in Granted(cap * WordBytes)} : h \in Reserved(x, cap)}

\* bigInt_get_str, _strb, _strn, _strnb: the digits from the last to the first.
Gotten(f, t, len, front) ==
  LET p   == front.pos
      end == TailEnd(f, t, p, len)
      cap == NeedLimbs(end - p, front.base)
  IN  GottenWith(front, cap, Counted(Downwards(t, p, end), front.base, 0, cap, p = 0))

\* x takes what the digits gave, in as many of cap limbs as it has.
TruncGottenWith(f, front, cap, r) ==
  LET cut   == cap > x.cap
      room  == IF cut THEN x.cap ELSE cap
      words == (IF f.nlen \/ f.based THEN cap ELSE room) * WordBytes
      After(a) == IF r.status # "STR_SUCCESS" THEN Keeps(a, r.status)
                  ELSE {Leaves(g, a, IF cut THEN "STR_TRUNC_SUCCESS" ELSE "STR_SUCCESS") :
                          g \in CopiedOver(x, r, front.base, front.sign, room)}
  IN  IF cap = Undef THEN Keeps(arena, "UNDEFINED")
      ELSE Ungranted(x, words) \cup UNION {After(a) : a \in Granted(words)}

\* The character at the front's end, once for every position above the limit.
Repeated(c, rounds) == [i \in 1 .. rounds |-> c]
TruncCounted(t, front, end, limit, room) ==
  Counted(Repeated(At(t, front.pos), IF limit < 0 THEN 0 ELSE Max({0, end - limit})), front.base, 0, room, limit = 0)
\* The limit is the front's end, or leaves as many positions as x, not the text,
\* has decimal digits.
TruncFitted(f, t, front, end, cap) ==
  TruncGottenWith(f, front, cap,
    TruncCounted(t, front, end, IF cap > x.cap THEN end - CountDB(x, 10) ELSE front.pos, Min({cap, x.cap})))
\* bigInt_tget_str, _strb, _strn, _strnb.
TruncGotten(f, t, len, front) ==
  LET end == TailEnd(f, t, front.pos, len)
  IN  TruncFitted(f, t, front, end, NeedLimbs(IF f.based THEN end ELSE end - front.pos, front.base))

\* Mutant: what does not fit is read all the same.
TooLargeNever(cap) == FALSE

\* The refusal of sget.
TooLarge(cap) == x.cap < cap

\* A temporary that starts with cap unset limbs, behind which the digits' value
\* would go.  Bound: they are all zeros, or so full that the first
\* digit carries out of them.
SafeGottenWith(front, digits, cap, r) ==
  LET After(a) ==
        (IF r.status # "STR_SUCCESS" THEN Keeps(a, r.status)
         ELSE {Leaves([x EXCEPT !.val = r.val, !.n = cap, !.sign = front.sign], a, "STR_SUCCESS")})
        \cup (IF cap > 0 /\ digits # <<>> /\ DigitValue(digits[1], front.base) <= front.base
              THEN Keeps(a, "UNDEFINED") ELSE {})
  IN  CASE cap = Undef -> Keeps(arena, "UNDEFINED")
        [] cap # Undef /\ TooLarge(cap) -> Keeps(arena, "BIGINT_ERR_RANGE")
        [] OTHER -> Ungranted(x, cap * WordBytes) \cup UNION {After(a) : a \in Granted(cap * WordBytes)}

\* bigInt_sget_str, _strb, _strn, _strnb.
SafeGotten(f, t, len, front) ==
  LET p      == front.pos
      end    == TailEnd(f, t, p, len)
      cap    == NeedLimbs(end - p, front.base)
      digits == Downwards(t, p, end)
  IN  SafeGottenWith(front, digits, cap, Counted(digits, front.base, 0, cap, p = 0))

\* Zero, in the first family malloc of one limb, in the others in place.
GotZero(f) ==
  IF f.family = "strinit"
  THEN {Leaves(Number(0, 0, 1, 1), arena, "STR_SUCCESS"), Leaves(x, arena, "DNML_ALLOC_OOM")}
  ELSE {Leaves([x EXCEPT !.val = 0, !.n = 0, !.sign = 1], arena, "STR_SUCCESS")}

\* Behind the front.
ReadBehind(f, t, len, front) ==
  CASE front.status = "ZERO" -> GotZero(f)
    [] front.status \notin {"GO", "ZERO"} -> Keeps(arena, front.status)
    [] OTHER -> CASE f.family = "strinit"  -> Constructed(f, t, len, front)
                  [] f.family = "get_str"  -> Gotten(f, t, len, front)
                  [] f.family = "tget_str" -> TruncGotten(f, t, len, front)
                  [] f.family = "sget_str" -> SafeGotten(f, t, len, front)

\* What the call of kind f makes of t, of which it is given len characters.
Read(f, t, len, base) ==
  IF f.family = "strinit" /\ x.cap > 0 THEN Keeps(arena, "STR_SUCCESS")
  ELSE ReadBehind(f, t, len, Opening(f, t, len, base))

\* bigInt_from_str and its kind: the assertion that str is NULL fails.
FromText == Keeps(arena, "STR_NULL")
=============================================================================
