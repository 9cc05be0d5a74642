----------------------------- MODULE BigIntPrint -----------------------------
(***************************************************************************)
(* Number to text (dynamol/bigint/bigInt_io.c): into a buffer, truncating  *)
(* (tto) or refusing (to), and onto stdout or a stream, one character at a *)
(* time (put) or by chunks (sput).  See BigIntText for numbers, the arena  *)
(* and "UNDEFINED".  A buffer of len characters comes with "?" in each;    *)
(* "?" also stands for a character the call computes wrongly or not at all.*)
(***************************************************************************)
EXTENDS BigIntText

CONSTANT BufSize   \* ___DASI_IO_BUFSIZE

ASSUME PrintAssumption == BufSize \in Nat \ {0}

\* _DIGIT_INSEN_: both cases of the hexadecimal digits, 16 places apart.
DigitInsen32 == Decimal \o LowerHex \o Decimal \o UpperHex

\* bigInt_validate: of zero it reads the memory in front of the array.
ArithValid(h) == CoreValid(h) /\ IF h.n = 0 THEN h.sign = 1 ELSE TopLimb(h) # 0
MayRefuse(h)  == ~ArithValid(h) \/ h.n = 0

Shows(a, status, to, text) == [Leaves(x, a, status) EXCEPT !.to = to, !.out = text]

\* The digit d of a base, add places up in its table.
DigitChar(d, base, add) == IF base <= 16 THEN DigitInsen32[d + add + 1] ELSE DigitSen[d + 1]

\* The lowest k digits of v, the highest of them first.
DigitText(v, base, k, add) == [i \in 1 .. k |-> DigitChar((v \div base ^ (k - i)) % base, base, add)]

\* How many digits v has.
DigitCount(v, base) == CHOOSE k \in 0 .. LimbBits * 8 : v < base ^ k /\ (k > 0 => v >= base ^ (k - 1))

Minus(h) == IF h.sign = -1 THEN <<"-">> ELSE <<>>

\* The assertions at the head.
Refusals(base) ==
  (IF MayRefuse(x) THEN Keeps(arena, "BIGINT_ERR_INVAL") ELSE {})
  \cup (IF ArithValid(x) /\ base <= 1 THEN Keeps(arena, "STR_INVALID_BASE") ELSE {})
Passes(base) == ArithValid(x) /\ base > 1

-----------------------------------------------------------------------------
(* Into a buffer *)

BufferFns == [family : {"tto_str", "to_str"}, nlen : BOOLEAN, based : BOOLEAN]

Overwrite(buf, p, s) == [i \in DOMAIN buf |-> IF i - p \in DOMAIN s THEN s[i - p] ELSE buf[i]]

\* Mutant: the loop stops one place too early.
FilledShort(buf, v, base, lo, end, stops, add) ==
  [status |-> "STR_SUCCESS",
   out |-> [i \in DOMAIN buf |-> IF i - 1 \in lo + 1 .. end - 1 THEN DigitChar((v \div base ^ (end - i)) % base, base, add)
                                 ELSE buf[i]]]

\* for (i = end - 1; i >= lo; --i): with lo = 0 the unsigned i never ends the
\* loop, only the test for an exhausted number does, where there is one.
Filled(buf, v, base, lo, end, stops, add) ==
  IF lo = 0 /\ ~(stops /\ v < base ^ end) THEN [status |-> "UNDEFINED", out |-> buf]
  ELSE [status |-> "STR_SUCCESS",
        out |-> [i \in DOMAIN buf |->
                   IF i - 1 \in lo .. end - 1 /\ (stops => v \div base ^ (end - i) > 0)
                   THEN DigitChar((v \div base ^ (end - i)) % base, base, add) ELSE buf[i]]]

\* A number of one digit.
OneDigit(f, len, base) ==
  LET s == Minus(x)
  IN  IF len < 1 + Len(s) THEN Keeps(arena, "STR_INVALID_CAP")
      ELSE {Shows(arena, "STR_SUCCESS", "buffer",
                  Overwrite([i \in 1 .. len |-> "?"], 0, Append(s, DigitSen[x.val + 1])))}

\* bigInt_tto_str, _strb, _strn, _strnb: the sign is written before the arena is
\* asked.  tto_strb has no test for an exhausted number.
ToTruncated(f, len, base) ==
  LET s      == Minus(x)
      needed == CountDB(x, base) + Len(s)
      end    == IF needed < len THEN needed ELSE len
      signed == Overwrite([i \in 1 .. len |-> "?"], 0, s)
      r      == Filled(signed, x.val, base, Len(s), end, ~(f.based /\ ~f.nlen), 0)
  IN  IF len <= Len(s) THEN Keeps(arena, "STR_INVALID_CAP")
      ELSE {IF o.status # "GO" THEN [o EXCEPT !.to = "buffer", !.out = signed]
            ELSE Shows(o.arena, IF r.status = "STR_SUCCESS" /\ needed > len THEN "STR_TRUNC_SUCCESS" ELSE r.status,
                       "buffer", r.out) :
              o \in Allocates(x, x.n * WordBytes)}

\* bigInt_to_str, _strb, _strnb, without that test; to_strnb does not look at
\* what the arena returned.
ToWhole(f, len, base) ==
  LET s      == Minus(x)
      needed == CountDB(x, base) + Len(s)
      signed == Overwrite([i \in 1 .. len |-> "?"], 0, s)
      r      == Filled(signed, x.val, base, Len(s), needed, FALSE, 0)
  IN  IF len <= Len(s) \/ len < needed THEN Keeps(arena, "STR_INVALID_CAP")
      ELSE {CASE o.status # "GO" /\ f.nlen  -> [o EXCEPT !.status = "UNDEFINED"]
              [] o.status # "GO" /\ ~f.nlen -> [o EXCEPT !.to = "buffer", !.out = signed]
              [] OTHER -> Shows(o.arena, r.status, "buffer", r.out) :
              o \in Allocates(x, x.n * WordBytes)}

\* bigInt_to_strn asks whether the arena exists where the others ask whether it
\* is poisoned: past one digit it always fails.
Printed(f, len, base) ==
  Refusals(base) \cup
  (IF ~Passes(base) THEN {}
   ELSE CASE x.n = 1 /\ x.val <= base - 1 -> OneDigit(f, len, base)
          [] ~(x.n = 1 /\ x.val <= base - 1) /\ (arena.poisoned \/ (f.family = "to_str" /\ f.nlen /\ ~f.based)) ->
               Keeps(arena, "DNML_ALLOC_OOM")
          [] OTHER -> IF f.family = "tto_str" THEN ToTruncated(f, len, base) ELSE ToWhole(f, len, base))

\* prefix_space, and the prefix: for base 64 three of its five places stay as
\* they were, an upper-case letter and the digits of another base come out wrong.
PrefixSpace(base) ==
  IF base \in {2, 8, 16} THEN 2 ELSE IF base < 10 THEN 4 ELSE IF base < 100 THEN 5 ELSE 6
PrefixText(base, upper) ==
  CASE base \in {2, 8, 16} -> <<"0", IF upper THEN "?" ELSE CASE base = 2 -> "b" [] base = 8 -> "o" [] OTHER -> "x">>
    [] base = 64 -> <<"0", ",", "?", "?", "?">>
    [] OTHER -> <<"0", "{">> \o [i \in 1 .. PrefixSpace(base) - 3 |-> "?"] \o <<"}">>

\* bigInt_to_strf.
ToFormatted(len, base, upper) ==
  LET front  == Minus(x) \o PrefixText(base, upper)
      needed == CountDB(x, base) + Len(front)
      r      == Filled(Overwrite([i \in 1 .. len |-> "?"], 0, front), x.val, base, Len(front), needed, FALSE,
                       IF upper THEN 16 ELSE 0)
  IN  Refusals(base) \cup
      (IF ~Passes(base) THEN {}
       ELSE CASE arena.poisoned -> Keeps(arena, "DNML_ALLOC_OOM")
              [] ~arena.poisoned /\ (len <= Len(front) \/ len < needed) -> Keeps(arena, "STR_INVALID_CAP")
              [] OTHER -> {IF o.status = "GO" THEN Shows(o.arena, r.status, "buffer", r.out)
                           ELSE [o EXCEPT !.status = "UNDEFINED"] :
                             o \in Allocates(x, x.n * WordBytes)})

\* bigInt_tto_strf: the assertion that there is no arena fails.
ToFormattedTruncated(base) ==
  Refusals(base) \cup (IF Passes(base) THEN Keeps(arena, "DNML_ALLOC_OOM") ELSE {})

-----------------------------------------------------------------------------
(* Onto a stream *)

PutKinds == {"put", "putb", "putf"}

\* printf of a limb in base 10, 8 or 16.
Printf(v, base, add) == DigitText(v, base, DigitCount(v, base), add)

\* Mutant: the number is divided before its digit is put.
LastFirstShort(v, base, add) == Reverse(Printf(v \div base, base, add))

\* The loops that take the last digit first.
LastFirst(v, base, add) == Reverse(Printf(v, base, add))

PutPrefix(base) ==
  CASE base = 2 -> <<"0", "b">> [] base = 8 -> <<"0", "o">> [] base = 16 -> <<"0", "x">>
    [] base = 64 -> <<"0", ",">> [] base = 10 -> <<>>
    [] OTHER -> <<"0", "{">> \o Printf(base, 10, 0) \o <<"}">>

\* One limb in any other base than 2, 8, 10, 16: putb and fputb look their digits
\* up in the short table whatever the base.
ShortTable(v, base) ==
  LET d == Reverse([i \in 1 .. DigitCount(v, base) |-> (v \div base ^ (DigitCount(v, base) - i)) % base])
  IN  IF \E i \in DOMAIN d : d[i] >= 32 THEN <<>> ELSE [i \in DOMAIN d |-> DigitInsen32[d[i] + 1]]

\* bigInt_put, _putb, _putf, _fput, _fputb, _fputf of one limb.
PutLimb(kind, f, base, upper) ==
  LET v == x.val
  IN  CASE base = 10 \/ kind = "put" -> Printf(v, 10, 0)
        [] base # 10 /\ kind = "putb" ->
             (CASE base = 8 -> Printf(v, 8, 0) [] base = 16 -> Printf(v, 16, 16)
                [] base = 2 -> LastFirst(v, 2, 0) [] OTHER -> ShortTable(v, base))
        [] OTHER ->
             (CASE base = 8 -> <<"0">> \o Printf(v, 8, 0)
                [] base = 16 -> IF f THEN <<"0", "x">> \o Printf(v, 16, 0) ELSE <<"0", "X">> \o Printf(v, 16, 16)
                [] base = 2 -> <<"0", "b">> \o LastFirst(v, 2, 0)
                [] OTHER -> PutPrefix(base) \o LastFirst(v, base, IF f /\ upper THEN 16 ELSE 0))

\* Of several limbs: the number is divided down and each remainder put at once.
\* Upper case adds 15 where the table has its digits 16 places further.
PutLimbs(kind, to, base, upper) ==
  LET b     == IF kind = "put" THEN 10 ELSE base
      front == Minus(x) \o (IF kind = "putf" THEN PutPrefix(b) ELSE <<>>)
      text  == LastFirst(x.val, b, IF kind = "putf" /\ upper THEN 15 ELSE 0)
  IN  IF arena.poisoned THEN {Shows(arena, "DARENA_POISON", to, front)}
      ELSE {IF o.status = "GO" THEN Shows(o.arena, "STR_SUCCESS", to, front \o text)
            ELSE [o EXCEPT !.to = to, !.out = front] :
              o \in Allocates(x, x.n * WordBytes)}

\* Zero: fputb and fputf put it on stdout.
Put(kind, f, base, upper) ==
  LET to == IF f THEN "stream" ELSE "stdout"
      b  == IF kind = "put" THEN 10 ELSE base
  IN  Refusals(b) \cup
      (IF ~Passes(b) THEN {}
       ELSE CASE x.n = 0 -> {Shows(arena, "STR_SUCCESS", IF kind = "put" THEN to ELSE "stdout", <<"0">>)}
              [] x.n = 1 -> (IF PutLimb(kind, f, b, upper) = <<>> THEN Keeps(arena, "UNDEFINED")
                             ELSE {Shows(arena, "STR_SUCCESS", to, Minus(x) \o PutLimb(kind, f, b, upper))})
              [] OTHER -> PutLimbs(kind, to, b, upper))

-----------------------------------------------------------------------------
(* By chunks *)

\* The bits that a and b share, of those of a limb.
BitAnd(a, b) ==
  MapThenSumSet(LAMBDA i : 2 ^ i, {i \in 0 .. LimbBits - 1 : (a \div 2 ^ i) % 2 = 1 /\ (b \div 2 ^ i) % 2 = 1})

\* One limb, in a local array for other bases than 10, 8 and 16; sputf and sfputf
\* never write its first place, and sputf takes "tmp & base" for a remainder.
SputLimb(kind, f, base, upper) ==
  LET v     == x.val
      k     == DigitCount(v, base)
      rest  == [i \in 1 .. k |->
                  IF i = 1 THEN "?"
                  ELSE LET q == v \div base ^ (k - i)
                       IN  CASE base <= 16 -> DigitChar(q % base, base, IF f /\ upper THEN 16 ELSE 0)
                             [] base > 16 /\ f -> "?"
                             [] OTHER -> IF BitAnd(q, base) < 64 THEN DigitSen[BitAnd(q, base) + 1] ELSE "?"]
      line  == IF kind = "putb" /\ ~f THEN <<>> ELSE <<NL>>
  IN  CASE base = 10 \/ kind = "put" -> Minus(x) \o <<" ">> \o Printf(v, 10, 0) \o <<NL>>
        [] base \in {8, 16} /\ kind = "putb" ->
             Minus(x) \o <<" ">> \o Printf(v, base, IF base = 16 THEN 16 ELSE 0) \o <<NL>>
        [] base = 8 /\ kind = "putf" -> Minus(x) \o <<" ", "0">> \o Printf(v, 8, 0) \o <<NL>>
        [] base = 16 /\ kind = "putf" ->
             Minus(x) \o (IF f THEN <<" ", "0", "x">> \o Printf(v, 16, 0) ELSE <<" ", "0", "X">> \o Printf(v, 16, 16)) \o <<NL>>
        [] base \notin {8, 10, 16} /\ kind = "putb" -> Minus(x) \o Reverse(ShortTable(v, base)) \o line
        [] OTHER -> Minus(x) \o PutPrefix(base) \o rest \o line

\* The chunk, and the loop from its end down to begin, which ends for no number
\* without a sign or a prefix, and leaves nothing for a second chunk to print.
\* sfputf divides its own base down to 0 where it means to write it.
SputLimbs(kind, f, base, upper) ==
  LET other == base \notin {2, 8, 10, 16, 64}
      front == CASE kind # "putf" \/ base = 10 -> Minus(x)
                 [] kind = "putf" /\ base # 10 /\ other -> Minus(x)
                 [] OTHER -> Minus(x) \o (IF upper /\ base # 64
                                          THEN <<"0", CASE base = 2 -> "B" [] base = 8 -> "O" [] OTHER -> "X">>
                                          ELSE PrefixText(base, FALSE))
      k     == CountDB(x, base)
      text  == DigitText(x.val, base, k, IF kind = "putf" /\ upper THEN 16 ELSE 0)
      to    == IF f THEN "stream" ELSE "stdout"
      ends  == front # <<>> /\ Len(front) + k <= BufSize /\ ~(kind = "putf" /\ other)
  IN  CASE kind = "putf" /\ ~f -> Keeps(arena, "DNML_ALLOC_OOM")
        [] ~(kind = "putf" /\ ~f) /\ arena.poisoned ->
             Keeps(arena, IF kind = "put" /\ ~f THEN "DARENA_POISON" ELSE "DNML_ALLOC_OOM")
        [] OTHER -> {CASE o.status # "GO" -> o
                       [] o.status = "GO" /\ ~ends -> [o EXCEPT !.status = "UNDEFINED"]
                       [] OTHER -> Shows(o.arena, "STR_SUCCESS", to,
                                         front \o text \o (IF kind = "putb" /\ ~f THEN <<>> ELSE <<NL>>)) :
                       o \in Allocates(x, x.n * WordBytes)}

\* bigInt_sput, _sputb, _sputf, _sfput, _sfputb, _sfputf.
Sput(kind, f, base, upper) ==
  LET b  == IF kind = "put" THEN 10 ELSE base
      to == IF f THEN "stream" ELSE "stdout"
  IN  Refusals(b) \cup
      (IF ~Passes(b) THEN {}
       ELSE CASE x.n = 0 -> {Shows(arena, "STR_SUCCESS", to, <<"0", NL>>)}
              [] x.n = 1 -> {Shows(arena, "STR_SUCCESS", to, SputLimb(kind, f, b, upper))}
              [] OTHER -> SputLimbs(kind, f, b, upper))
=============================================================================
