------------------------------- MODULE StrParse -------------------------------
(***************************************************************************)
(* The scanners under the text calls of bigInt (util/perf_util/str_parse.c *)
(* and the tables of include/tables.c): white space, sign, base prefix,    *)
(* leading zeros.  Each exists for a terminated string, for a string of    *)
(* known length, and the prefix for a stream.                              *)
(*                                                                         *)
(* A text is the sequence of the characters in memory; positions count     *)
(* from 0 as in the code, and what follows the last character is NUL (the  *)
(* end of the file, for a stream).  A scanner returns its code, the        *)
(* position it leaves behind and, where it finds one, the base or sign.    *)
(***************************************************************************)
EXTENDS Integers, Sequences, SequencesExt

NUL == "NUL"
NL  == "NL"

At(t, p) == IF p < Len(t) THEN t[p + 1] ELSE NUL

Decimal  == <<"0", "1", "2", "3", "4", "5", "6", "7", "8", "9">>
UpperHex == <<"A", "B", "C", "D", "E", "F">>
LowerHex == <<"a", "b", "c", "d", "e", "f">>
Upper    == UpperHex \o <<"G", "H", "I", "J", "K", "L", "M", "N", "O", "P",
                          "Q", "R", "S", "T", "U", "V", "W", "X", "Y", "Z">>
Lower    == LowerHex \o <<"g", "h", "i", "j", "k", "l", "m", "n", "o", "p",
                          "q", "r", "s", "t", "u", "v", "w", "x", "y", "z">>

\* _DIGIT_INSEN_ and _DIGIT_SEN_, from digit 0.
DigitInsen == Decimal \o LowerHex
DigitSen   == Decimal \o Upper \o Lower \o <<".", "/">>

Digits == ToSet(Decimal)
IsDigit(c) == c \in Digits
Spaces == {" ", NL}

\* What the tables hold for a character that is no digit: -1 as a byte.
NoDigit == 255
ValueIn(digits, c) ==
  IF c \in ToSet(digits) THEN (CHOOSE i \in DOMAIN digits : digits[i] = c) - 1 ELSE NoDigit

\* Mutant: a character that is no digit has a 0 in the tables.
DigitValueOpen(c, base) ==
  LET v == ValueIn(IF base <= 16 THEN DigitInsen ELSE DigitSen, c) IN IF v = NoDigit THEN 0 ELSE v

\* _VALUE_LOOKUP_INSEN_ takes both cases of a hexadecimal digit.  A comma is
\* missing in the row of _VALUE_LOOKUP_SEN_ before 'a', so the entries of the
\* small letters stand one place too low: each counts one too many, z nothing.
DigitValue(c, base) ==
  CASE base <= 16 /\ c \in ToSet(UpperHex) -> ValueIn(UpperHex, c) + 10
    [] base <= 16 /\ c \notin ToSet(UpperHex) -> ValueIn(DigitInsen, c)
    [] base > 16 /\ c \in ToSet(Lower) -> IF c = "z" THEN NoDigit ELSE ValueIn(DigitSen, c) + 1
    [] OTHER -> ValueIn(DigitSen, c)

\* The number that digits, most significant first, stand for.
Numeral(digits, base) == FoldLeft(LAMBDA v, c : v * base + DigitValue(c, base), 0, digits)

-----------------------------------------------------------------------------
(* Runs *)

\* The end of the run of these characters that begins at p, end at most.
RunEnd(t, p, end, chars) ==
  IF p >= end THEN p
  ELSE CHOOSE q \in p .. end : /\ \A i \in p .. q - 1 : At(t, i) \in chars
                               /\ q = end \/ At(t, q) \notin chars

\* Where the first c at or behind p stands, end at most.
FirstAt(t, p, end, c) ==
  IF p >= end THEN p
  ELSE CHOOSE q \in p .. end : /\ \A i \in p .. q - 1 : At(t, i) # c
                               /\ q = end \/ At(t, q) = c

\* _skip_whitespace, _skip_leading_zeros and _actual_len.
SkipWhitespace(t, p, len)   == RunEnd(t, p, len, Spaces)
SkipLeadingZeros(t, p, len) == RunEnd(t, p, len, {"0"})
ActualLen(t, len)           == FirstAt(t, 0, len, NUL)

\* strlen(str + p).
StrLen(t, p) == FirstAt(t, p, Len(t), NUL) - p

-----------------------------------------------------------------------------
(* Sign *)

Signs == {"-", "+"}

\* The positions of a text behind which a handler does not read.
NulsOf(t) == {i \in 0 .. Len(t) + 1 : At(t, i) = NUL}

\* 0, or 3 when the text ends behind the sign, or 4 when no digit follows.
SignFrom(t, p, ends) ==
  LET q    == IF At(t, p) \in Signs THEN p + 1 ELSE p
      bare == q > p /\ q \in ends
  IN  [code |-> CASE bare -> 3
                  [] ~bare /\ At(t, q) # NUL /\ ~IsDigit(At(t, q)) -> 4
                  [] OTHER -> 0,
       pos  |-> q, sign |-> IF At(t, p) = "-" THEN -1 ELSE 1]

\* _sign_handle_.
SignHandle(t, p) == SignFrom(t, p, NulsOf(t))

\* Mutant: the length is not looked at.
SignHandleNlenPast(t, p, end) == SignFrom(t, p, NulsOf(t))

\* _sign_handle_nlen_.
SignHandleNlen(t, p, end) == SignFrom(t, p, NulsOf(t) \cup {end})

-----------------------------------------------------------------------------
(* Base prefix *)

Found(code, p, base) == [code |-> code, pos |-> p, base |-> base]

MaxBase == 255

\* The digits end at cut: 0 found, 1 over 255, 2 the text ends, 3 another
\* character.
BprefixEnds(t, p, ends, cut, base) ==
  CASE base > MaxBase -> Found(1, cut - 1, 10)
    [] base <= MaxBase /\ cut \in ends -> Found(2, cut, 10)
    [] base <= MaxBase /\ cut \notin ends /\ cut > p /\ At(t, cut) = "}" -> Found(0, cut + 1, base)
    [] OTHER -> Found(3, cut, 10)

\* _arbit_bprefix from behind the brace: up to three digits and the closing one.
ArbitBprefix(t, p, ends) ==
  LET q   == RunEnd(t, p, p + 3, Digits)
      cut == CHOOSE e \in p .. q : /\ e < q => e \in ends
                                   /\ \A i \in p .. e - 1 : i \notin ends
  IN  BprefixEnds(t, p, ends, cut, Numeral(SubSeq(t, p + 1, cut), 10))

\* case '{' of the prefix handlers: what _arbit_bprefix returns, renamed.
Braced(t, p, ends, overflow) ==
  LET r == ArbitBprefix(t, p, ends)
  IN  [r EXCEPT !.code = CASE @ = 0 -> 1 [] @ = 1 -> overflow [] @ = 2 -> 3 [] OTHER -> 2]

Letters == [c \in {"x", "X", "b", "B", "o", "O", ","} |->
              CASE c \in {"x", "X"} -> 16 [] c \in {"b", "B"} -> 2 [] c \in {"o", "O"} -> 8 [] OTHER -> 64]

\* _prefix_handle_nlen_: 0 the text is a lone 0, 1 a prefix or none, 2 a wrong
\* character, 3 incomplete, 4 the base is over 255.  A digit behind a leading
\* zero is passed over with the zero.
PrefixHandleNlen(t, p, end) ==
  LET ends == NulsOf(t) \cup {end}
      c == At(t, p + 1)
  IN  CASE p \in ends -> Found(3, p, 10)
        [] p \notin ends /\ At(t, p) # "0" -> Found(IF IsDigit(At(t, p)) THEN 1 ELSE 2, p, 10)
        [] p \notin ends /\ At(t, p) = "0" /\ p + 1 \in ends -> Found(0, p + 1, 10)
        [] p \notin ends /\ At(t, p) = "0" /\ p + 1 \notin ends /\ IsDigit(c) -> Found(1, p + 2, 10)
        [] p \notin ends /\ At(t, p) = "0" /\ p + 1 \notin ends /\ c \in DOMAIN Letters ->
             Found(1, p + 2, Letters[c])
        [] p \notin ends /\ At(t, p) = "0" /\ p + 1 \notin ends /\ c = "{" ->
             IF p + 2 = end THEN Found(3, p + 1, 10)
             ELSE IF ~IsDigit(At(t, p + 2)) THEN Found(2, p + 1, 10)
             ELSE Braced(t, p + 2, ends, 4)
        [] OTHER -> Found(2, p + 1, 10)

\* _prefix_handle_: a brace that ends the string is a wrong character here.
PrefixHandle(t, p) ==
  LET ends == NulsOf(t)
      c == At(t, p + 1)
  IN  CASE p \in ends -> Found(3, p, 10)
        [] p \notin ends /\ At(t, p) # "0" -> Found(IF IsDigit(At(t, p)) THEN 1 ELSE 2, p, 10)
        [] p \notin ends /\ At(t, p) = "0" /\ p + 1 \in ends -> Found(0, p + 1, 10)
        [] p \notin ends /\ At(t, p) = "0" /\ IsDigit(c) -> Found(1, p + 2, 10)
        [] p \notin ends /\ At(t, p) = "0" /\ c \in DOMAIN Letters -> Found(1, p + 2, Letters[c])
        [] p \notin ends /\ At(t, p) = "0" /\ c = "{" /\ IsDigit(At(t, p + 2)) -> Braced(t, p + 2, ends, 4)
        [] OTHER -> Found(2, p + 1, 10)

\* _prefix_handle_stream__, p being where curr_char was read.  A line ends like
\* the file; 4 is a file error, 5 a base over 255.
PrefixHandleStream(t, p, fails) ==
  LET ends == {i \in 0 .. Len(t) + 1 : At(t, i) \in {NUL, NL}}
      Cut(i, code) == IF At(t, i) = NUL /\ fails THEN 4 ELSE code
      CutBrace(r) == IF r.code = 3 THEN [r EXCEPT !.code = Cut(r.pos, 3)] ELSE r
      c == At(t, p + 1)
  IN  CASE p \in ends -> Found(Cut(p, 3), p, 10)
        [] p \notin ends /\ At(t, p) # "0" -> Found(IF IsDigit(At(t, p)) THEN 1 ELSE 2, p, 10)
        [] p \notin ends /\ At(t, p) = "0" /\ p + 1 \in ends -> Found(Cut(p + 1, 0), p + 1, 10)
        [] p \notin ends /\ At(t, p) = "0" /\ IsDigit(c) -> Found(1, p + 2, 10)
        [] p \notin ends /\ At(t, p) = "0" /\ c \in DOMAIN Letters -> Found(1, p + 2, Letters[c])
        [] p \notin ends /\ At(t, p) = "0" /\ c = "{" -> CutBrace(Braced(t, p + 2, ends, 5))
        [] OTHER -> Found(2, p + 1, 10)
=============================================================================
