------------------------------- MODULE BigIntIO -------------------------------
(***************************************************************************)
(* The text input and output of bigInt as a client sees it: one number,    *)
(* the thread's I/O arena, and one call after another.  The arena goes     *)
(* from call to call; a call that leaves its blocks or does not come back  *)
(* ends the program, and a new one starts.                                 *)
(*                                                                         *)
(* A line of text is known by its parts, so that what it means is known    *)
(* without reading it: [ws, sign, prefix, base, digits], base being the    *)
(* one the prefix names, 0 where it names none.                            *)
(***************************************************************************)
EXTENDS BigIntScan

CONSTANTS
  Lines,     \* the lines that are read
  Streams,   \* the lines that are scanned
  Tails,     \* what follows them on the stream
  Bases,     \* the bases asked for
  Objects,   \* the numbers that are assigned
  Printees,  \* the numbers that are printed
  Arenas,    \* the arenas a program starts with
  BufLens    \* the lengths of the buffers that are printed into

\* The numbers of a client.
Numbers == {h \in [val : Nat, n : Nat, cap : Nat, sign : {-1, 0, 1}] : h.n <= h.cap}

ASSUME IOAssumption ==
  /\ Lines \cup Streams \subseteq
       [ws : Seq(STRING), sign : Seq(STRING), prefix : Seq(STRING), base : Nat, digits : Seq(STRING)]
  /\ Tails \subseteq Seq(STRING) /\ Bases \subseteq Nat /\ BufLens \subseteq Nat
  /\ Objects \cup Printees \subseteq Numbers
  /\ Arenas \subseteq [cap : Nat, held : {0}, poisoned : BOOLEAN]

Text(l) == l.ws \o l.sign \o l.prefix \o l.digits

NoLine == [ws |-> <<>>, sign |-> <<>>, prefix |-> <<>>, base |-> 10, digits |-> <<>>]
NoCall == [fn |-> "none", kind |-> "none", line |-> NoLine, base |-> 10, len |-> 0, was |-> x,
           status |-> "NONE", to |-> "none", out |-> <<>>]

Init == x \in Objects \cup Printees /\ arena \in Arenas /\ call = NoCall

\* The call fn, of the given kind, ends with outcome o.  len is the length it is
\* given, for a scan that of what follows the line.
Ends(fn, kind, line, base, len, o) ==
  /\ x' = o.x /\ arena' = o.arena
  /\ call' = [fn |-> fn, kind |-> kind, line |-> line, base |-> base, len |-> len, was |-> x,
              status |-> o.status, to |-> o.to, out |-> o.out]

Idle == call.fn = "none"

\* A call of the given family on a line, of which it is told the length or one
\* less.
ReadLine(family) ==
  /\ Idle /\ x \in Objects
  /\ \E f \in {f \in TextFns : f.family = family}, l \in Lines, base \in Bases, cut \in {0, 1} :
       /\ IF f.based THEN l.prefix = <<>> ELSE base = 10
       /\ f.nlen \/ cut = 0
       /\ cut <= Len(Text(l))
       /\ \E o \in Read(f, Text(l), Len(Text(l)) - cut, base) :
            Ends(family, f, l, base, Len(Text(l)) - cut, o)

StrInit == ReadLine("strinit")
GetStr  == ReadLine("get_str")
TGetStr == ReadLine("tget_str")
SGetStr == ReadLine("sget_str")

\* bigInt_from_str .., bigInt_fwrite ..
FromStr == Idle /\ x \in Objects /\ \E o \in FromText : Ends("from_str", "none", NoLine, 10, 0, o)
BinaryIO == Idle /\ x \in Objects /\ \E o \in Binary : Ends("binary", "none", NoLine, 10, 0, o)

\* A call of the given family into a buffer of len characters.
PrintInto(family) ==
  /\ Idle /\ x \in Printees
  /\ \E f \in {f \in BufferFns : f.family = family}, base \in Bases, len \in BufLens :
       /\ f.based \/ base = 10
       /\ \E o \in Printed(f, len, base) : Ends(family, f, NoLine, base, len, o)

TToStr == PrintInto("tto_str")
ToStr  == PrintInto("to_str")

ToStrf ==
  /\ Idle /\ x \in Printees
  /\ \E base \in Bases, len \in BufLens, upper \in BOOLEAN :
       \E o \in ToFormatted(len, base, upper) : Ends("to_strf", "none", NoLine, base, len, o)

TToStrf ==
  /\ Idle /\ x \in Printees
  /\ \E base \in Bases : \E o \in ToFormattedTruncated(base) : Ends("tto_strf", "none", NoLine, base, 0, o)

\* What the output calls are given.
PutArgs == {a \in [kind : PutKinds, base : Bases, upper : BOOLEAN] :
              /\ a.kind = "put" => a.base = 10
              /\ a.kind = "putf" \/ ~a.upper}

\* Onto stdout, or onto a file.
PutOn(file) ==
  /\ Idle /\ x \in Printees
  /\ \E a \in PutArgs : \E o \in Put(a.kind, file, a.base, a.upper) : Ends("put", a.kind, NoLine, a.base, 0, o)
SputOn(file) ==
  /\ Idle /\ x \in Printees
  /\ \E a \in PutArgs : \E o \in Sput(a.kind, file, a.base, a.upper) : Ends("sput", a.kind, NoLine, a.base, 0, o)

PutText   == PutOn(FALSE)
FputText  == PutOn(TRUE)
SputText  == SputOn(FALSE)
SfputText == SputOn(TRUE)

\* A scan of the given mode, of stdin or of a file.
ScanFrom(mode, file) ==
  /\ Idle /\ x \in Objects
  /\ \E f \in {f \in ScanFns : f.mode = mode /\ f.file = file}, l \in Streams, tail \in Tails,
        base \in Bases, fails \in {FALSE, file} :
       /\ IF f.based THEN l.prefix = <<>> ELSE base = 10
       /\ \E o \in Scan(f, Text(l) \o tail, base, fails) : Ends("scan", f, l, base, Len(tail), o)

ScanText   == ScanFrom("scan", FALSE)
SscanText  == ScanFrom("sscan", FALSE)
TscanText  == ScanFrom("tscan", FALSE)
FscanText  == ScanFrom("scan", TRUE)
FsscanText == ScanFrom("sscan", TRUE)
FtscanText == ScanFrom("tscan", TRUE)

\* The client goes on with another number, in a new program where the last call
\* did not come back.
Renew ==
  /\ ~Idle
  /\ x' \in Objects \cup Printees
  /\ IF call.status \in {"UNDEFINED", "ABORTED"} THEN arena' \in Arenas ELSE UNCHANGED arena
  /\ call' = [NoCall EXCEPT !.was = x']

Next ==
  \/ StrInit \/ GetStr \/ TGetStr \/ SGetStr \/ FromStr \/ BinaryIO
  \/ TToStr \/ ToStr \/ TToStrf \/ ToStrf
  \/ PutText \/ FputText \/ SputText \/ SfputText
  \/ ScanText \/ SscanText \/ TscanText \/ FscanText \/ FsscanText \/ FtscanText
  \/ Renew

Spec == Init /\ [][Next]_vars

-----------------------------------------------------------------------------
(* Properties *)

Done     == call.status \in {"STR_SUCCESS", "STR_TRUNC_SUCCESS"}
CameBack == call.status \notin {"UNDEFINED", "ABORTED"}

\* After any sequence of calls, whatever failed in them, the I/O arena holds no
\* block: each call gives back on every way out what it has taken.
ArenaBalanced == arena.held = 0

\* A call that refuses leaves the number as it was; get alone may have made room.
\* Not so: the stdin scans clear the number behind a lone zero and go on.
RefusalKeeps ==
  CameBack /\ ~Done =>
    \/ x = call.was
    \/ call.fn = "get_str" /\ x = [call.was EXCEPT !.cap = x.cap] /\ x.cap >= call.was.cap
    \/ call.fn = "scan" /\ ~call.kind.file /\ x = [call.was EXCEPT !.val = 0, !.n = 0, !.sign = 1]

\* What the characters are worth: both cases of a letter in a base up to 16, then
\* upper before lower.
Worth(c, base) == IF base <= 16 /\ c \in ToSet(UpperHex) THEN ValueIn(UpperHex, c) + 10
                  ELSE IF base <= 16 THEN ValueIn(DigitInsen, c) ELSE ValueIn(DigitSen, c)
Value(digits, base) == FoldLeft(LAMBDA v, c : v * base + Worth(c, base), 0, digits)
Proper(digits, base) == digits # <<>> /\ \A i \in DOMAIN digits : Worth(digits[i], base) < base

\* What is left of the digits of a line cut to len characters.
Given(len) == SubSeq(call.line.digits, 1, len - Len(call.line.ws \o call.line.sign \o call.line.prefix))
LineBase   == IF call.kind.based THEN call.base ELSE call.line.base
HasSmall(digits) == \E i \in DOMAIN digits : digits[i] \in ToSet(Lower)

\* bigInt_strninit and strnbinit construct the number the line means.  Not so: a
\* small letter in a base over 16, counted one too high, and without a prefix the
\* digit behind a leading zero, which is skipped with it.
InitReadsExact ==
  (call.fn = "strinit" /\ call.status = "STR_SUCCESS" /\ call.was.cap = 0 /\ call.kind.nlen) =>
    LET digits == Given(call.len)
    IN  \/ ~Proper(digits, LineBase)
        \/ LineBase > 16 /\ HasSmall(digits)
        \/ ~call.kind.based /\ call.line.prefix = <<>> /\ digits[1] = "0"
        \/ /\ x.val = Value(digits, LineBase)
           /\ x.sign = IF call.line.sign = <<"-">> THEN -1 ELSE 1
           /\ x.n = Limbs(x.val) /\ x.n <= x.cap

\* Constructing a number from digits of its base stays inside the blocks that the
\* estimate __BITCOUNT___ of their bits asks for.  Not so: zeros that run past the
\* length given, and bases below 2, which a brace can name.
TextMemory ==
  call.fn = "strinit" /\ call.status = "UNDEFINED" =>
    LET digits == IF call.kind.nlen THEN Given(call.len) ELSE call.line.digits
    IN  \/ ~Proper(digits, LineBase) \/ LineBase <= 1
        \/ call.kind.nlen /\ call.len < Len(Text(call.line))

\* A line with a wrong digit or a wrong prefix is refused by the calls that read
\* all of it.  Not so: the digit that equals the base counts as one, small letters
\* as above, and strninit reads a base over 255 as 10.
WrongRefused ==
  call.fn \in {"strinit", "get_str", "sget_str"} /\ Done /\ (call.fn = "strinit" => call.was.cap = 0)
    /\ call.kind.nlen =>
    LET digits == Given(call.len)
    IN  /\ \A i \in DOMAIN digits : \/ Worth(digits[i], LineBase) <= LineBase
                                    \/ LineBase = 0
        /\ LineBase = 0 /\ call.len >= Len(call.line.sign \o call.line.prefix) =>
             call.line.prefix = <<"0">> \/ (call.fn = "strinit" /\ Len(call.line.prefix) > 2)

\* What tget, sget and the scans store fits the number, and nothing is reallocated
\* for it: a temporary that has grown past it is never copied.
KeepsRoom ==
  call.fn \in {"sget_str", "tget_str", "scan"} /\ CameBack => x.cap = call.was.cap /\ x.n <= x.cap

\* A buffer printed with success shows, sign and digits, the number; a truncated
\* one shows its last digits.  Not so, and hence "?": the first place, where
\* __BIGINT_COUNTDB__ has counted one digit too many.
PrintsExact ==
  call.fn \in {"tto_str", "to_str"} /\ Done =>
    LET shown  == SelectSeq(call.out, LAMBDA c : c # "?")
        sign   == Minus(call.was)
        digits == SubSeq(shown, Len(sign) + 1, Len(shown))
    IN  /\ SubSeq(shown, 1, Len(sign)) = sign
        /\ Value(digits, call.base) = IF call.status = "STR_SUCCESS" THEN call.was.val
                                      ELSE call.was.val % call.base ^ Len(digits)

\* What put and putb write stands for the number.  Not so: the digits of several
\* limbs, and of one in another base than 8, 10 and 16, may come last digit first,
\* and putb looks up the digits of one limb in the table of the bases up to 16.
PutStands ==
  call.fn = "put" /\ Done /\ (call.kind = "put" \/ (call.kind = "putb" /\ call.base <= 16)) =>
    LET sign   == IF call.was.n = 0 THEN <<>> ELSE Minus(call.was)
        digits == SubSeq(call.out, Len(sign) + 1, Len(call.out))
        base   == IF call.kind = "put" THEN 10 ELSE call.base
    IN  /\ SubSeq(call.out, 1, Len(sign)) = sign
        /\ call.was.val \in {Value(digits, base), Value(Reverse(digits), base)}

\* The digits of a line that a scan takes: it loses the first digit that is not
\* zero, on stdin the first digit, and there it stops where a decimal digit does.
Taking(l, file) ==
  LET d == IF file THEN l.digits ELSE SubSeq(l.digits, 2, Len(l.digits))
      z == RunEnd(d, 0, Len(d), {"0"})
  IN  IF file THEN SubSeq(d, z + 2, Len(d)) ELSE SubSeq(d, z + 1, RunEnd(d, z, Len(d), Digits))

\* A scan with a prefix, or none, stores what those digits mean, over every
\* growth of its temporary, and over every chunk; a truncating one what the first
\* of them mean, and only then when the number is full.  Not so: small letters
\* over base 16, a zero without a prefix, and a line without digits.
ScanReads ==
  call.fn = "scan" /\ Done /\ ~call.kind.based /\ call.line.base > 1 =>
    LET d == Taking(call.line, call.kind.file)
    IN  \/ call.line.digits = <<>>
        \/ call.line.prefix = <<>> /\ call.line.digits[1] = "0"
        \/ call.line.base > 16 /\ HasSmall(d)
        \/ \E k \in 0 .. Len(d) :
             /\ x.val = Value(SubSeq(d, 1, k), call.line.base)
             /\ IF call.status = "STR_SUCCESS" THEN k = Len(d) ELSE x.n = x.cap

\* A scan that succeeds leaves the stream at the end of its line, or behind it: the
\* next line is there for the next scan.  Not so: a line without digits, and on
\* stdin a lone zero and a prefix that is cut.
NextLineKept ==
  call.fn = "scan" /\ call.status = "STR_SUCCESS" =>
    \/ Len(call.out) >= call.len - 1
    \/ call.line.digits = <<>>
    \/ ~call.kind.file /\ (call.line.base = 0 \/ (call.line.prefix = <<>> /\ call.line.digits[1] = "0"))

\* A number that was scanned is one that can be printed.  Not so: -0, left by a
\* negative number of one digit.
ScanNormal ==
  call.fn = "scan" /\ Done => ArithValid(x) \/ (x.n = 0 /\ x.sign = -1)

\* On the same characters the scanners of the terminated strings, of the n
\* characters and of the stream agree, wherever a line is cut, and none passes the
\* end.  Not so: behind "0{" and in the braces, where their codes differ.
ScannersAgree ==
  call.fn = "strinit" /\ call.kind.nlen /\ ~call.kind.based => \A len \in 1 .. Len(Text(call.line)) :
    LET t == Text(call.line)
        s == SubSeq(t, 1, len)
        g == SignHandle(s, 0)
        r == PrefixHandleNlen(t, g.pos, len)
    IN  /\ SignHandleNlen(t, 0, len) = g /\ g.pos <= len
        /\ g.code = 0 => /\ r.pos <= len
                         /\ r = PrefixHandle(s, g.pos) \/ At(s, g.pos + 1) = "{"
                         /\ r = PrefixHandleStream(s, g.pos, FALSE) \/ At(s, g.pos + 1) = "{"

\* A refused reading changes no number, and an accepted one does not outgrow it.
NumberKept == RefusalKeeps /\ KeepsRoom

\* The scanners of strings, of n characters and of streams agree; a number that is
\* constructed from a line is the one written there, inside its blocks, or the line
\* is refused.
TextReads == InitReadsExact /\ TextMemory /\ WrongRefused /\ ScannersAgree

\* A scan stores what the characters it takes mean, as a number that can be printed,
\* and leaves the next line.
StreamReads == ScanReads /\ NextLineKept /\ ScanNormal

\* What is printed, to a buffer or a stream, stands for the number.
ShowsNumber == PrintsExact /\ PutStands
=============================================================================
