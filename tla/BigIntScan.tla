------------------------------ MODULE BigIntScan ------------------------------
(***************************************************************************)
(* Number from a stream (dynamol/bigint/bigInt_io.c): from stdin, one      *)
(* character at a time, and from a file, by chunks after the first digit.  *)
(* Each exists growing a temporary on the heap (scan), refusing (sscan) or *)
(* cutting (tscan) what does not fit the number, the latter two with a     *)
(* temporary in the I/O arena, and each with a prefix or a given base.     *)
(*                                                                         *)
(* The stream holds the text t; reading behind it gives NUL, as an error   *)
(* where fails holds.  An outcome says what is left to read, in out, and   *)
(* whether a temporary was lost, in to.  See BigIntText for the rest.      *)
(***************************************************************************)
EXTENDS BigIntPrint

Modes   == {"scan", "sscan", "tscan"}
ScanFns == [mode : Modes, file : BOOLEAN, based : BOOLEAN]

LineEnds == {NUL, NL}

\* _fskip_whitespace__, and the loop of the file scanners.
FskipWhitespace(t) == RunEnd(t, 0, Len(t), {" "})

\* The stream behind position p.
Rest(t, p) == SubSeq(t, p + 1, Len(t))

Left(o, t, p) == [o EXCEPT !.to = "stream", !.out = Rest(t, p)]

-----------------------------------------------------------------------------
(* The front *)

\* A front: what it decided, and where curr_char was read.
Decided(status, p, sign, base) == [status |-> status, pos |-> p, sign |-> sign, base |-> base, zeroed |-> FALSE]
AtEnd(t, p, fails, status) == IF At(t, p) = NUL /\ fails THEN "FILE_ERR_PARSE" ELSE status

\* bigInt_scan and its kind, behind the white space.  Every sign is refused.  The loop over leading zeros
\* reads on at once, so the first digit is lost; a lone zero goes on to the next
\* line, and so do a cut prefix and a base over 255.
StdinBehind(t, base, p, r) ==
  LET q == RunEnd(t, r.pos + 1, Len(t), {"0"})
  IN  CASE At(t, p) \in LineEnds -> Decided("STR_INCOMPLETE", p, 1, base)
        [] At(t, p) \notin LineEnds /\ ~IsDigit(At(t, p)) -> Decided("STR_INVALID_SIGN", p, 1, base)
        [] IsDigit(At(t, p)) /\ r.code = 2 -> Decided("STR_INVALID_BASE_PREFIX", r.pos, 1, base)
        [] IsDigit(At(t, p)) /\ r.code = 4 -> Decided("STR_INVALID_BASE", r.pos, 1, base)
        [] OTHER -> [Decided("GO", q, 1, r.base) EXCEPT !.zeroed = r.code = 0 \/ At(t, q) \in LineEnds]

StdinFront(f, t, base, fails) ==
  LET p == FskipWhitespace(t)
  IN  StdinBehind(t, base, p, IF f.based THEN Found(1, p, base) ELSE PrefixHandleStream(t, p, fails))

\* Behind the sign of a file scanner, at the first digit.
ZerosOf(t, p, sign, base, fails) ==
  LET q == RunEnd(t, p, Len(t), {"0"})
  IN  IF At(t, q) \notin LineEnds THEN Decided("GO", q, sign, base)
      ELSE Decided(AtEnd(t, q, fails, IF sign = -1 THEN "STR_INVALID_SIGN" ELSE "ZERO"), q, sign, base)

\* Behind the sign, with the prefix r.
FileBehind(f, t, fails, q, sign, r) ==
  CASE At(t, q) \in LineEnds ->
         Decided(AtEnd(t, q, fails /\ f.mode # "scan", "STR_INCOMPLETE"), q, sign, 10)
    [] At(t, q) \notin LineEnds /\ ~IsDigit(At(t, q)) -> Decided("STR_INVALID_SIGN", q, sign, 10)
    [] IsDigit(At(t, q)) /\ r.code = 0 ->
         Decided(IF sign = -1 THEN "STR_INVALID_SIGN" ELSE "ZERO", r.pos, sign, 10)
    [] IsDigit(At(t, q)) /\ r.code = 2 -> Decided("STR_INVALID_BASE_PREFIX", r.pos, sign, 10)
    [] IsDigit(At(t, q)) /\ r.code = 3 -> Decided("STR_INCOMPLETE", r.pos, sign, 10)
    [] IsDigit(At(t, q)) /\ r.code = 4 -> Decided("STR_INVALID_BASE", r.pos, sign, 10)
    [] OTHER -> ZerosOf(t, r.pos, sign, r.base, fails)

\* bigInt_fscan, _fsscan, _ftscan: only the first refuses a sign.
FileSigned(f, t, fails, p) ==
  LET q == IF f.mode # "scan" /\ At(t, p) \in Signs THEN p + 1 ELSE p
  IN  FileBehind(f, t, fails, q, IF q > p /\ At(t, p) = "-" THEN -1 ELSE 1, PrefixHandleStream(t, q, fails))

FileFront(f, t, fails) == FileSigned(f, t, fails, FskipWhitespace(t))

\* bigInt_fscanb, _fsscanb, _ftscanb: the character behind the white space is
\* read over, whatever it is.
BasedFileSigned(t, base, fails, p) ==
  LET q    == IF At(t, p) \in Signs THEN p + 1 ELSE p
      sign == IF At(t, p) = "-" THEN -1 ELSE 1
  IN  CASE q > p /\ At(t, q) \in LineEnds -> Decided(AtEnd(t, q, fails, "STR_INCOMPLETE"), q, sign, base)
        [] ~(q > p /\ At(t, q) \in LineEnds) /\ ~IsDigit(At(t, q)) -> Decided("STR_INVALID_DIGIT", q, sign, base)
        [] OTHER -> ZerosOf(t, q, sign, base, fails)

BasedFileFront(t, base, fails) == BasedFileSigned(t, base, fails, FskipWhitespace(t) + 1)

ScanFront(f, t, base, fails) ==
  CASE ~f.file -> StdinFront(f, t, base, fails)
    [] f.file /\ ~f.based -> FileFront(f, t, fails)
    [] OTHER -> BasedFileFront(t, base, fails)

-----------------------------------------------------------------------------
(* The accumulator *)

\* The temporary: its value, its room in limbs, how many characters it has taken,
\* the last digit, and why it took no more.
Temporary(room) == [val |-> 0, room |-> room, used |-> 0, last |-> 0, end |-> "no"]

\* __BIGINT_WILL_OVERFLOW__ with the threshold of digit d.
WillOverflow(a, base, d) ==
  /\ a.val > 0 /\ Limbs(a.val) = a.room
  /\ a.val \div Radix ^ (a.room - 1) > (Radix - 1 - d) \div base

\* One digit is multiplied in.  A top limb at its threshold passes the test and
\* may still carry out of the block.
Multiplied(a, base, d) ==
  LET v == a.val * base + d
  IN  IF Limbs(v) > a.room THEN [a EXCEPT !.end = "UNDEFINED"]
      ELSE [a EXCEPT !.val = v, !.used = @ + 1, !.last = d]

\* One turn of the loop.  Growing asks for one limb more, for five in a file.
Taken(f, a, c, base) ==
  LET d == DigitValue(c, base)
  IN  CASE a.end # "no" -> {a}
        [] a.end = "no" /\ base = 0 -> {[a EXCEPT !.end = "UNDEFINED"]}
        [] a.end = "no" /\ base # 0 /\ d >= base -> {[a EXCEPT !.end = "STR_INVALID_DIGIT"]}
        [] a.end = "no" /\ d < base /\ ~WillOverflow(a, base, d) -> {Multiplied(a, base, d)}
        [] OTHER ->
             (CASE f.mode = "sscan" -> {[a EXCEPT !.end = "BIGINT_ERR_RANGE"]}
                [] f.mode = "tscan" -> {[a EXCEPT !.end = "CUT", !.last = d]}
                [] f.mode = "scan"  -> {IF h.cap = a.room THEN [a EXCEPT !.end = "DNML_ALLOC_OOM"]
                                        ELSE Multiplied([a EXCEPT !.room = h.cap], base, d) :
                                          h \in Reserved([cap |-> a.room], a.room + (IF f.file THEN 5 ELSE 1))})

\* The whole loop.
Fed(f, digits, base, room) ==
  FoldLeft(LAMBDA S, c : UNION {Taken(f, a, c, base) : a \in S}, {Temporary(room)}, digits)

\* Mutant: the loop over a chunk leaves out its first character.
FeedPast(f, t, q) ==
  IF f.file THEN SubSeq(t, q + 3, FirstAt(t, q + 1, Len(t), NL))
  ELSE SubSeq(t, q + 1, RunEnd(t, q, Len(t), Digits))

\* What is fed.  stdin: decimal digits, whatever the base, from the one at q.
\* A file: everything behind q up to the end of the line.
Feed(f, t, q) ==
  IF f.file THEN SubSeq(t, q + 2, FirstAt(t, q + 1, Len(t), NL))
  ELSE SubSeq(t, q + 1, RunEnd(t, q, Len(t), Digits))

\* Where the chunk with the character i behind q ends.
ChunkEnd(q, i) == q + 1 + (i \div BufSize + 1) * BufSize

\* Mutant: nothing is read back behind the line.
StreamPosUnsought(f, t, q, k, a) == IF f.file THEN ChunkEnd(q, a.used) ELSE q + a.used + 1

\* The stream position after the loop over k characters, of which used were taken.
StreamPos(f, t, q, k, a) ==
  CASE ~f.file -> q + a.used + 1
    [] f.file /\ a.end = "no" /\ q + 1 + k < Len(t) -> q + 1 + k
    [] OTHER -> ChunkEnd(q, a.used)

\* Mutant: the whole temporary is taken over.
StoredWhole(h, a, sign) == [h EXCEPT !.val = a.val, !.n = h.cap, !.sign = sign]

\* __BIGINT_INTERNAL_COPY__ and the sign, also of a zero.
Stored(h, a, sign) == [h EXCEPT !.val = a.val, !.n = Limbs(a.val), !.sign = sign]

\* The end of a scan whose temporary became a.  x does not grow for it.  A block
\* of the arena begins one word late: if it ends the buffer, its last limb is out.
Settled(f, t, front, h, a, mem, k, fails) ==
  LET p      == StreamPos(f, t, front.pos, k, a)
      broken == f.file /\ fails /\ a.end \in {"no", "CUT"} /\ ChunkEnd(front.pos, a.used) > Len(t)
      lost   == f.mode = "scan" /\ a.end = "DNML_ALLOC_OOM"
      beyond == f.mode # "scan" /\ Limbs(a.val) = h.cap /\ arena.held + h.cap = mem.cap
      cut    == a.end = "CUT" \/ (f.mode = "tscan" /\ a.used > 0 /\ WillOverflow(a, front.base, a.last))
      o      == CASE beyond -> Leaves(h, mem, "UNDEFINED")
                  [] ~beyond /\ broken -> Leaves(h, mem, "FILE_ERR_PARSE")
                  [] ~beyond /\ ~broken /\ a.end \notin {"no", "CUT"} -> Leaves(h, mem, a.end)
                  [] ~beyond /\ ~broken /\ a.end \in {"no", "CUT"} /\ Limbs(a.val) <= h.cap ->
                       Leaves(Stored(h, a, front.sign), mem, IF cut THEN "STR_TRUNC_SUCCESS" ELSE "STR_SUCCESS")
                  [] OTHER -> Leaves(h, mem, "UNDEFINED")
  IN  IF lost THEN [Left(o, t, p) EXCEPT !.to = "lost"] ELSE Left(o, t, p)

\* Mutant: the number is cleared before the text is read.
BeforeCleared(front) == [x EXCEPT !.val = 0, !.n = 0, !.sign = 1]

\* The number when the accumulator starts.
Before(front) == IF front.zeroed THEN [x EXCEPT !.val = 0, !.n = 0, !.sign = 1] ELSE x

\* The temporary: of the heap, or of the arena.
Scanned(f, t, front, fails) ==
  LET h == Before(front)
      d == Feed(f, t, front.pos)
      Done(a) == {Settled(f, t, front, h, m, a, Len(d), fails) : m \in Fed(f, d, front.base, x.cap)}
      Failed  == {Left(Leaves(h, arena, "DNML_ALLOC_OOM"), t, front.pos + 1)}
  IN  IF f.mode = "scan" THEN Done(arena) \cup Failed
      ELSE UNION {IF o.status = "GO" THEN Done(o.arena) ELSE {Left(o, t, front.pos + 1)} :
                    o \in Allocates(h, x.cap)}

\* Behind the front.
ScanBehind(f, t, front, fails) ==
  LET zero == [x EXCEPT !.val = 0, !.n = 0, !.sign = 1]
  IN  CASE front.status = "ZERO" -> {Left(Leaves(zero, arena, "STR_SUCCESS"), t, front.pos + 1)}
        [] front.status = "GO" -> Scanned(f, t, front, fails)
        [] OTHER -> {Left(Leaves(x, arena, front.status), t, front.pos + 1)}

\* bigInt_scan .. bigInt_ftscanb.
Scan(f, t, base, fails) ==
  CASE x.cap = 0 -> {Left(Leaves(x, arena, "BIGINT_ERR_STORE_IN"), t, 0)}
    [] x.cap > 0 /\ f.based /\ base <= 1 -> {Left(Leaves(x, arena, "STR_INVALID_BASE"), t, 0)}
    [] x.cap > 0 /\ ~(f.based /\ base <= 1) /\ f.mode # "scan" /\ arena.poisoned ->
         {Left(Leaves(x, arena, "DNML_ALLOC_OOM"), t, 0)}
    [] OTHER -> ScanBehind(f, t, ScanFront(f, t, base, fails), fails)

\* bigInt_fwrite .. bigInt_deserialize: not written yet.
Binary == Keeps(arena, "STR_INCOMPLETE")
=============================================================================
