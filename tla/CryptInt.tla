-------------------------------- MODULE CryptInt --------------------------------
(***************************************************************************)
(* The use of two cryptInts x and y by one caller: each is built, changed   *)
(* by at most CryptUses calls of crint_core.c, and freed.  Of interest is   *)
(* who holds which buffer of the heap, and what is left in its limbs.       *)
(*                                                                         *)
(* heap maps the buffers that are allocated to their bytes.  The pointer of *)
(* a number is such a buffer, 0 for NULL, or dangling: a buffer that is no  *)
(* longer allocated, or Stack, a variable of a function that returned.  A   *)
(* call that follows a dangling pointer, or reaches behind its buffer, ends *)
(* the use with "undefined", one that follows NULL with "crash".            *)
(*                                                                         *)
(* The paths of poisoned numbers are out: only the arithmetic poisons one,  *)
(* and it refuses its operands first.  What it returns then has no storage. *)
(* The address of a freed buffer is not allocated again while a number      *)
(* still holds it: a call on that number breaks the use in any case.        *)
(***************************************************************************)
EXTENDS CryptUtil

CONSTANTS
  CryptUses,   \* bound: calls on the two numbers
  CryptCap,    \* bound: limbs a caller asks for
  CryptWords   \* bound: the words, signed or not, that are assigned: the bytes
               \* of the magnitude as they lie in a limb, and the sign

Zeros(count) == [i \in 1 .. count |-> 0]

\* No array of limbs that a caller can ask for is larger than size_t.
ASSUME CryptIntAssumption ==
  /\ CryptUses \in Nat /\ CryptCap \in Nat \ {0} /\ CryptSizes > CryptBytes * (CryptCap + 1)
  /\ CryptWords \subseteq [limb : [1 .. CryptBytes -> 0 .. 255], sign : {1, -1}]
  /\ \A v \in CryptWords : v.limb = Zeros(CryptBytes) => v.sign = 1

Stack == -1
Fresh(h, ptrs) == CHOOSE p \in (1 .. Cardinality(DOMAIN h) + 3) \ (DOMAIN h \cup ptrs) : TRUE

\* The length of a word in limbs.
Length(v) == IF v.limb = Zeros(CryptBytes) THEN 0 ELSE 1

LimbAt(bytes, i) == SubSeq(bytes, (i - 1) * CryptBytes + 1, i * CryptBytes)

\* The lowest limb of a buffer becomes limb.
Stores(bytes, limb) == limb \o SubSeq(bytes, CryptBytes + 1, Len(bytes))

\* Limbs start to end of x wiped; what lies behind its capacity stays.
Wiped(x, bytes, start, end) ==
  CryptWipe(SubSeq(bytes, 1, x.cap * CryptBytes), start, end)
  \o SubSeq(bytes, x.cap * CryptBytes + 1, Len(bytes))

NullNumber == [buf |-> 0, cap |-> 0, n |-> 0, sign |-> 0]

\* __STORAGE_VAL__
Stored(x) == x.buf # 0 /\ x.cap >= 1

\* The number's pointer names a buffer with room for its capacity.
Usable(x, h) == x.buf \in DOMAIN h /\ x.cap * CryptBytes <= Len(h[x.buf])

-----------------------------------------------------------------------------
(* The heap *)

\* malloc and the tail of realloc leave any bytes; these stand for them.
Leftovers == {0, 1}

\* free
Freed(h, ptr) == [p \in DOMAIN h \ {ptr} |-> h[p]]
FreeSound(h, ptr) == ptr = 0 \/ ptr \in DOMAIN h

\* The heap with bytes in the buffer ptr.
Held(h, ptr, bytes) == [p \in DOMAIN h \cup {ptr} |-> IF p = ptr THEN bytes ELSE h[p]]

\* realloc to limbs limbs: it fails, keeps the place, or moves.
Reallocated(h, ptr, limbs, taken) ==
  LET bytes(g)     == [i \in 1 .. limbs * CryptBytes |-> IF i <= Len(h[ptr]) THEN h[ptr][i] ELSE g]
      placed(p, g) == [heap |-> Held(Freed(h, ptr), p, bytes(g)), ptr |-> p]
  IN  {[heap |-> h, ptr |-> 0]}
      \cup UNION {{placed(p, g) : g \in Leftovers} : p \in {ptr, Fresh(h, taken)}}

-----------------------------------------------------------------------------
(* The use *)

Crypt   == During("crypt")
Pointers == {task.x.buf, task.y.buf}
Either  == {"x", "y"}
Other(w) == IF w = "x" THEN "y" ELSE "x"

\* A call on the number w returns code; spoils says that it left a pointer or a
\* buffer behind that does not belong together.
Returns(fn, w, code, number, heap, spoils) ==
  task' = [task EXCEPT !.left = @ - 1, ![w] = number, !.heap = heap,
                       !.spoiled = @ \/ spoils, !.last = [fn |-> fn, on |-> w, code |-> code]]

Breaks(fn, w, how) ==
  task' = [task EXCEPT !.status = how, !.last = [fn |-> fn, on |-> w, code |-> how]]

\* Calls follow each other while the bound allows.
Calls == Crypt /\ task.left > 0

\* A call that asks for storage returns CRINT_ERR_SINVAL on a number without.
NoStorage(fn, w) == ~Stored(task[w]) /\ Returns(fn, w, "SINVAL", task[w], task.heap, FALSE)

\* It goes on when the number has storage, and breaks when the storage is gone.
WithStorage(w) == Stored(task[w]) /\ Usable(task[w], task.heap)
LostStorage(fn, w) == Stored(task[w]) /\ ~Usable(task[w], task.heap) /\ Breaks(fn, w, "undefined")

-----------------------------------------------------------------------------
(* Constructors and destructor *)

\* What is left of cap limbs for the word v.
Constructed(ptr, cap, v) == [buf |-> ptr, cap |-> cap, n |-> Length(v), sign |-> v.sign]

\* crint_new, crint_snew, crint_new_u64, crint_new_i64, crint_fromu64, crint_fromi64,
\* crint_copyu64, crint_copyi64: zeroed limbs, the lowest the word.  Out of memory the
\* copies return the pointer to the variable that stood in for the buffer.
Construct(w) ==
  \E cap \in 1 .. CryptCap, v \in CryptWords :
    LET ptr == Fresh(task.heap, Pointers)
    IN  /\ task[w].buf = 0 /\ (Length(v) = 1 => cap = 1)
        /\ \/ Returns("new", w, "SUCCESS", Constructed(ptr, cap, v),
                      Held(task.heap, ptr, Stores(Zeros(cap * CryptBytes), v.limb)), FALSE)
           \/ Returns("new", w, "OOM", NullNumber, task.heap, FALSE)
           \/ Returns("new", w, "OOM", [NullNumber EXCEPT !.buf = Stack], task.heap, TRUE)

\* crint_free: the limbs go back as they are.
Free(w) ==
  IF FreeSound(task.heap, task[w].buf)
  THEN Returns("free", w, "SUCCESS", NullNumber, Freed(task.heap, task[w].buf), FALSE)
  ELSE Breaks("free", w, "undefined")

-----------------------------------------------------------------------------
(* Words *)

\* Mutant: the wipe starts a limb too late.
GotBytesLate(x, bytes, v) == Wiped(x, Stores(bytes, v.limb), Length(v) + 1, x.cap - 1)

\* What the limbs become: the word below, the rest wiped.
GotBytes(x, bytes, v) == Wiped(x, Stores(bytes, v.limb), Length(v), x.cap - 1)

\* crint_getu64, crint_geti64.
Get(w) ==
  LET x == task[w]
  IN  \/ NoStorage("get", w) \/ LostStorage("get", w)
      \/ /\ WithStorage(w)
         /\ \E v \in CryptWords :
              Returns("get", w, "SUCCESS", [x EXCEPT !.n = Length(v), !.sign = v.sign],
                      [task.heap EXCEPT ![x.buf] = GotBytes(x, @, v)], FALSE)

\* crint_canonicalize: the arguments of every choice are in the other order, so
\* that what is right is replaced: a capacity by 1, the length by 0.
Canonical(x) ==
  IF x.cap < 1 /\ x.sign \notin {1, -1} THEN x
  ELSE [x EXCEPT !.cap = Smaller(@, 1), !.n = 0, !.sign = 1]

Canonicalize(w) == Returns("canonicalize", w, "SUCCESS", Canonical(task[w]), task.heap, FALSE)

\* crint_mut_copyu64, crint_mut_copyi64: the number becomes canonical, its lowest
\* limb zero, its length and sign those of the word.
CopyWord(w) ==
  LET x == task[w]
  IN  \/ NoStorage("copy", w)
      \/ Stored(x) /\ x.buf \notin DOMAIN task.heap /\ Breaks("copy", w, "undefined")
      \/ /\ Stored(x) /\ x.buf \in DOMAIN task.heap
         /\ \E v \in CryptWords :
              Returns("copy", w, "SUCCESS", [Canonical(x) EXCEPT !.n = Length(v), !.sign = v.sign],
                      [task.heap EXCEPT ![x.buf] = Stores(@, Zeros(CryptBytes))], FALSE)

\* crint_mut_dcopyu64, crint_mut_dcopyi64: a buffer of one limb, but the pointer is
\* that of the local variable that stands in for it.
CopyResized(w) ==
  LET x == task[w]
  IN  \/ NoStorage("dcopy", w)
      \/ Stored(x) /\ x.buf \notin DOMAIN task.heap /\ Breaks("dcopy", w, "undefined")
      \/ /\ Stored(x) /\ x.buf \in DOMAIN task.heap
         /\ \E r \in Reallocated(task.heap, x.buf, 1, Pointers), v \in CryptWords :
              IF r.ptr = 0 THEN Breaks("dcopy", w, "crash")
              ELSE Returns("dcopy", w, "SUCCESS", Constructed(Stack, 1, v), r.heap, TRUE)

-----------------------------------------------------------------------------
(* State *)

\* crint_normalize: trimmed, and negative unless zero.  It asks for nothing.
Normalize(w) ==
  LET x == task[w]
      nonzero == [i \in 1 .. x.cap |-> IF LimbAt(task.heap[x.buf], i) = Zeros(CryptBytes) THEN 0 ELSE 1]
      n == IF x.cap = 0 THEN x.n ELSE CryptTrim(nonzero, x.n)
  IN  IF x.cap = 0 \/ Usable(x, task.heap)
      THEN Returns("normalize", w, "SUCCESS", [x EXCEPT !.n = n, !.sign = IF n = 0 THEN 1 ELSE -1],
                   task.heap, FALSE)
      ELSE Breaks("normalize", w, IF x.buf = 0 THEN "crash" ELSE "undefined")

\* Mutant: the source keeps its pointer.
TransferredKeeps(x) == [x EXCEPT !.cap = 1, !.n = 0, !.sign = 1]

\* What is left of the source.
Transferred(x) == [x EXCEPT !.buf = 0, !.cap = 1, !.n = 0, !.sign = 1]

\* crint_transfer: w takes over the buffer of the other.
Transfer(w) ==
  LET src == task[Other(w)]
  IN  IF ~Stored(task[w]) \/ ~Stored(src)
      THEN Returns("transfer", w, "SINVAL", task[w], task.heap, FALSE)
      ELSE IF ~FreeSound(task.heap, task[w].buf) THEN Breaks("transfer", w, "undefined")
      ELSE task' = [task EXCEPT !.left = @ - 1, ![w] = src, ![Other(w)] = Transferred(src),
                                !.heap = Freed(@, task[w].buf),
                                !.last = [fn |-> "transfer", on |-> w, code |-> "SUCCESS"]]

\* crint_reset
Reset(w) ==
  LET x == task[w]
  IN  \/ NoStorage("reset", w) \/ LostStorage("reset", w)
      \/ /\ WithStorage(w)
         /\ Returns("reset", w, "SUCCESS", [x EXCEPT !.n = 0, !.sign = 1],
                    [task.heap EXCEPT ![x.buf] = Wiped(x, @, 0, x.cap - 1)], FALSE)

-----------------------------------------------------------------------------
(* Storage *)

\* k | !k
AtLeastOne(k) == Larger(k, 1)

\* Out of memory: the pointer to the old buffer is lost.
Emptied(x) == [x EXCEPT !.buf = 0, !.cap = 0, !.n = 0]

\* The buffer of k limbs becomes that of the number, all of it in use.
Refitted(x, ptr, k) == [x EXCEPT !.buf = ptr, !.cap = AtLeastOne(k), !.n = AtLeastOne(k)]

\* crint_resize: wiped from limb k - 1 on when it gets smaller.
Resize(w) ==
  LET x == task[w]
      wiped(k) == [task.heap EXCEPT ![x.buf] = IF k < x.cap THEN Wiped(x, @, k - 1, x.cap - 1) ELSE @]
  IN  \/ NoStorage("resize", w) \/ LostStorage("resize", w)
      \/ /\ WithStorage(w)
         /\ \E k \in 0 .. CryptCap : \E r \in Reallocated(wiped(k), x.buf, AtLeastOne(k), Pointers) :
              IF r.ptr = 0 THEN Returns("resize", w, "OOM", Emptied(x), r.heap, TRUE)
              ELSE Returns("resize", w, "SUCCESS", Refitted(x, r.ptr, k), r.heap, FALSE)

\* The power of two that reserve allocates, the first that is not less than k.
Doubled(k) == {2 ^ e : e \in {e \in 0 .. k : 2 ^ e >= k /\ \A f \in 0 .. e - 1 : 2 ^ f < k}}

\* A buffer kept by a number whose pointer and capacity do not change with it.
Outdated(x, r, limbs) == r.ptr # x.buf \/ limbs < x.cap

\* crint_reserve: when the power of two is the capacity, a new buffer is assigned
\* and then freed, or NULL; when it is another, the old pointer stays.
Reserve(w) ==
  LET x == task[w]
  IN  \/ NoStorage("reserve", w)
      \/ /\ Stored(x)
         /\ \E k \in 0 .. CryptCap : \E limbs \in Doubled(k) :
              IF limbs = x.cap
              THEN \E ptr \in {0, Fresh(task.heap, Pointers)} :
                     Returns("reserve", w, "SUCCESS", [x EXCEPT !.buf = ptr], task.heap, TRUE)
              ELSE IF x.buf \notin DOMAIN task.heap THEN Breaks("reserve", w, "undefined")
              ELSE \E r \in Reallocated(task.heap, x.buf, limbs, Pointers) :
                     IF r.ptr = 0
                     THEN Returns("reserve", w, "OOM", [x EXCEPT !.buf = 0, !.cap = 0], r.heap, TRUE)
                     ELSE Returns("reserve", w, "SUCCESS", x, r.heap, Outdated(x, r, limbs))

\* crint_shrink: the limbs from k - 1 on wiped, or the first when there is none; then
\* the buffer is made one of k limbs, smaller or larger.  The new one is assigned
\* when k is not less than the capacity, and freed again when it is equal.
Shrink(w) ==
  LET x == task[w]
      wiped(k) == [task.heap EXCEPT ![x.buf] =
                     IF k < x.cap THEN Wiped(x, @, k - 1, x.cap - 1) ELSE Wiped(x, @, 0, 0)]
  IN  \/ NoStorage("shrink", w) \/ LostStorage("shrink", w)
      \/ /\ WithStorage(w)
         /\ \E k \in 0 .. CryptCap : \E r \in Reallocated(wiped(k), x.buf, AtLeastOne(k), Pointers) :
              \/ /\ k < x.cap /\ r.ptr = 0
                 /\ Returns("shrink", w, "OOM", Emptied(x), r.heap, TRUE)
              \/ /\ k < x.cap /\ r.ptr # 0
                 /\ Returns("shrink", w, "SUCCESS", x, r.heap, Outdated(x, r, AtLeastOne(k)))
              \/ /\ k = x.cap
                 /\ Returns("shrink", w, "SUCCESS", Refitted(x, r.ptr, k), Freed(r.heap, r.ptr), TRUE)
              \/ /\ k > x.cap
                 /\ Returns("shrink", w, "SUCCESS", Refitted(x, r.ptr, k), r.heap, r.ptr = 0)

-----------------------------------------------------------------------------
(* Validation *)

\* The number's own top limb is looked at when something is wrong already; a sound
\* number is judged by the stand-in.
LooksAt(x) == ~(x.buf # 0 /\ x.cap >= 1 /\ x.n <= x.cap)

\* crint_validate, crint_pvalidate: the limb looked at is not zero, which the stand-in
\* is, the sign is one, and a number without limbs is negative.
Accepted(x, h) ==
  /\ x.buf # 0 /\ x.cap >= 1 /\ x.n <= x.cap
  /\ x.sign \in {1, -1}
  /\ LooksAt(x) /\ x.n > 0 /\ LimbAt(h[x.buf], x.n) # Zeros(CryptBytes)
  /\ x.n = 0 => x.sign = -1

\* Any call that validates an operand first: crint_cinew, the assignments and copies
\* of a cryptInt, the conversions, the comparisons, all of crint_bitops.c and
\* crint_arith.c.
Operate(w) ==
  LET x == task[w]
  IN  IF LooksAt(x) /\ ~Usable(x, task.heap)
      THEN Breaks("operate", w, IF x.buf = 0 THEN "crash" ELSE "undefined")
      ELSE Returns("operate", w, IF Accepted(x, task.heap) THEN "SUCCESS" ELSE "INVAL", x, task.heap, FALSE)

-----------------------------------------------------------------------------
(* The use from its begin to its end *)

CryptBegins ==
  Enter([op |-> "crypt", status |-> "running", left |-> CryptUses, x |-> NullNumber, y |-> NullNumber,
         heap |-> <<>>, spoiled |-> FALSE, last |-> [fn |-> "none", on |-> "x", code |-> "none"]])

CryptCalls ==
  Calls /\ \E w \in Either :
    \/ Construct(w) \/ Get(w) \/ Canonicalize(w) \/ CopyWord(w) \/ CopyResized(w) \/ Normalize(w)
    \/ Transfer(w) \/ Reset(w) \/ Resize(w) \/ Reserve(w) \/ Shrink(w) \/ Operate(w) \/ Free(w)

\* The caller frees what it built.
CryptReleases ==
  /\ Crypt /\ task.left = 0
  /\ IF FreeSound(task.heap, task.x.buf) /\ FreeSound(Freed(task.heap, task.x.buf), task.y.buf)
     THEN task' = [task EXCEPT !.status = "ok", !.x = NullNumber, !.y = NullNumber,
                               !.heap = Freed(Freed(@, task.x.buf), task.y.buf)]
     ELSE task' = [task EXCEPT !.status = "undefined"]

CryptSteps == CryptCalls \/ CryptReleases
-----------------------------------------------------------------------------
(* Properties *)

\* The numbers the contract describes, whose storage is there.
Contract(x, h) ==
  /\ Usable(x, h) /\ x.cap >= 1 /\ x.n <= x.cap
  /\ x.sign \in {1, -1} /\ (x.n = 0 => x.sign = 1)
  /\ x.n > 0 => LimbAt(h[x.buf], x.n) # Zeros(CryptBytes)

\* Each buffer of the heap is that of one number and has room for its capacity, and
\* no call follows a pointer elsewhere, whatever the order of calls and failures; at
\* the end nothing is left.  Not so behind the calls that spoil it: reserve, shrink to
\* the capacity or less, a copy that resizes, a copy or a change of storage out of
\* memory (crint_core.c:1168, :1361, :1605, :1644, :1695).
CryptBuffersOwned ==
  task.op = "crypt" =>
    \/ task.spoiled
    \/ /\ task.status # "undefined"
       /\ \A w \in Either : task[w].buf = 0 \/ Usable(task[w], task.heap)
       /\ DOMAIN task.heap \subseteq Pointers
       /\ task.x.buf = task.y.buf => task.x.buf = 0

\* A number that was built, or was given a word, follows the contract, and no limb
\* within its capacity keeps what was there before (crint_core.c:263-295).
CryptWordsClean ==
  task.op = "crypt" /\ task.last.fn \in {"new", "get"} /\ task.last.code = "SUCCESS" /\ Running =>
    LET x == task[task.last.on]
    IN  /\ Contract(x, task.heap)
        /\ \A i \in x.n * CryptBytes + 1 .. x.cap * CryptBytes : task.heap[x.buf][i] = 0

\* INVAL says that the operand is in a fully invalid state (CRYPT-API-DESIGN.md:79);
\* crint_core.c:64 asserts that a caller's number passes the validation.  So no call
\* may answer INVAL for a number that follows the contract.
SoundAccepted ==
  task.op = "crypt" /\ task.last.fn = "operate" /\ task.last.code = "INVAL" =>
    ~Contract(task[task.last.on], task.heap)
=============================================================================
