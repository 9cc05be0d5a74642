------------------------------ MODULE WordProofs ------------------------------
(***************************************************************************)
(* Proofs about the calls of WordCalls.  First the sources of random bytes  *)
(* (Entropy, EntropyCrt): whatever arrives, is refused, interrupted or cut  *)
(* short, and however often the source is switched, a source delivers what  *)
(* it reports, for every width of a draw, of a chunk and of a pool, every   *)
(* length and every number of retries.  Then the two cryptInts of CryptInt: *)
(* whatever calls follow each other and whichever allocation fails, stays   *)
(* in place or moves, each buffer has one owner with room for its capacity  *)
(* until a call spoils it, and what a constructor or a word leaves is       *)
(* clean, for every size of a limb, every capacity, any words and any       *)
(* number of calls.  Last the helpers of CryptUtil: moves and ranges of     *)
(* bytes, trimming, shifts by limbs, comparison and product are those of    *)
(* the bytes and numbers, for every size of a limb, radix and length.       *)
(***************************************************************************)
EXTENDS WordCalls, FiniteSetTheorems, SequenceTheorems, NaturalsInduction, WellFoundedInduction, TLAPS

-----------------------------------------------------------------------------
(* The sources: the inductive invariant, of the record t of a call. *)

\* The functions that fill a buffer, and all that ask for random bytes.
Fillers    == Sources \cup {"none", "crtseed", "crtdarwin", "crturandom"}
EntropyOps == Fillers \cup {"fast", "pqc"}

\* What is counted, kept and retried stays within the buffer and the retries.
BufferInv(t) ==
  t.op \in Fillers =>
    /\ {"len", "max", "done", "stored", "written", "retries"} \subseteq DOMAIN t
    /\ t.len \in Nat /\ t.max \in Nat
    /\ t.op # "crtseed" =>
         /\ t.done \in 0 .. t.len /\ t.stored \in 0 .. t.len /\ t.written \in Nat
         /\ t.retries \in 0 .. t.max + 1

\* A source goes on while bytes are missing and succeeds when none is; what it has
\* counted is what the buffer holds, but for the last bytes of a secure draw and
\* for the chunks that were there before a switch to the device.
SourceInv(t) ==
  t.op \in Sources =>
    /\ t.status \in {"running", "ok", "failed", "fatal", "crash"}
    /\ t.status = "running" => t.done < t.len
    /\ t.status = "ok" => t.done = t.len
    /\ t.status \notin {"running", "ok"} => t.done < t.len \/ t.len = 0
    /\ t.op \in {"getrandom", "getentropy", "bcrypt"} => t.stored = t.done /\ t.written = t.done
    /\ t.op = "bcrypt" /\ t.status = "running" => t.done = 0

SeedInv(t) ==
  t.op = "seed" =>
    /\ "crypt" \in DOMAIN t /\ t.crypt \in BOOLEAN /\ t.written = t.done
    /\ t.stored = IF t.crypt THEN WholeWords(t.done) ELSE t.done
    /\ t.status = "running" => t.done = WholeWords(t.done)

UrandomInv(t) ==
  t.op = "urandom" =>
    /\ {"fd", "wild"} \subseteq DOMAIN t
    /\ t.done <= t.stored /\ t.done <= t.written
    /\ t.status \notin {"running", "crash"} => t.fd = "closed" \/ t.retries > t.max

\* A pass that is not lost has brought a byte or used up a retry.
CrtUrandomInv(t) ==
  t.op = "crturandom" =>
    /\ {"passes", "sum"} \subseteq DOMAIN t
    /\ t.passes \in 0 .. t.len + t.max /\ t.sum \in {0, -1}
    /\ t.status \in {"running", "ok", "failed"}
    /\ t.sum = 0 => t.retries <= t.max /\ (t.done < t.len => t.passes <= t.done + t.retries)
    /\ t.sum = -1 => t.done < t.len \/ t.len = 0
    /\ t.status = "ok" => t.sum = 0 /\ t.passes = t.len + t.max
    /\ t.status = "failed" => t.sum = -1

\* A system without a call says so.
NoneInv(t) == t.op = "none" => t.status = "one"

FastInv(t) ==
  t.op = "fast" =>
    /\ {"len", "system", "stored"} \subseteq DOMAIN t
    /\ t.len \in Nat /\ t.system \in Systems /\ t.stored \in Int
    /\ t.status = "ok" => t.len - t.stored < WordBytes

\* Whole pools are processed until the last; each leaves a part of a word bare.
PqcInv(t) ==
  t.op = "pqc" =>
    /\ {"len", "system", "trng", "drbg", "processed", "bare"} \subseteq DOMAIN t
    /\ t.len \in Nat /\ t.system \in Systems /\ t.processed \in Nat /\ t.bare \in Int
    /\ t.status = "running" =>
         /\ t.processed < t.len /\ t.processed % PoolBytes = 0
         /\ t.bare <= (t.processed \div PoolBytes) * (WordBytes - 1)
    /\ t.status = "ok" => t.bare <= (t.len \div PoolBytes + 1) * (WordBytes - 1)

\* A caller that waits is one of the two that ask several sources, and what it
\* waits for is a source of its own, for the bytes it wants.
OuterInv(t) ==
  "outer" \in DOMAIN t =>
    /\ {"op", "status"} \subseteq DOMAIN t.outer /\ "outer" \notin DOMAIN t.outer
    /\ t.outer.status = "running" /\ FastInv(t.outer) /\ PqcInv(t.outer)
    /\ \/ /\ t.outer.op = "fast" /\ t.op \in Sources \cup {"none"} /\ t.len = t.outer.len
          /\ t.op = "seed" => ~t.crypt
       \/ /\ t.outer.op = "pqc" /\ t.op \in Fillers \ {"seed", "crturandom"}
          /\ t.len = Chunk(t.outer)

CallInv(t) ==
  /\ {"op", "status"} \subseteq DOMAIN t
  /\ BufferInv(t) /\ SourceInv(t) /\ SeedInv(t) /\ UrandomInv(t) /\ CrtUrandomInv(t)
  /\ NoneInv(t) /\ FastInv(t) /\ PqcInv(t) /\ OuterInv(t)

IInv == CallInv(task)

-----------------------------------------------------------------------------
(* Whole words. *)

\* Quotient and remainder.
LEMMA Division ==
  ASSUME NEW n \in Nat, NEW w \in Nat \ {0}
  PROVE  LET q == n \div w IN q \in Nat /\ q * w <= n /\ n < q * w + w
OBVIOUS

\* The quotient is the only one.
LEMMA DivisionUnique ==
  ASSUME NEW n \in Nat, NEW w \in Nat \ {0}, NEW q \in Nat, q * w <= n, n < q * w + w
  PROVE  n \div w = q
<1> DEFINE p == n \div w
<1>1. p \in Nat /\ p * w <= n /\ n < p * w + w
  BY Division
<1> HIDE DEF p
<1>2. \A i, j \in Nat : i < j => i * w + w <= j * w
  <2> SUFFICES ASSUME NEW i \in Nat, NEW j \in Nat, i < j PROVE i * w + w <= j * w
    OBVIOUS
  <2>1. PICK k \in Nat : j = i + 1 + k
    <3>1. j - i - 1 \in Nat /\ j = i + 1 + (j - i - 1)
      OBVIOUS
    <3> QED  BY <3>1
  <2>2. j * w = i * w + w + k * w /\ k * w \in Nat
    BY <2>1
  <2> QED  BY <2>2
<1>3. ~ (p < q) /\ ~ (q < p)
  BY <1>1, <1>2
<1> QED  BY <1>1, <1>3 DEF p

\* A multiple leaves no remainder.
LEMMA NoRemainder ==
  ASSUME NEW n \in Nat, NEW w \in Nat \ {0}, NEW q \in Nat, n = q * w
  PROVE  n % w = 0
OBVIOUS

LEMMA WholeWordsBounds ==
  ASSUME NEW n \in Nat
  PROVE  WholeWords(n) \in Nat /\ WholeWords(n) <= n /\ n < WholeWords(n) + WordBytes
<1> DEFINE w == WordBytes
           q == n \div w
<1>1. w \in Nat \ {0}
  BY EntropyAssumption
<1>2. q \in Nat /\ q * w <= n /\ n < q * w + w
  BY <1>1, Division
<1>3. WholeWords(n) = q * w
  BY DEF WholeWords
<1> HIDE DEF q, w
<1>4. q * w \in Nat
  BY <1>1, <1>2
<1> QED  BY <1>2, <1>3, <1>4 DEF w

\* One more word after whole words is whole; less is not counted.
LEMMA WholeWordsStep ==
  ASSUME NEW n \in Nat, n = WholeWords(n), NEW r \in 0 .. WordBytes
  PROVE  WholeWords(n + r) = IF r = WordBytes THEN n + r ELSE n
<1> DEFINE w == WordBytes
           q == n \div w
<1>1. w \in Nat \ {0}
  BY EntropyAssumption
<1>2. q \in Nat /\ n = q * w
  BY <1>1, Division DEF WholeWords
<1> HIDE DEF w, q
<1>3. CASE r = w
  <2>1. /\ (q + 1) * w = n + r /\ q + 1 \in Nat /\ n + r \in Nat
        /\ (q + 1) * w <= n + r /\ n + r < (q + 1) * w + w
    BY <1>1, <1>2, <1>3
  <2>2. (n + r) \div w = q + 1
    BY <1>1, <2>1, DivisionUnique
  <2> QED  BY <1>3, <2>1, <2>2 DEF WholeWords, w
<1>4. CASE r # w
  <2>1. r \in Nat /\ r < w
    BY <1>1, <1>4 DEF w
  <2>2. q * w <= n + r /\ n + r < q * w + w /\ n + r \in Nat
    BY <1>1, <1>2, <2>1
  <2>3. (n + r) \div w = q
    BY <1>1, <1>2, <2>2, DivisionUnique
  <2> QED  BY <1>2, <1>4, <2>3 DEF WholeWords, w
<1> QED  BY <1>3, <1>4 DEF w

-----------------------------------------------------------------------------
(* What the helpers do to the record of a call. *)

\* u differs from t in the fields F alone.
Changed(t, u, F) == DOMAIN u = DOMAIN t /\ \A f \in DOMAIN t \ F : u[f] = t[f]

LEMMA StopFields ==
  ASSUME NEW t, NEW s, "status" \in DOMAIN t
  PROVE  Changed(t, Stop(t, s), {"status"}) /\ Stop(t, s).status = s
BY DEF Stop, Changed

LEMMA AgainFields ==
  ASSUME NEW t, "retries" \in DOMAIN t
  PROVE  Changed(t, Again(t), {"retries"}) /\ Again(t).retries = t.retries + 1
BY DEF Again, Changed

LEMMA AdvanceFields ==
  ASSUME NEW t, NEW n, NEW kept, {"done", "stored", "written", "status"} \subseteq DOMAIN t
  PROVE  LET u == Advance(t, n, kept)
         IN  /\ Changed(t, u, {"done", "stored", "written", "status"})
             /\ u.done = t.done + n /\ u.written = t.written + n
             /\ u.stored = Larger(t.stored, t.done + kept)
             /\ u.status = IF n = Rem(t) THEN "ok" ELSE "running"
BY DEF Advance, Changed

LEMMA WithFields ==
  ASSUME NEW t, NEW more
  PROVE  LET u == With(t, more)
         IN  /\ DOMAIN u = DOMAIN t \cup DOMAIN more
             /\ \A f \in DOMAIN t : u[f] = t[f]
             /\ \A f \in DOMAIN more \ DOMAIN t : u[f] = more[f]
BY DEF With

-----------------------------------------------------------------------------
(* The steps of a source. *)

Counters == {"done", "stored", "written", "retries", "status", "fd", "passes", "place", "sum"}

\* A step of a loop changes the counters alone: what it has to establish is about them.
LEMMA LoopStep ==
  ASSUME NEW t, NEW u, CallInv(t), t.op \in Fillers, Changed(t, u, Counters),
         BufferInv(u), SourceInv(u), SeedInv(u), UrandomInv(u), CrtUrandomInv(u), NoneInv(u)
  PROVE  CallInv(u)
<1>1. {"op", "status"} \subseteq DOMAIN u /\ u.op = t.op
  BY DEF CallInv, Changed, Counters
<1>2. FastInv(u) /\ PqcInv(u)
  BY <1>1 DEF FastInv, PqcInv, Fillers, Sources
<1>3. OuterInv(u)
  <2>1. "outer" \in DOMAIN u <=> "outer" \in DOMAIN t
    BY DEF Changed
  <2>2. "outer" \in DOMAIN t => u.outer = t.outer
    BY DEF Changed, Counters
  <2>3. u.len = t.len
    BY DEF Changed, Counters, CallInv, BufferInv
  <2>4. t.op = "seed" => u.crypt = t.crypt
    BY DEF Changed, Counters, CallInv, SeedInv
  <2>5. OuterInv(t)
    BY DEF CallInv
  <2> QED  BY <1>1, <2>1, <2>2, <2>3, <2>4, <2>5, Zenon DEF OuterInv
<1> QED  BY <1>1, <1>2, <1>3 DEF CallInv

\* A call that goes on: its fields and where it stands.
LEMMA RunningSource ==
  ASSUME CallInv(task), Running, task.op \in Sources
  PROVE  /\ {"op", "status", "len", "max", "done", "stored", "written", "retries"} \subseteq DOMAIN task
         /\ task.len \in Nat /\ task.max \in Nat /\ task.done \in Nat /\ task.stored \in Nat
         /\ task.written \in Nat /\ task.retries \in Nat
         /\ task.done < task.len /\ task.stored <= task.len /\ task.retries <= task.max + 1
         /\ task.status = "running"
BY DEF CallInv, BufferInv, SourceInv, Running, Fillers, Sources

\* A source that gives up, or of which nothing came: only the status changes.
LEMMA GivesUp ==
  ASSUME CallInv(task), Running, task.op \in Sources, NEW u, NEW s \in {"failed", "fatal", "crash"},
         Changed(task, u, {"status", "fd"}), u.status = s,
         task.op = "urandom" => u.fd = "closed" \/ s = "crash" \/ task.retries > task.max
  PROVE  CallInv(u)
<1>1. /\ DOMAIN u = DOMAIN task /\ u.op = task.op /\ u.len = task.len /\ u.max = task.max
      /\ u.done = task.done /\ u.stored = task.stored /\ u.written = task.written
      /\ u.retries = task.retries
  BY RunningSource DEF Changed
<1>2. BufferInv(u)
  BY <1>1, RunningSource DEF BufferInv, Fillers, Sources
<1>3. SourceInv(u)
  BY <1>1, RunningSource DEF SourceInv, CallInv
<1>4. SeedInv(u)
  <2>1. task.op = "seed" => "crypt" \in DOMAIN task /\ u.crypt = task.crypt
    BY DEF CallInv, SeedInv, Changed
  <2> QED  BY <1>1, <2>1 DEF SeedInv, CallInv
<1>5. UrandomInv(u)
  BY <1>1 DEF UrandomInv, CallInv
<1>6. CrtUrandomInv(u) /\ NoneInv(u)
  BY <1>1 DEF CrtUrandomInv, NoneInv, Sources
<1>7. Changed(task, u, Counters)
  BY DEF Changed, Counters
<1> QED  BY <1>2, <1>3, <1>4, <1>5, <1>6, <1>7, LoopStep DEF Fillers

\* A signal, or a generator that is empty: one retry less.
LEMMA TriesAgain ==
  ASSUME CallInv(task), Running, task.op \in Sources, task.retries <= task.max
  PROVE  CallInv(Again(task))
<1> DEFINE u == Again(task)
<1>1. Changed(task, u, {"retries"}) /\ u.retries = task.retries + 1
  BY RunningSource, AgainFields
<1> HIDE DEF u
<1>2. /\ DOMAIN u = DOMAIN task /\ u.op = task.op /\ u.len = task.len /\ u.max = task.max
      /\ u.done = task.done /\ u.stored = task.stored /\ u.written = task.written
      /\ u.status = task.status
  BY <1>1, RunningSource DEF Changed
<1>3. BufferInv(u)
  BY <1>1, <1>2, RunningSource DEF BufferInv, Fillers, Sources, CallInv
<1>4. SourceInv(u)
  BY <1>2, RunningSource DEF SourceInv, CallInv
<1>5. SeedInv(u)
  <2>1. task.op = "seed" => "crypt" \in DOMAIN task /\ u.crypt = task.crypt
    BY <1>1 DEF CallInv, SeedInv, Changed
  <2> QED  BY <1>2, <2>1 DEF SeedInv, CallInv
<1>6. UrandomInv(u)
  BY <1>2, RunningSource DEF UrandomInv, CallInv
<1>7. CrtUrandomInv(u) /\ NoneInv(u)
  BY <1>2 DEF CrtUrandomInv, NoneInv, Sources
<1>8. Changed(task, u, Counters)
  BY <1>1 DEF Changed, Counters
<1> QED  BY <1>3, <1>4, <1>5, <1>6, <1>7, <1>8, LoopStep DEF Fillers, u

\* A draw of the processor's generator.
LEMMA DrawStep ==
  ASSUME CallInv(task), Draw
  PROVE  CallInv(task')
<1>1. Running /\ task.op = "seed" /\ task.op \in Sources
  BY DEF Draw, During, Sources
<1>2. ASSUME NEW s \in {"fatal", "failed"}, task' = Stop(task, s) PROVE CallInv(task')
  <2>1. Changed(task, task', {"status", "fd"}) /\ task'.status = s
    BY <1>1, <1>2, RunningSource, StopFields DEF Changed
  <2> QED  BY <1>1, <2>1, GivesUp
<1>3. CASE task.retries <= task.max /\ task' = Again(task)
  BY <1>1, <1>3, TriesAgain
<1>4. ASSUME NEW n, n = Smaller(WordBytes, Rem(task)), task' = Advance(task, n, Copied(task, n))
      PROVE  CallInv(task')
  <2> DEFINE u == task'
  <2>1. /\ Changed(task, u, {"done", "stored", "written", "status"})
        /\ u.done = task.done + n /\ u.written = task.written + n
        /\ u.stored = Larger(task.stored, task.done + Copied(task, n))
        /\ u.status = IF n = Rem(task) THEN "ok" ELSE "running"
    BY <1>1, <1>4, RunningSource, AdvanceFields
  <2>2. /\ u.op = "seed" /\ u.len = task.len /\ u.max = task.max /\ u.retries = task.retries
        /\ "crypt" \in DOMAIN task /\ u.crypt = task.crypt /\ u.crypt \in BOOLEAN
        /\ DOMAIN u = DOMAIN task
    BY <1>1, <2>1, RunningSource DEF Changed, CallInv, SeedInv
  <2>3. /\ n \in Nat /\ n <= WordBytes /\ 0 < n /\ n <= task.len - task.done
        /\ (n # WordBytes => n = task.len - task.done) /\ WordBytes \in Nat
    BY <1>1, <1>4, RunningSource, EntropyAssumption DEF Smaller, Rem
  <2>4. task.done = WholeWords(task.done) /\ task.written = task.done /\ task.stored = task.done
    BY <1>1, RunningSource DEF CallInv, SeedInv
  <2>5. WholeWords(u.done) = IF n = WordBytes THEN u.done ELSE task.done
    <3>1. n \in 0 .. WordBytes
      BY <2>3
    <3> QED  BY <1>1, <2>1, <2>4, <3>1, RunningSource, WholeWordsStep
  <2>6. u.stored = IF u.crypt THEN WholeWords(u.done) ELSE u.done
    <3>1. Copied(task, n) = IF task.crypt /\ n < WordBytes THEN 0 ELSE n
      BY DEF Copied
    <3> HIDE DEF u
    <3> QED  BY <1>1, <2>1, <2>2, <2>3, <2>4, <2>5, <3>1, RunningSource DEF Larger
  <2>7. u.status = "running" => u.done = WholeWords(u.done) /\ u.done < u.len
    BY <1>1, <2>1, <2>2, <2>3, <2>5, RunningSource DEF Rem
  <2>8. u.status = "ok" => u.done = u.len
    BY <1>1, <2>1, <2>2, <2>3, RunningSource DEF Rem
  <2> HIDE DEF u
  <2>9. BufferInv(u)
    <3>1. u.done \in Nat /\ u.done <= u.len /\ u.written \in Nat
      BY <1>1, <2>1, <2>2, <2>3, RunningSource
    <3>2. u.stored \in Nat /\ u.stored <= u.len
      BY <1>1, <2>1, <2>2, <2>3, <2>4, <2>5, <2>6, <3>1, RunningSource
    <3> QED  BY <1>1, <2>2, <3>1, <3>2, RunningSource DEF BufferInv, Fillers, Sources
  <2>10. SourceInv(u) /\ SeedInv(u)
    BY <2>1, <2>2, <2>4, <2>6, <2>7, <2>8 DEF SourceInv, SeedInv
  <2>11. UrandomInv(u) /\ CrtUrandomInv(u) /\ NoneInv(u)
    BY <2>2 DEF UrandomInv, CrtUrandomInv, NoneInv
  <2>12. Changed(task, u, Counters)
    BY <2>1 DEF Changed, Counters
  <2> QED  BY <1>1, <2>9, <2>10, <2>11, <2>12, LoopStep DEF Fillers, u
<1> QED  BY <1>2, <1>3, <1>4 DEF Draw

\* Bytes arrive from the system; the device is closed with the last of them.
LEMMA Arrives ==
  ASSUME CallInv(task), Running, task.op \in Sources \ {"seed"}, NEW n \in 1 .. Rem(task),
         task.op = "bcrypt" => n = Rem(task), NEW u,
         Changed(Advance(task, n, n), u, {"fd"}),
         task.op = "urandom" => (u.status = "running" \/ u.fd = "closed")
  PROVE  CallInv(u)
<1> DEFINE v == Advance(task, n, n)
<1>1. /\ Changed(task, v, {"done", "stored", "written", "status"})
      /\ v.done = task.done + n /\ v.written = task.written + n
      /\ v.stored = Larger(task.stored, task.done + n)
      /\ v.status = IF n = Rem(task) THEN "ok" ELSE "running"
  BY RunningSource, AdvanceFields
<1>2. Changed(v, u, {"fd"})
  OBVIOUS
<1> HIDE DEF v
<1>3. /\ DOMAIN u = DOMAIN task /\ u.op = task.op /\ u.len = task.len /\ u.max = task.max
      /\ u.retries = task.retries
      /\ u.done = task.done + n /\ u.written = task.written + n
      /\ u.stored = Larger(task.stored, task.done + n)
      /\ u.status = IF n = Rem(task) THEN "ok" ELSE "running"
  BY <1>1, <1>2, RunningSource DEF Changed
<1>4. n \in Nat /\ 1 <= n /\ n <= task.len - task.done /\ (n = Rem(task) <=> task.done + n = task.len)
  BY RunningSource DEF Rem
<1>5. BufferInv(u)
  BY <1>3, <1>4, RunningSource DEF BufferInv, Fillers, Sources, Larger
<1>6. SourceInv(u)
  <2>1. task.op \in {"getrandom", "getentropy", "bcrypt"} => task.stored = task.done /\ task.written = task.done
    BY DEF CallInv, SourceInv
  <2> QED  BY <1>3, <1>4, <2>1, RunningSource DEF SourceInv, Larger
<1>7. UrandomInv(u)
  BY <1>3, <1>4, RunningSource DEF UrandomInv, CallInv, Larger
<1>8. SeedInv(u) /\ CrtUrandomInv(u) /\ NoneInv(u)
  BY <1>3 DEF SeedInv, CrtUrandomInv, NoneInv, Sources
<1>9. Changed(task, u, Counters)
  BY <1>1, <1>2 DEF Changed, Counters
<1> QED  BY <1>5, <1>6, <1>7, <1>8, <1>9, LoopStep DEF Fillers

\* The call goes on with the device, on the same buffer from its start.
LEMMA SwitchesToDevice ==
  ASSUME CallInv(task), Running, task.op \in {"getrandom", "getentropy"},
         NEW opened \in BOOLEAN, NEW wild \in BOOLEAN
  PROVE  CallInv(Urandom(task, opened, wild))
<1> DEFINE own == [op |-> "urandom", status |-> IF opened THEN "running" ELSE "failed", done |-> 0,
                   retries |-> 0, fd |-> IF opened THEN "open" ELSE "closed", wild |-> wild]
           u   == Urandom(task, opened, wild)
<1>1. /\ DOMAIN own = {"op", "status", "done", "retries", "fd", "wild"}
      /\ own.op = "urandom" /\ own.done = 0 /\ own.retries = 0
      /\ own.status = (IF opened THEN "running" ELSE "failed")
      /\ own.fd = (IF opened THEN "open" ELSE "closed")
  OBVIOUS
<1>2. /\ DOMAIN u = DOMAIN own \cup DOMAIN task
      /\ \A f \in DOMAIN own : u[f] = own[f]
      /\ \A f \in DOMAIN task \ DOMAIN own : u[f] = task[f]
  <2>1. u = With(own, task)
    BY DEF Urandom
  <2> HIDE DEF own, u
  <2> QED  BY <2>1 DEF With
<1> HIDE DEF own, u
<1>3. task.op \in Sources
  BY DEF Sources
<1>4. /\ DOMAIN own \subseteq DOMAIN u /\ DOMAIN task \subseteq DOMAIN u
      /\ u.op = "urandom" /\ u.done = 0 /\ u.retries = 0
      /\ u.status = (IF opened THEN "running" ELSE "failed")
      /\ u.fd = (IF opened THEN "open" ELSE "closed")
      /\ u.len = task.len /\ u.max = task.max /\ u.stored = task.stored /\ u.written = task.written
  BY <1>1, <1>2, <1>3, RunningSource
<1>5. BufferInv(u)
  BY <1>3, <1>4, RunningSource DEF BufferInv
<1>6. SourceInv(u) /\ UrandomInv(u)
  BY <1>1, <1>3, <1>4, RunningSource DEF SourceInv, UrandomInv
<1>7. SeedInv(u) /\ CrtUrandomInv(u) /\ NoneInv(u) /\ FastInv(u) /\ PqcInv(u)
  BY <1>4 DEF SeedInv, CrtUrandomInv, NoneInv, FastInv, PqcInv
<1>8. OuterInv(u)
  <2>1. "outer" \in DOMAIN u <=> "outer" \in DOMAIN task
    BY <1>1, <1>2
  <2>2. "outer" \in DOMAIN task => u.outer = task.outer
    BY <1>1, <1>2
  <2> QED  BY <1>4, <2>1, <2>2 DEF OuterInv, CallInv, Fillers, Sources
<1>9. {"op", "status"} \subseteq DOMAIN u
  BY <1>1, <1>4
<1> QED  BY <1>5, <1>6, <1>7, <1>8, <1>9 DEF CallInv, u

\* A read of the device.
LEMMA ReadUrandomStep ==
  ASSUME CallInv(task), ReadUrandom
  PROVE  CallInv(task')
<1>1. Running /\ task.op = "urandom" /\ task.op \in Sources /\ "fd" \in DOMAIN task
  BY DEF ReadUrandom, During, Sources, CallInv, UrandomInv
<1>2. ASSUME NEW t, {"status", "fd"} \subseteq DOMAIN t
      PROVE  /\ Changed(t, ClosedOn(t), {"fd"})
             /\ ClosedOn(t).status = t.status
             /\ t.status # "running" => ClosedOn(t).fd = "closed"
  BY <1>2 DEF ClosedOn, Changed
<1>3. ASSUME NEW n \in 1 .. Rem(task), task' = ClosedOn(Advance(task, n, n)) PROVE CallInv(task')
  <2> DEFINE v == Advance(task, n, n)
  <2>1. {"status", "fd"} \subseteq DOMAIN v
    BY <1>1, RunningSource, AdvanceFields DEF Changed
  <2>2. Changed(v, task', {"fd"}) /\ task'.status = v.status /\ (v.status # "running" => task'.fd = "closed")
    BY <1>2, <1>3, <2>1
  <2> QED  BY <1>1, <2>2, Arrives
<1>4. CASE task' = Stop(task, "crash")
  <2>1. Changed(task, task', {"status", "fd"}) /\ task'.status = "crash"
    BY <1>1, <1>4, RunningSource, StopFields DEF Changed
  <2> QED  BY <1>1, <2>1, GivesUp
<1>5. CASE task' = ClosedOn(Stop(task, "failed"))
  <2> DEFINE v == Stop(task, "failed")
  <2>1. Changed(task, v, {"status"}) /\ v.status = "failed"
    BY RunningSource, <1>1, StopFields
  <2> HIDE DEF v
  <2>2. {"status", "fd"} \subseteq DOMAIN v
    BY <1>1, <2>1, RunningSource DEF Changed
  <2>3. Changed(v, task', {"fd"}) /\ task'.status = "failed" /\ task'.fd = "closed"
    BY <1>2, <1>5, <2>1, <2>2 DEF v
  <2>4. Changed(task, task', {"status", "fd"})
    BY <2>1, <2>3 DEF Changed
  <2> QED  BY <1>1, <2>3, <2>4, GivesUp
<1>6. CASE task.retries > task.max /\ task' = Stop(task, "failed")
  <2>1. Changed(task, task', {"status", "fd"}) /\ task'.status = "failed"
    BY <1>1, <1>6, RunningSource, StopFields DEF Changed
  <2> QED  BY <1>1, <1>6, <2>1, GivesUp
<1>7. CASE task.retries <= task.max /\ task' = Again(task)
  BY <1>1, <1>7, TriesAgain
<1> QED  BY <1>3, <1>4, <1>5, <1>6, <1>7 DEF ReadUrandom

\* The three calls of the systems.
LEMMA SystemStep ==
  ASSUME CallInv(task), Getrandom \/ Getentropy \/ Bcrypt
  PROVE  CallInv(task')
<1>1. /\ Running /\ task.op \in {"getrandom", "getentropy", "bcrypt"} /\ task.op \in Sources
      /\ (Getrandom => task.op = "getrandom") /\ (Getentropy => task.op = "getentropy")
      /\ (Bcrypt => task.op = "bcrypt")
  BY DEF Getrandom, Getentropy, Bcrypt, During, Sources
<1>2. ASSUME NEW n \in 1 .. Rem(task), task.op = "bcrypt" => n = Rem(task), task' = Advance(task, n, n)
      PROVE  CallInv(task')
  <2>1. Changed(Advance(task, n, n), task', {"fd"})
    BY <1>2 DEF Changed
  <2> QED  BY <1>1, <1>2, <2>1, Arrives
<1>3. CASE task' = Stop(task, "failed")
  <2>1. Changed(task, task', {"status", "fd"}) /\ task'.status = "failed"
    BY <1>1, <1>3, RunningSource, StopFields DEF Changed
  <2> QED  BY <1>1, <2>1, GivesUp
<1>4. CASE Getrandom
  <2>1. \/ \E n \in 1 .. Rem(task) : task' = Advance(task, n, n)
        \/ task' = Stop(task, "failed")
        \/ \E opened \in BOOLEAN : task' = Urandom(task, opened, TRUE)
        \/ task.retries <= task.max /\ task' = Again(task)
    BY <1>4 DEF Getrandom
  <2> QED  BY <1>1, <1>2, <1>3, <1>4, <2>1, SwitchesToDevice, TriesAgain
<1>5. CASE Getentropy
  <2> DEFINE n == Smaller(ChunkBytes, Rem(task))
  <2>1. n \in 1 .. Rem(task)
    BY <1>1, RunningSource, EntropyAssumption DEF Smaller, Rem
  <2>2. \/ task' = Advance(task, n, n)
        \/ task' = Stop(task, "failed")
        \/ \E opened \in BOOLEAN : task' = Urandom(task, opened, FALSE)
    BY <1>5 DEF Getentropy
  <2> QED  BY <1>1, <1>2, <1>3, <1>5, <2>1, <2>2, SwitchesToDevice
<1>6. CASE Bcrypt
  <2>1. task.done = 0
    BY <1>1, <1>6 DEF CallInv, SourceInv, Running
  <2>2. task.len = Rem(task) /\ task.len \in 1 .. Rem(task)
    BY <1>1, <2>1, RunningSource DEF Rem
  <2> QED  BY <1>1, <1>2, <1>3, <1>6, <2>2 DEF Bcrypt
<1> QED  BY <1>4, <1>5, <1>6

-----------------------------------------------------------------------------
(* The sources that take the same time for all bytes. *)

LEMMA CrtSeedStep ==
  ASSUME CallInv(task), CrtSeedPass \/ CrtSeedEnds
  PROVE  CallInv(task')
<1>1. /\ task.op = "crtseed" /\ {"op", "status"} \subseteq DOMAIN task
      /\ {"len", "max", "done", "stored", "written", "retries"} \subseteq DOMAIN task
      /\ task.len \in Nat /\ task.max \in Nat
  BY DEF CrtSeedPass, CrtSeedEnds, During, CallInv, BufferInv, Fillers
<1>2. Changed(task, task', Counters)
  BY DEF CrtSeedPass, CrtSeedEnds, Stop, Changed, Counters
<1>3. /\ DOMAIN task' = DOMAIN task /\ task'.op = "crtseed" /\ task'.len = task.len
      /\ task'.max = task.max
  BY <1>1, <1>2 DEF Changed, Counters
<1>4. BufferInv(task') /\ SourceInv(task') /\ SeedInv(task') /\ UrandomInv(task')
      /\ CrtUrandomInv(task') /\ NoneInv(task')
  BY <1>1, <1>3 DEF BufferInv, SourceInv, SeedInv, UrandomInv, CrtUrandomInv, NoneInv, Sources
<1> QED  BY <1>1, <1>2, <1>4, LoopStep DEF Fillers

\* ___ENTROPY_CSDARWIN: a chunk, or a pass that brings nothing.
LEMMA DarwinStep ==
  ASSUME CallInv(task), DarwinPass \/ DarwinEnds
  PROVE  CallInv(task')
<1> DEFINE n == Smaller(ChunkBytes, Rem(task))
<1>1. /\ task.op = "crtdarwin" /\ {"op", "status"} \subseteq DOMAIN task
      /\ {"len", "max", "done", "stored", "written", "retries"} \subseteq DOMAIN task
      /\ task.len \in Nat /\ task.max \in Nat
      /\ task.done \in 0 .. task.len /\ task.stored \in 0 .. task.len /\ task.written \in Nat
      /\ task.retries \in 0 .. task.max + 1
  BY DEF DarwinPass, DarwinEnds, During, CallInv, BufferInv, Fillers
<1>2. n \in Nat /\ task.done + n \in 0 .. task.len
  BY <1>1, EntropyAssumption DEF Smaller, Rem
<1>3. CASE DarwinPass
  <2> DEFINE next == [task EXCEPT !.passes = @ + 1]
             u == task'
  <2>1. /\ DOMAIN next = DOMAIN task /\ \A f \in DOMAIN task \ {"passes"} : next[f] = task[f]
    OBVIOUS
  <2>2. task' = next \/ task' = [Advance(next, n, n) EXCEPT !.status = "running"]
    BY <1>1, <1>3 DEF DarwinPass, Rem
  <2> HIDE DEF next, n
  <2>3. /\ Changed(task, u, Counters)
        /\ u.done \in {task.done, task.done + n} /\ u.written \in {task.written, task.written + n}
        /\ u.stored \in {task.stored, Larger(task.stored, task.done + n)}
        /\ u.retries = task.retries
    BY <1>1, <2>1, <2>2 DEF Changed, Counters, Advance
  <2>4. DOMAIN u = DOMAIN task /\ u.op = task.op /\ u.len = task.len /\ u.max = task.max
    BY <1>1, <2>3 DEF Changed, Counters
  <2> HIDE DEF u
  <2>5. BufferInv(u)
    BY <1>1, <1>2, <2>3, <2>4 DEF BufferInv, Larger
  <2>6. SourceInv(u) /\ SeedInv(u) /\ UrandomInv(u) /\ CrtUrandomInv(u) /\ NoneInv(u)
    BY <1>1, <2>4 DEF SourceInv, SeedInv, UrandomInv, CrtUrandomInv, NoneInv, Sources
  <2> QED  BY <1>1, <2>3, <2>5, <2>6, LoopStep DEF Fillers, u
<1>4. CASE DarwinEnds
  <2> DEFINE u == task'
  <2>1. Changed(task, u, {"status"})
    BY <1>1, <1>4, StopFields DEF DarwinEnds
  <2> HIDE DEF u
  <2>2. /\ DOMAIN u = DOMAIN task /\ u.op = task.op /\ u.len = task.len /\ u.max = task.max
        /\ u.done = task.done /\ u.stored = task.stored /\ u.written = task.written
        /\ u.retries = task.retries
    BY <1>1, <2>1 DEF Changed
  <2>3. BufferInv(u) /\ SourceInv(u) /\ SeedInv(u) /\ UrandomInv(u) /\ CrtUrandomInv(u) /\ NoneInv(u)
    BY <1>1, <2>2 DEF BufferInv, SourceInv, SeedInv, UrandomInv, CrtUrandomInv, NoneInv, Sources
  <2>4. Changed(task, u, Counters)
    BY <2>1 DEF Changed, Counters
  <2> QED  BY <1>1, <2>3, <2>4, LoopStep DEF Fillers, u
<1> QED  BY <1>3, <1>4

\* ___ENTROPY_CSURANDOM: a read, a signal, an error, or a pass that is lost.
LEMMA CrtUrandomStep ==
  ASSUME CallInv(task), CrtUrandomPass \/ CrtUrandomEnds
  PROVE  CallInv(task')
<1>1. /\ task.op = "crturandom" /\ {"op", "status", "passes", "sum"} \subseteq DOMAIN task
      /\ {"len", "max", "done", "stored", "written", "retries"} \subseteq DOMAIN task
      /\ task.len \in Nat /\ task.max \in Nat /\ task.done \in Nat /\ task.stored \in Nat
      /\ task.written \in Nat /\ task.retries \in Nat
      /\ task.done <= task.len /\ task.stored <= task.len /\ task.retries <= task.max + 1
  BY DEF CrtUrandomPass, CrtUrandomEnds, During, CallInv, BufferInv, CrtUrandomInv, Fillers
<1>2. /\ task.status = "running" /\ task.passes \in Nat /\ task.passes <= task.len + task.max
      /\ task.sum \in {0, -1}
      /\ task.sum = 0 => task.retries <= task.max /\ (task.done < task.len => task.passes <= task.done + task.retries)
      /\ task.sum = -1 => task.done < task.len \/ task.len = 0
  BY <1>1 DEF CrtUrandomPass, CrtUrandomEnds, During, Running, CallInv, CrtUrandomInv
<1>3. CASE CrtUrandomPass
  <2> DEFINE next == [task EXCEPT !.passes = @ + 1]
             u == task'
             reads == task.sum = 0 /\ Rem(task) > 0
  <2>1. /\ DOMAIN next = DOMAIN task /\ \A f \in DOMAIN task \ {"passes"} : next[f] = task[f]
        /\ next.passes = task.passes + 1
    BY <1>1
  <2>2. /\ task.passes < task.len + task.max
        /\ \/ reads /\ \E n \in 1 .. Rem(task) : u = [Advance(next, n, n) EXCEPT !.status = "running"]
           \/ reads /\ u = [next EXCEPT !.retries = @ + 1,
                              !.sum = IF task.retries + 1 > task.max THEN -1 ELSE 0]
           \/ reads /\ u = [next EXCEPT !.sum = -1]
           \/ ~reads /\ u = next
    BY <1>3 DEF CrtUrandomPass, CrtUrandomPasses
  <2> HIDE DEF next, u
  <2>3. /\ Changed(task, u, Counters) /\ u.passes = task.passes + 1 /\ u.status = "running"
        /\ \/ /\ reads /\ u.sum = 0 /\ u.retries = task.retries
              /\ \E n \in 1 .. Rem(task) :
                   /\ u.done = task.done + n /\ u.written = task.written + n
                   /\ u.stored = Larger(task.stored, task.done + n)
           \/ /\ reads /\ u.retries \in {task.retries, task.retries + 1}
              /\ u.sum = 0 => u.retries = task.retries + 1 /\ u.retries <= task.max
              /\ u.sum \in {0, -1}
              /\ u.done = task.done /\ u.written = task.written /\ u.stored = task.stored
           \/ /\ ~reads /\ u.sum = task.sum /\ u.retries = task.retries
              /\ u.done = task.done /\ u.written = task.written /\ u.stored = task.stored
    <3>1. CASE reads /\ \E n \in 1 .. Rem(task) : u = [Advance(next, n, n) EXCEPT !.status = "running"]
      <4>1. PICK n \in 1 .. Rem(task) : u = [Advance(next, n, n) EXCEPT !.status = "running"]
        BY <3>1
      <4>2. /\ Changed(task, u, Counters) /\ u.passes = task.passes + 1 /\ u.status = "running"
            /\ u.sum = task.sum /\ u.retries = task.retries
            /\ u.done = task.done + n /\ u.written = task.written + n
            /\ u.stored = Larger(task.stored, task.done + n)
        BY <1>1, <2>1, <4>1 DEF Changed, Counters, Advance
      <4> QED  BY <3>1, <4>2
    <3>2. CASE reads /\ u = [next EXCEPT !.retries = @ + 1,
                               !.sum = IF task.retries + 1 > task.max THEN -1 ELSE 0]
      <4>1. task.retries + 1 > task.max \/ task.retries + 1 <= task.max
        BY <1>1
      <4>2. /\ Changed(task, u, Counters) /\ u.passes = task.passes + 1 /\ u.status = task.status
            /\ u.retries = task.retries + 1
            /\ u.sum = IF task.retries + 1 > task.max THEN -1 ELSE 0
            /\ u.done = task.done /\ u.written = task.written /\ u.stored = task.stored
        BY <1>1, <2>1, <3>2 DEF Changed, Counters
      <4> QED  BY <1>1, <1>2, <3>2, <4>1, <4>2
    <3>3. CASE reads /\ u = [next EXCEPT !.sum = -1]
      BY <1>1, <1>2, <2>1, <3>3 DEF Changed, Counters
    <3>4. CASE ~reads /\ u = next
      BY <1>1, <1>2, <2>1, <3>4 DEF Changed, Counters
    <3> QED  BY <2>2, <3>1, <3>2, <3>3, <3>4
  <2>4. DOMAIN u = DOMAIN task /\ u.op = task.op /\ u.len = task.len /\ u.max = task.max
    BY <1>1, <2>3 DEF Changed, Counters
  <2>5. reads => task.done < task.len /\ task.sum = 0
    BY <1>1 DEF Rem
  <2>6. BufferInv(u)
    BY <1>1, <1>2, <2>3, <2>4, <2>5 DEF BufferInv, Larger, Rem
  <2>7. CrtUrandomInv(u)
    BY <1>1, <1>2, <2>2, <2>3, <2>4, <2>5 DEF CrtUrandomInv, Rem
  <2>8. SourceInv(u) /\ SeedInv(u) /\ UrandomInv(u) /\ NoneInv(u)
    BY <1>1, <2>4 DEF SourceInv, SeedInv, UrandomInv, NoneInv, Sources
  <2> QED  BY <1>1, <2>3, <2>6, <2>7, <2>8, LoopStep DEF Fillers, u
<1>4. CASE CrtUrandomEnds
  <2> DEFINE u == task'
  <2>1. /\ Changed(task, u, {"status"}) /\ task.passes = task.len + task.max
        /\ u.status = IF task.sum = 0 THEN "ok" ELSE "failed"
    BY <1>1, <1>4, StopFields DEF CrtUrandomEnds, CrtUrandomPasses
  <2> HIDE DEF u
  <2>2. /\ DOMAIN u = DOMAIN task /\ u.op = task.op /\ u.len = task.len /\ u.max = task.max
        /\ u.done = task.done /\ u.stored = task.stored /\ u.written = task.written
        /\ u.retries = task.retries /\ u.passes = task.passes /\ u.sum = task.sum
    BY <1>1, <2>1 DEF Changed
  <2>3. BufferInv(u) /\ SourceInv(u) /\ SeedInv(u) /\ UrandomInv(u) /\ NoneInv(u)
    BY <1>1, <2>2 DEF BufferInv, SourceInv, SeedInv, UrandomInv, NoneInv, Sources
  <2>4. CrtUrandomInv(u)
    BY <1>1, <1>2, <2>1, <2>2 DEF CrtUrandomInv
  <2>5. Changed(task, u, Counters)
    BY <2>1 DEF Changed, Counters
  <2> QED  BY <1>1, <2>3, <2>4, <2>5, LoopStep DEF Fillers, u
<1> QED  BY <1>3, <1>4

-----------------------------------------------------------------------------
(* How a source begins, alone or for a caller that waits. *)

\* What a call that fills a buffer begins with.
LEMMA FillingFields ==
  ASSUME NEW op, NEW len \in Nat, NEW max \in Nat
  PROVE  LET t == Filling(op, len, max)
         IN  /\ DOMAIN t = {"op", "status", "len", "max", "done", "stored", "written", "retries"}
             /\ t.op = op /\ t.status = (IF len = 0 THEN "ok" ELSE "running")
             /\ t.len = len /\ t.max = max
             /\ t.done = 0 /\ t.stored = 0 /\ t.written = 0 /\ t.retries = 0
BY DEF Filling

\* A source that nothing has come from yet.
Begun(t, op, len) ==
  /\ CallInv(t) /\ "outer" \notin DOMAIN t /\ t.op = op /\ t.len = len

LEMMA SeedBegins ==
  ASSUME NEW len \in Nat, NEW max \in Nat, NEW crypt \in BOOLEAN, NEW fitted \in BOOLEAN
  PROVE  Begun(SeedTask(len, max, crypt, fitted), "seed", len) /\ SeedTask(len, max, crypt, fitted).crypt = crypt
<1> DEFINE f == Filling("seed", len, max)
           g == IF fitted THEN f ELSE Stop(f, "failed")
           u == SeedTask(len, max, crypt, fitted)
<1>1. /\ DOMAIN g = {"op", "status", "len", "max", "done", "stored", "written", "retries"}
      /\ g.op = "seed" /\ g.len = len /\ g.max = max
      /\ g.status \in {"ok", "running", "failed"} /\ (g.status = "running" => len # 0)
      /\ (g.status = "ok" => len = 0)
      /\ g.done = 0 /\ g.stored = 0 /\ g.written = 0 /\ g.retries = 0
  <2>1. Changed(f, Stop(f, "failed"), {"status"}) /\ Stop(f, "failed").status = "failed"
    BY FillingFields, StopFields
  <2> HIDE DEF f
  <2> QED  BY <2>1, FillingFields DEF Changed, f
<1>2. u = With(g, [crypt |-> crypt])
  BY DEF SeedTask
<1> HIDE DEF f, g, u
<1>3. /\ DOMAIN u = DOMAIN g \cup {"crypt"}
      /\ \A x \in DOMAIN g : u[x] = g[x]
      /\ u.crypt = crypt
  BY <1>1, <1>2 DEF With
<1>4. /\ u.op = "seed" /\ u.len = len /\ u.max = max /\ u.status = g.status
      /\ u.done = 0 /\ u.stored = 0 /\ u.written = 0 /\ u.retries = 0
  BY <1>1, <1>3
<1>5. WholeWords(0) = 0
  BY WholeWordsBounds
<1>6. CallInv(u)
  <2>1. BufferInv(u) /\ SourceInv(u) /\ SeedInv(u)
    BY <1>1, <1>3, <1>4, <1>5 DEF BufferInv, SourceInv, SeedInv
  <2>2. UrandomInv(u) /\ CrtUrandomInv(u) /\ NoneInv(u) /\ FastInv(u) /\ PqcInv(u) /\ OuterInv(u)
    BY <1>1, <1>3, <1>4 DEF UrandomInv, CrtUrandomInv, NoneInv, FastInv, PqcInv, OuterInv
  <2> QED  BY <1>1, <1>3, <2>1, <2>2 DEF CallInv
<1> QED  BY <1>1, <1>3, <1>4, <1>6 DEF Begun, u

LEMMA SystemBegins ==
  ASSUME NEW system \in Systems, NEW len \in Nat, NEW max \in Nat
  PROVE  \E op \in {"getrandom", "getentropy", "bcrypt", "none"} : Begun(SystemTask(system, len, max), op, len)
<1> DEFINE op == CASE system = "linux" -> "getrandom" [] system \in {"bsd", "ios"} -> "getentropy"
                   [] system = "windows" -> "bcrypt" [] OTHER -> "none"
           f == Filling(op, len, max)
           t == With([system |-> system], f)
           u == SystemTask(system, len, max)
<1>1. op \in {"getrandom", "getentropy", "bcrypt", "none"} /\ (op = "none" <=> system = "other")
  BY DEF Systems
<1>2. u = IF system = "other" THEN Stop(t, "one") ELSE t
  BY DEF SystemTask
<1> HIDE DEF op
<1>3. /\ DOMAIN f = {"op", "status", "len", "max", "done", "stored", "written", "retries"}
      /\ f.op = op /\ f.status = (IF len = 0 THEN "ok" ELSE "running")
      /\ f.len = len /\ f.max = max
      /\ f.done = 0 /\ f.stored = 0 /\ f.written = 0 /\ f.retries = 0
  BY FillingFields
<1> HIDE DEF f
<1>4. DOMAIN t = DOMAIN f \cup {"system"} /\ \A x \in DOMAIN f : t[x] = f[x]
  BY <1>3 DEF With
<1> HIDE DEF t, u
<1>5. Changed(t, u, {"status"}) /\ u.status = IF system = "other" THEN "one" ELSE t.status
  BY <1>2, <1>3, <1>4, StopFields DEF Changed
<1>6. /\ DOMAIN u = DOMAIN f \cup {"system"}
      /\ u.op = op /\ u.len = len /\ u.max = max
      /\ u.status = (IF op = "none" THEN "one" ELSE IF len = 0 THEN "ok" ELSE "running")
      /\ u.done = 0 /\ u.stored = 0 /\ u.written = 0 /\ u.retries = 0
  BY <1>1, <1>3, <1>4, <1>5 DEF Changed
<1>7. CallInv(u)
  <2>1. BufferInv(u) /\ SourceInv(u) /\ NoneInv(u)
    BY <1>1, <1>3, <1>6 DEF BufferInv, SourceInv, NoneInv, Sources
  <2>2. SeedInv(u) /\ UrandomInv(u) /\ CrtUrandomInv(u) /\ FastInv(u) /\ PqcInv(u) /\ OuterInv(u)
    BY <1>1, <1>3, <1>6 DEF SeedInv, UrandomInv, CrtUrandomInv, FastInv, PqcInv, OuterInv
  <2> QED  BY <1>3, <1>6, <2>1, <2>2 DEF CallInv
<1> QED  BY <1>1, <1>3, <1>6, <1>7 DEF Begun, u

LEMMA CrtSystemBegins ==
  ASSUME NEW system \in Systems, NEW len \in Nat, NEW max \in Nat
  PROVE  \E op \in {"getrandom", "getentropy", "bcrypt", "none", "crtdarwin"} :
           Begun(CrtSystemTask(system, len, max), op, len)
<1>1. CASE system # "bsd"
  BY <1>1, SystemBegins DEF CrtSystemTask
<1>2. CASE system = "bsd"
  <2> DEFINE own == [op |-> "crtdarwin", system |-> system, passes |-> 0]
             f   == Filling("crtdarwin", len, max)
             u   == CrtSystemTask(system, len, max)
  <2>1. /\ DOMAIN f = {"op", "status", "len", "max", "done", "stored", "written", "retries"}
        /\ f.len = len /\ f.max = max
        /\ f.done = 0 /\ f.stored = 0 /\ f.written = 0 /\ f.retries = 0
    BY FillingFields
  <2>2. DOMAIN own = {"op", "system", "passes"} /\ own.op = "crtdarwin"
    OBVIOUS
  <2>3. u = With(own, f)
    BY <1>2 DEF CrtSystemTask
  <2> HIDE DEF own, f, u
  <2>4. /\ DOMAIN u = DOMAIN own \cup DOMAIN f /\ u.op = "crtdarwin"
        /\ u.len = len /\ u.max = max /\ u.done = 0 /\ u.stored = 0 /\ u.written = 0 /\ u.retries = 0
    BY <2>1, <2>2, <2>3 DEF With
  <2>5. CallInv(u)
    <3>1. BufferInv(u) /\ SourceInv(u) /\ NoneInv(u)
      BY <2>1, <2>4 DEF BufferInv, SourceInv, NoneInv, Sources
    <3>2. SeedInv(u) /\ UrandomInv(u) /\ CrtUrandomInv(u) /\ FastInv(u) /\ PqcInv(u) /\ OuterInv(u)
      BY <2>1, <2>2, <2>4 DEF SeedInv, UrandomInv, CrtUrandomInv, FastInv, PqcInv, OuterInv
    <3> QED  BY <2>1, <2>2, <2>4, <3>1, <3>2 DEF CallInv
  <2> QED  BY <2>1, <2>2, <2>4, <2>5 DEF Begun, u
<1> QED  BY <1>1, <1>2

LEMMA CrtSeedBegins ==
  ASSUME NEW len \in Nat, NEW max \in Nat, NEW room, NEW fitted \in BOOLEAN
  PROVE  Begun(CrtSeedTask(len, max, room, fitted), "crtseed", len)
<1> DEFINE own == [op |-> "crtseed", status |-> IF fitted THEN "running" ELSE "failed", room |-> room,
                   passes |-> 0, place |-> 0, sum |-> 0]
           f   == Filling("crtseed", len, max)
           u   == CrtSeedTask(len, max, room, fitted)
<1>1. /\ DOMAIN f = {"op", "status", "len", "max", "done", "stored", "written", "retries"}
      /\ f.len = len /\ f.max = max
  BY FillingFields
<1>2. DOMAIN own = {"op", "status", "room", "passes", "place", "sum"} /\ own.op = "crtseed"
  OBVIOUS
<1>3. u = With(own, f)
  BY DEF CrtSeedTask
<1> HIDE DEF own, f, u
<1>4. DOMAIN u = DOMAIN own \cup DOMAIN f /\ u.op = "crtseed" /\ u.len = len /\ u.max = max
  BY <1>1, <1>2, <1>3 DEF With
<1>5. CallInv(u)
  <2>1. BufferInv(u) /\ SourceInv(u) /\ NoneInv(u)
    BY <1>1, <1>4 DEF BufferInv, SourceInv, NoneInv, Sources
  <2>2. SeedInv(u) /\ UrandomInv(u) /\ CrtUrandomInv(u) /\ FastInv(u) /\ PqcInv(u) /\ OuterInv(u)
    BY <1>1, <1>2, <1>4 DEF SeedInv, UrandomInv, CrtUrandomInv, FastInv, PqcInv, OuterInv
  <2> QED  BY <1>1, <1>2, <1>4, <2>1, <2>2 DEF CallInv
<1> QED  BY <1>1, <1>2, <1>4, <1>5 DEF Begun, u

\* A source that begins while o waits for it.
LEMMA BegunInside ==
  ASSUME NEW s, NEW op, NEW len, Begun(s, op, len), NEW o,
         {"op", "status"} \subseteq DOMAIN o, "outer" \notin DOMAIN o,
         o.status = "running", FastInv(o), PqcInv(o),
         \/ /\ o.op = "fast" /\ op \in Sources \cup {"none"} /\ len = o.len
            /\ op = "seed" => ~s.crypt
         \/ o.op = "pqc" /\ op \in Fillers \ {"seed", "crturandom"} /\ len = Chunk(o)
  PROVE  CallInv(With([outer |-> o], s))
<1> DEFINE u == With([outer |-> o], s)
<1>1. /\ DOMAIN u = {"outer"} \cup DOMAIN s
      /\ \A x \in DOMAIN s : u[x] = s[x]
      /\ u.outer = o
  BY DEF With, Begun
<1> HIDE DEF u
<1>2. CallInv(s) /\ {"op", "status"} \subseteq DOMAIN s /\ s.op = op /\ s.len = len /\ op \in Fillers
  BY DEF Begun, CallInv, Fillers
<1>3. u.op = s.op /\ u.status = s.status
  BY <1>1, <1>2
<1>4. s.op \in Fillers => {"len", "max", "done", "stored", "written", "retries"} \subseteq DOMAIN s
  BY <1>2 DEF CallInv, BufferInv
<1>5. BufferInv(u) /\ SourceInv(u)
  <2>1. /\ u.len = s.len /\ u.max = s.max /\ u.done = s.done /\ u.stored = s.stored
        /\ u.written = s.written /\ u.retries = s.retries
    BY <1>1, <1>2, <1>4
  <2>2. BufferInv(u)
    BY <1>1, <1>2, <1>3, <1>4, <2>1 DEF CallInv, BufferInv
  <2>3. SourceInv(u)
    BY <1>2, <1>3, <2>1 DEF CallInv, SourceInv
  <2> QED  BY <2>2, <2>3
<1>6. SeedInv(u)
  <2>1. s.op = "seed" => "crypt" \in DOMAIN s /\ u.crypt = s.crypt /\ u.stored = s.stored
                         /\ u.done = s.done /\ u.written = s.written
    BY <1>1, <1>2, <1>4 DEF CallInv, SeedInv
  <2> QED  BY <1>1, <1>2, <1>3, <2>1 DEF CallInv, SeedInv
<1>7. UrandomInv(u)
  <2>1. s.op = "urandom" => {"fd", "wild"} \subseteq DOMAIN s /\ u.fd = s.fd
    BY <1>1, <1>2 DEF CallInv, UrandomInv
  <2>2. s.op = "urandom" => u.done = s.done /\ u.stored = s.stored /\ u.written = s.written
                            /\ u.retries = s.retries /\ u.max = s.max
    BY <1>1, <1>2, <1>4
  <2> QED  BY <1>1, <1>2, <1>3, <2>1, <2>2 DEF CallInv, UrandomInv
<1>8. CrtUrandomInv(u) /\ NoneInv(u) /\ FastInv(u) /\ PqcInv(u)
  <2>1. op # "crturandom" /\ op # "fast" /\ op # "pqc"
    BY <1>2 DEF Fillers, Sources
  <2> QED  BY <1>2, <1>3, <2>1 DEF CallInv, CrtUrandomInv, NoneInv, FastInv, PqcInv
<1>9. OuterInv(u)
  <2>1. u.len = s.len
    BY <1>1, <1>2, <1>4
  <2>2. s.op = "seed" => u.crypt = s.crypt
    BY <1>1, <1>2 DEF CallInv, SeedInv
  <2> QED  BY <1>1, <1>2, <1>3, <2>1, <2>2 DEF OuterInv
<1> QED  BY <1>1, <1>2, <1>5, <1>6, <1>7, <1>8, <1>9 DEF CallInv, u

-----------------------------------------------------------------------------
(* The callers that ask several sources. *)

\* A caller whose source ended: what the source has to say of itself, and the caller.
LEMMA Resumed ==
  ASSUME CallInv(task), Nested
  PROVE  LET o == task.outer
         IN  /\ {"op", "status"} \subseteq DOMAIN o /\ "outer" \notin DOMAIN o
             /\ o.status = "running" /\ o.op \in {"fast", "pqc"} /\ FastInv(o) /\ PqcInv(o)
             /\ task.op \in Fillers /\ task.len \in Nat
             /\ task.op # "crtseed" =>
                  /\ task.done \in Nat /\ task.stored \in Nat /\ task.written \in Nat
                  /\ task.done <= task.len /\ task.stored <= task.len
             /\ o.op = "fast" =>
                  /\ task.op \in Sources \cup {"none"} /\ task.len = o.len
                  /\ task.op = "seed" => ~task.crypt
             /\ o.op = "pqc" => task.len = Chunk(o)
<1>1. OuterInv(task) /\ BufferInv(task)
  BY DEF CallInv
<1>2. task.op \in Fillers
  BY <1>1 DEF OuterInv, Nested, Fillers
<1> QED  BY <1>1, <1>2 DEF OuterInv, Nested, BufferInv, Fillers, Sources

\* __GET_ENTROPY_FAST takes what a source gave, asks the next or fills whole words.
LEMMA FastResumesStep ==
  ASSUME CallInv(task), FastResumes
  PROVE  CallInv(task')
<1> DEFINE o == task.outer
           fast == [o EXCEPT !.stored = Larger(@, task.stored)]
<1>1. Nested /\ Stopped /\ o.op = "fast"
  BY DEF FastResumes
<1>2. /\ {"op", "status", "len", "system", "stored"} \subseteq DOMAIN o /\ "outer" \notin DOMAIN o
      /\ o.status = "running" /\ o.len \in Nat /\ o.system \in Systems /\ o.stored \in Int
      /\ task.op \in Sources \cup {"none"} /\ task.len = o.len /\ (task.op = "seed" => ~task.crypt)
      /\ task.done \in Nat /\ task.stored \in Nat
  BY <1>1, Resumed DEF FastInv, Sources
<1>3. /\ Changed(o, fast, {"stored"}) /\ fast.stored = Larger(o.stored, task.stored)
  BY <1>2 DEF Changed
<1>4. CASE /\ task.status \in {"ok", "crash"}
           /\ task' = Stop(fast, task.status)
  <2> DEFINE u == task'
  <2> HIDE DEF fast
  <2>1. Changed(fast, u, {"status"}) /\ u.status = task.status
    BY <1>2, <1>3, <1>4, StopFields DEF Changed
  <2>2. /\ DOMAIN u = DOMAIN o /\ u.op = "fast" /\ u.len = o.len /\ u.system = o.system
        /\ u.stored = Larger(o.stored, task.stored)
    BY <1>1, <1>2, <1>3, <2>1 DEF Changed
  <2> HIDE DEF u
  <2>3. task.status = "ok" => task.stored >= task.len
    <3>1. task.op = "none" => task.status = "one"
      BY DEF CallInv, NoneInv
    <3>2. task.op \in Sources /\ task.status = "ok" => task.done = task.len
      BY DEF CallInv, SourceInv
    <3>3. task.op \in {"getrandom", "getentropy", "bcrypt"} => task.stored = task.done
      BY DEF CallInv, SourceInv, Sources
    <3>4. task.op = "seed" => task.stored = task.done
      BY <1>2 DEF CallInv, SeedInv
    <3>5. task.op = "urandom" => task.done <= task.stored
      BY DEF CallInv, UrandomInv
    <3> QED  BY <1>2, <3>1, <3>2, <3>3, <3>4, <3>5 DEF Sources
  <2>4. FastInv(u)
    BY <1>2, <2>1, <2>2, <2>3, EntropyAssumption DEF FastInv, Larger
  <2>5. BufferInv(u) /\ SourceInv(u) /\ SeedInv(u) /\ UrandomInv(u) /\ CrtUrandomInv(u)
        /\ NoneInv(u) /\ PqcInv(u) /\ OuterInv(u)
    BY <1>2, <2>2 DEF BufferInv, SourceInv, SeedInv, UrandomInv, CrtUrandomInv, NoneInv, PqcInv,
                      OuterInv, Fillers, Sources
  <2> QED  BY <1>2, <2>2, <2>4, <2>5 DEF CallInv, u
<1>5. CASE task' = With([outer |-> fast], SystemTask(fast.system, fast.len, FastRetries))
  <2> HIDE DEF fast
  <2>1. /\ {"op", "status"} \subseteq DOMAIN fast /\ "outer" \notin DOMAIN fast
        /\ fast.op = "fast" /\ fast.status = "running" /\ fast.len = o.len /\ fast.system = o.system
        /\ DOMAIN fast = DOMAIN o
    BY <1>1, <1>2, <1>3 DEF Changed
  <2>2. FastInv(fast) /\ PqcInv(fast)
    BY <1>2, <1>3, <2>1 DEF FastInv, PqcInv, Larger
  <2>3. PICK op \in {"getrandom", "getentropy", "bcrypt", "none"} :
          Begun(SystemTask(fast.system, fast.len, FastRetries), op, fast.len)
    BY <1>2, <2>1, SystemBegins, EntropyAssumption
  <2>4. op \in Sources \cup {"none"} /\ op # "seed"
    BY DEF Sources
  <2> QED  BY <1>5, <2>1, <2>2, <2>3, <2>4, BegunInside
<1>6. CASE task' = Stop([fast EXCEPT !.stored = Larger(@, WholeWords(fast.len))], "ok")
  <2> DEFINE g == [fast EXCEPT !.stored = Larger(@, WholeWords(fast.len))]
             u == task'
  <2> HIDE DEF fast
  <2>1. Changed(fast, g, {"stored"}) /\ g.stored = Larger(fast.stored, WholeWords(fast.len))
    BY <1>2, <1>3 DEF Changed
  <2> HIDE DEF g
  <2>2. Changed(g, u, {"status"}) /\ u.status = "ok"
    BY <1>2, <1>3, <1>6, <2>1, StopFields DEF Changed, g
  <2>3. /\ DOMAIN u = DOMAIN o /\ u.op = "fast" /\ u.len = o.len /\ u.system = o.system
        /\ u.stored = Larger(Larger(o.stored, task.stored), WholeWords(o.len))
    BY <1>1, <1>2, <1>3, <2>1, <2>2 DEF Changed
  <2> HIDE DEF u
  <2>4. FastInv(u)
    BY <1>2, <2>2, <2>3, WholeWordsBounds, EntropyAssumption DEF FastInv, Larger
  <2>5. BufferInv(u) /\ SourceInv(u) /\ SeedInv(u) /\ UrandomInv(u) /\ CrtUrandomInv(u)
        /\ NoneInv(u) /\ PqcInv(u) /\ OuterInv(u)
    BY <1>2, <2>3 DEF BufferInv, SourceInv, SeedInv, UrandomInv, CrtUrandomInv, NoneInv, PqcInv,
                      OuterInv, Fillers, Sources
  <2> QED  BY <1>2, <2>3, <2>4, <2>5 DEF CallInv, u
<1> HIDE DEF fast
<1>7. task' = CASE task.status \in {"ok", "crash"} -> Stop(fast, task.status)
                [] task.status \notin {"ok", "crash"} /\ task.op = "seed" ->
                     With([outer |-> fast], SystemTask(fast.system, fast.len, FastRetries))
                [] OTHER -> Stop([fast EXCEPT !.stored = Larger(@, WholeWords(fast.len))], "ok")
  BY DEF FastResumes, fast
<1> QED  BY <1>4, <1>5, <1>6, <1>7

\* __GET_ENTROPY_PQC goes on, or ends: what it says of itself is all there is to show.
LEMMA PqcGoesOn ==
  ASSUME NEW o, o.op = "pqc", {"op", "status"} \subseteq DOMAIN o, "outer" \notin DOMAIN o,
         NEW u, Changed(o, u, {"processed", "bare", "status"}), PqcInv(u)
  PROVE  CallInv(u)
<1>1. DOMAIN u = DOMAIN o /\ u.op = "pqc"
  BY DEF Changed
<1>2. BufferInv(u) /\ SourceInv(u) /\ SeedInv(u) /\ UrandomInv(u) /\ CrtUrandomInv(u)
      /\ NoneInv(u) /\ FastInv(u) /\ OuterInv(u)
  BY <1>1 DEF BufferInv, SourceInv, SeedInv, UrandomInv, CrtUrandomInv, NoneInv, FastInv,
              OuterInv, Fillers, Sources
<1> QED  BY <1>1, <1>2 DEF CallInv

LEMMA PqcHardwareStep ==
  ASSUME CallInv(task), PqcHardware
  PROVE  CallInv(task')
<1> DEFINE s == CrtSeedTask(Chunk(task), PqcRetries, PoolBytes, task.trng \/ task.drbg)
<1>1. task.op = "pqc" /\ task.status = "running" /\ task' = With([outer |-> task], s)
  BY DEF PqcHardware, During, Running
<1>2. /\ {"op", "status"} \subseteq DOMAIN task /\ PqcInv(task) /\ FastInv(task) /\ OuterInv(task)
      /\ task.len \in Nat /\ task.processed \in Nat /\ task.processed < task.len
  BY <1>1 DEF CallInv, PqcInv
<1>3. "outer" \notin DOMAIN task
  BY <1>1, <1>2 DEF OuterInv, Fillers, Sources
<1>4. Chunk(task) \in Nat /\ PqcRetries \in Nat
  BY <1>2, EntropyAssumption DEF Chunk, Smaller, PqcRetries
<1>5. (task.trng \/ task.drbg) \in BOOLEAN
  OBVIOUS
<1>6. Begun(s, "crtseed", Chunk(task))
  BY <1>4, <1>5, CrtSeedBegins
<1> HIDE DEF s
<1> QED  BY <1>1, <1>2, <1>3, <1>6, BegunInside DEF Fillers

LEMMA PqcSystemStep ==
  ASSUME CallInv(task), PqcSystem
  PROVE  CallInv(task')
<1> DEFINE o == task.outer
<1>1. Nested /\ o.op = "pqc"
  BY DEF PqcSystem
<1>2. /\ {"op", "status"} \subseteq DOMAIN o /\ "outer" \notin DOMAIN o
      /\ o.status = "running" /\ FastInv(o) /\ PqcInv(o)
      /\ task.len \in Nat /\ task.len = Chunk(o) /\ o.system \in Systems
  BY <1>1, Resumed DEF PqcInv
<1>3. CASE task' = Stop(o, "undefined")
  <2>1. Changed(o, task', {"status"}) /\ task'.status = "undefined"
    BY <1>2, <1>3, StopFields
  <2>2. PqcInv(task')
    BY <1>1, <1>2, <2>1 DEF PqcInv, Changed
  <2> QED  BY <1>1, <1>2, <2>1, <2>2, PqcGoesOn DEF Changed
<1>4. CASE task' = With([outer |-> o], CrtSystemTask(o.system, task.len, PqcRetries))
  <2>1. PICK op \in {"getrandom", "getentropy", "bcrypt", "none", "crtdarwin"} :
          Begun(CrtSystemTask(o.system, task.len, PqcRetries), op, task.len)
    BY <1>2, CrtSystemBegins, EntropyAssumption DEF PqcRetries
  <2>2. op \in Fillers \ {"seed", "crturandom"}
    BY DEF Fillers, Sources
  <2> QED  BY <1>1, <1>2, <1>4, <2>1, <2>2, BegunInside
<1> QED  BY <1>3, <1>4 DEF PqcSystem

\* The pools: what is bare after another one, in the middle and at the end.
LEMMA PoolsCount ==
  ASSUME NEW len \in Nat, NEW p \in Nat, p < len, p % PoolBytes = 0,
         NEW bare \in Int, bare <= (p \div PoolBytes) * (WordBytes - 1),
         NEW c, c = Smaller(PoolBytes, len - p),
         NEW more \in Int, more <= bare + (WordBytes - 1)
  PROVE  /\ p + c < len => /\ (p + c) % PoolBytes = 0
                           /\ more <= ((p + c) \div PoolBytes) * (WordBytes - 1)
         /\ more <= (len \div PoolBytes + 1) * (WordBytes - 1)
<1> DEFINE P == PoolBytes
           B == WordBytes - 1
           j == p \div P
           q == len \div P
<1>1. P \in Nat \ {0} /\ B \in Nat
  BY EntropyAssumption
<1>2. /\ j \in Nat /\ j * P <= p /\ p < j * P + P
      /\ q \in Nat /\ q * P <= len /\ len < q * P + P
  BY <1>1, Division
<1>3. p = j * P
  BY <1>1
<1>4. bare <= j * B /\ more <= bare + B /\ c = Smaller(P, len - p)
  OBVIOUS
<1> HIDE DEF P, B, j, q
<1>5. j * B \in Nat /\ (j + 1) * B = j * B + B /\ (j + 1) * P = j * P + P
  BY <1>1, <1>2
<1>6. more <= (j + 1) * B
  BY <1>1, <1>4, <1>5
<1>7. ASSUME p + c < len
      PROVE  (p + c) \div P = j + 1 /\ (p + c) % P = 0
  <2>1. p + c = (j + 1) * P /\ p + c \in Nat
    BY <1>1, <1>2, <1>3, <1>4, <1>5, <1>7 DEF Smaller
  <2>2. (j + 1) * P <= p + c /\ p + c < (j + 1) * P + P /\ j + 1 \in Nat
    BY <1>1, <1>2, <2>1
  <2>3. (p + c) \div P = j + 1
    BY <1>1, <2>1, <2>2, DivisionUnique
  <2>4. (p + c) % P = 0
    BY <1>1, <1>2, <2>1, NoRemainder
  <2> QED  BY <2>3, <2>4
<1>8. j <= q
  <2> SUFFICES ASSUME q < j PROVE FALSE
    BY <1>2
  <2>1. PICK k \in Nat : j = q + 1 + k
    <3>1. j - q - 1 \in Nat /\ j = q + 1 + (j - q - 1)
      BY <1>2
    <3> QED  BY <3>1
  <2>2. j * P = q * P + P + k * P /\ k * P \in Nat
    BY <1>1, <1>2, <2>1
  <2> QED  BY <1>1, <1>2, <1>3, <2>2
<1>9. (j + 1) * B <= (q + 1) * B
  <2>1. PICK k \in Nat : q = j + k
    <3>1. q - j \in Nat /\ q = j + (q - j)
      BY <1>2, <1>8
    <3> QED  BY <3>1
  <2>2. (q + 1) * B = (j + 1) * B + k * B /\ k * B \in Nat
    BY <1>1, <1>2, <2>1
  <2> QED  BY <1>1, <1>2, <2>2
<1>10. more <= (q + 1) * B
  BY <1>1, <1>2, <1>6, <1>9
<1> QED  BY <1>6, <1>7, <1>10 DEF P, B, q

LEMMA PqcMixStep ==
  ASSUME CallInv(task), PqcMix
  PROVE  CallInv(task')
<1> DEFINE o == task.outer
           held == Larger(WholeWords(task.len), Pooled(task))
           next == [o EXCEPT !.processed = @ + task.len, !.bare = @ + task.len - held]
<1>1. Nested /\ o.op = "pqc" /\ task.op # "crtseed"
  BY DEF PqcMix
<1>2. /\ {"op", "status", "len", "system", "trng", "drbg", "processed", "bare"} \subseteq DOMAIN o
      /\ "outer" \notin DOMAIN o /\ o.status = "running" /\ o.op = "pqc"
      /\ o.len \in Nat /\ o.system \in Systems /\ o.processed \in Nat /\ o.bare \in Int
      /\ o.processed < o.len /\ o.processed % PoolBytes = 0
      /\ o.bare <= (o.processed \div PoolBytes) * (WordBytes - 1)
      /\ task.len \in Nat /\ task.len = Chunk(o)
      /\ task.done \in Nat /\ task.written \in Nat
  BY <1>1, Resumed DEF PqcInv
<1>3. held \in Int /\ task.len - held <= WordBytes - 1
  <2>1. task.len - task.written \in Int
    BY <1>2
  <2>2. WholeWords(task.len - task.written) \in Int
    <3> DEFINE d == task.len - task.written
    <3> HIDE DEF d
    <3>1. d \div WordBytes \in Int
      BY <2>1, EntropyAssumption DEF d
    <3> QED  BY <3>1, EntropyAssumption DEF WholeWords, d
  <2>3. Pooled(task) \in Int
    BY <1>2, <2>2 DEF Pooled
  <2> DEFINE w == WholeWords(task.len)
  <2>4. w \in Nat /\ task.len < w + WordBytes
    BY <1>2, WholeWordsBounds
  <2> HIDE DEF w
  <2>5. held = Larger(w, Pooled(task))
    BY DEF w
  <2> HIDE DEF held
  <2> QED  BY <1>2, <2>3, <2>4, <2>5, EntropyAssumption DEF Larger
<1> HIDE DEF held
<1>4. /\ Changed(o, next, {"processed", "bare"})
      /\ next.processed = o.processed + task.len /\ next.bare = o.bare + task.len - held
  BY <1>2 DEF Changed
<1> HIDE DEF next
<1>5. /\ next.processed \in Nat /\ next.bare \in Int /\ next.processed <= o.len
      /\ next.bare <= o.bare + (WordBytes - 1)
      /\ {"op", "status", "len", "system", "trng", "drbg", "processed", "bare"} \subseteq DOMAIN next
      /\ next.op = "pqc" /\ next.status = "running" /\ next.len = o.len /\ next.system = o.system
  BY <1>2, <1>3, <1>4, EntropyAssumption DEF Changed, Chunk, Smaller
<1>6. /\ next.processed < o.len => /\ next.processed % PoolBytes = 0
                                   /\ next.bare <= (next.processed \div PoolBytes) * (WordBytes - 1)
      /\ next.bare <= (o.len \div PoolBytes + 1) * (WordBytes - 1)
  <2>1. task.len = Smaller(PoolBytes, o.len - o.processed)
    BY <1>2 DEF Chunk
  <2> DEFINE p == o.processed
             l == o.len
             b == o.bare
             c == task.len
             m == next.bare
  <2>2. /\ l \in Nat /\ p \in Nat /\ p < l /\ p % PoolBytes = 0 /\ b \in Int
        /\ b <= (p \div PoolBytes) * (WordBytes - 1) /\ c = Smaller(PoolBytes, l - p)
        /\ m \in Int /\ m <= b + (WordBytes - 1) /\ next.processed = p + c
    BY <1>2, <1>4, <1>5, <2>1
  <2> HIDE DEF p, l, b, c, m
  <2>3. /\ p + c < l => /\ (p + c) % PoolBytes = 0
                        /\ m <= ((p + c) \div PoolBytes) * (WordBytes - 1)
        /\ m <= (l \div PoolBytes + 1) * (WordBytes - 1)
    BY <2>2, PoolsCount
  <2> QED  BY <2>2, <2>3 DEF l, m
<1>7. CASE task' = Stop(o, "crash")
  <2>1. Changed(o, task', {"status"}) /\ task'.status = "crash"
    BY <1>2, <1>7, StopFields
  <2>2. PqcInv(task')
    BY <1>2, <2>1 DEF PqcInv, Changed
  <2> QED  BY <1>2, <2>1, <2>2, PqcGoesOn DEF Changed
<1>8. CASE next.processed = o.len /\ task' = Stop(next, "ok")
  <2>1. Changed(next, task', {"status"}) /\ task'.status = "ok"
    BY <1>5, <1>8, StopFields
  <2>2. PqcInv(task')
    <3> DEFINE u == task'
    <3>1. /\ {"op", "status", "len", "system", "trng", "drbg", "processed", "bare"} \subseteq DOMAIN u
          /\ u.len = next.len /\ u.system = next.system /\ u.processed = next.processed
          /\ u.bare = next.bare /\ u.status = "ok"
      BY <1>5, <2>1 DEF Changed
    <3>2. u.len \in Nat /\ u.system \in Systems /\ u.processed \in Nat /\ u.bare \in Int
      BY <1>2, <1>5, <3>1
    <3>3. u.bare <= (u.len \div PoolBytes + 1) * (WordBytes - 1)
      BY <1>5, <1>6, <3>1
    <3>4. "ok" # "running"
      OBVIOUS
    <3> HIDE DEF u
    <3> QED  BY <3>1, <3>2, <3>3, <3>4, Zenon DEF PqcInv, u
  <2>3. Changed(o, task', {"processed", "bare", "status"})
    BY <1>4, <2>1 DEF Changed
  <2> QED  BY <1>2, <2>2, <2>3, PqcGoesOn
<1>9. CASE next.processed # o.len /\ task' = next
  <2>1. next.processed < o.len
    BY <1>2, <1>5, <1>9
  <2>2. PqcInv(next)
    <3>1. next.len \in Nat /\ next.system \in Systems /\ next.status # "ok"
      BY <1>2, <1>5
    <3> QED  BY <1>5, <1>6, <2>1, <3>1, Zenon DEF PqcInv
  <2>3. Changed(o, next, {"processed", "bare", "status"})
    BY <1>4 DEF Changed
  <2> QED  BY <1>2, <1>9, <2>2, <2>3, PqcGoesOn
<1>10. task' = CASE task.status = "crash" -> Stop(o, "crash")
                 [] task.status # "crash" /\ next.processed = o.len -> Stop(next, "ok")
                 [] OTHER -> next
  BY DEF PqcMix, next, held
<1> QED  BY <1>7, <1>8, <1>9, <1>10

-----------------------------------------------------------------------------
(* The calls of the other components, and the theorem. *)

\* A call that asks for no random bytes.
Foreign(t) == {"op", "status"} \subseteq DOMAIN t /\ "outer" \notin DOMAIN t /\ t.op \notin EntropyOps

LEMMA ForeignCalls == ASSUME NEW t, Foreign(t) PROVE CallInv(t)
BY DEF Foreign, CallInv, BufferInv, SourceInv, SeedInv, UrandomInv, CrtUrandomInv, NoneInv,
       FastInv, PqcInv, OuterInv, EntropyOps, Fillers, Sources

LEMMA EntropyBeginsStep ==
  ASSUME EntropyBegins
  PROVE  CallInv(task')
<1>1. 0 .. MaxBytes \subseteq Nat /\ 0 .. MaxRetries \subseteq Nat /\ 1 .. MaxBytes \subseteq Nat
      /\ FastRetries \in Nat
  BY EntropyAssumption
<1>2. CASE CallSeed
  BY <1>1, <1>2, SeedBegins DEF CallSeed, Enter, Begun
<1>3. CASE CallFast
  <2>1. PICK len \in 0 .. MaxBytes, system \in Systems, fitted \in BOOLEAN :
          task' = With([outer |-> [op |-> "fast", status |-> "running", len |-> len,
                                   system |-> system, stored |-> 0]],
                       SeedTask(len, FastRetries, FALSE, fitted))
    BY <1>3 DEF CallFast
  <2> DEFINE o == [op |-> "fast", status |-> "running", len |-> len, system |-> system, stored |-> 0]
             s == SeedTask(len, FastRetries, FALSE, fitted)
  <2>2. Begun(s, "seed", len) /\ ~s.crypt
    BY <1>1, SeedBegins
  <2>3. /\ {"op", "status"} \subseteq DOMAIN o /\ "outer" \notin DOMAIN o
        /\ o.status = "running" /\ o.op = "fast" /\ o.len = len /\ FastInv(o) /\ PqcInv(o)
    BY <1>1 DEF FastInv, PqcInv
  <2>4. task' = With([outer |-> o], s)
    BY <2>1
  <2>5. "seed" \in Sources \cup {"none"}
    BY DEF Sources
  <2> HIDE DEF o, s
  <2> QED  BY <2>2, <2>3, <2>4, <2>5, BegunInside
<1>4. CASE CallCrtSeed
  BY <1>1, <1>4, CrtSeedBegins DEF CallCrtSeed, Enter, Begun
<1>5. CASE CallCrtUrandom
  <2>1. PICK len \in 0 .. MaxBytes, max \in 0 .. MaxRetries, opened \in BOOLEAN :
          task' = With([op |-> "crturandom", status |-> "running", passes |-> 0,
                        sum |-> IF opened THEN 0 ELSE -1], Filling("crturandom", len, max))
    BY <1>5 DEF CallCrtUrandom, Enter
  <2> DEFINE own == [op |-> "crturandom", status |-> "running", passes |-> 0,
                     sum |-> IF opened THEN 0 ELSE -1]
             f == Filling("crturandom", len, max)
             u == task'
  <2>2. len \in Nat /\ max \in Nat
    BY <1>1
  <2>3. /\ DOMAIN f = {"op", "status", "len", "max", "done", "stored", "written", "retries"}
        /\ f.len = len /\ f.max = max
        /\ f.done = 0 /\ f.stored = 0 /\ f.written = 0 /\ f.retries = 0
    BY <2>2, FillingFields
  <2>4. DOMAIN own = {"op", "status", "passes", "sum"} /\ own.op = "crturandom"
        /\ own.status = "running" /\ own.passes = 0 /\ own.sum \in {0, -1}
    OBVIOUS
  <2>5. u = With(own, f)
    BY <2>1
  <2> HIDE DEF own, f, u
  <2>6. /\ DOMAIN u = DOMAIN own \cup DOMAIN f /\ u.op = "crturandom" /\ u.status = "running"
        /\ u.passes = 0 /\ u.sum \in {0, -1} /\ u.len = len /\ u.max = max
        /\ u.done = 0 /\ u.stored = 0 /\ u.written = 0 /\ u.retries = 0
    BY <2>3, <2>4, <2>5 DEF With
  <2>7. BufferInv(u) /\ CrtUrandomInv(u)
    BY <2>2, <2>3, <2>4, <2>6 DEF BufferInv, CrtUrandomInv
  <2>8. SourceInv(u) /\ SeedInv(u) /\ UrandomInv(u) /\ NoneInv(u) /\ FastInv(u) /\ PqcInv(u) /\ OuterInv(u)
    BY <2>3, <2>4, <2>6 DEF SourceInv, SeedInv, UrandomInv, NoneInv, FastInv, PqcInv, OuterInv, Sources
  <2> QED  BY <2>3, <2>4, <2>6, <2>7, <2>8 DEF CallInv, u
<1>6. CASE CallPqc
  <2>1. PICK len \in 1 .. MaxBytes, system \in Systems, trng \in BOOLEAN, drbg \in BOOLEAN :
          task' = [op |-> "pqc", status |-> "running", len |-> len, system |-> system,
                   trng |-> trng, drbg |-> drbg, processed |-> 0, bare |-> 0]
    BY <1>6 DEF CallPqc, Enter
  <2>2. len \in Nat /\ 0 < len
    OBVIOUS
  <2>3. 0 \div PoolBytes = 0 /\ 0 % PoolBytes = 0 /\ (0 \div PoolBytes) * (WordBytes - 1) = 0
    BY EntropyAssumption
  <2> DEFINE u == task'
  <2>4. /\ DOMAIN u = {"op", "status", "len", "system", "trng", "drbg", "processed", "bare"}
        /\ u.op = "pqc" /\ u.status = "running" /\ u.len = len /\ u.system = system
        /\ u.processed = 0 /\ u.bare = 0
    BY <2>1
  <2> HIDE DEF u
  <2>5. PqcInv(u)
    BY <2>2, <2>3, <2>4 DEF PqcInv
  <2>6. BufferInv(u) /\ SourceInv(u) /\ SeedInv(u) /\ UrandomInv(u) /\ CrtUrandomInv(u)
        /\ NoneInv(u) /\ FastInv(u) /\ OuterInv(u)
    BY <2>4 DEF BufferInv, SourceInv, SeedInv, UrandomInv, CrtUrandomInv, NoneInv, FastInv,
                OuterInv, Fillers, Sources
  <2> QED  BY <2>4, <2>5, <2>6 DEF CallInv, u
<1> QED  BY <1>2, <1>3, <1>4, <1>5, <1>6 DEF EntropyBegins

-----------------------------------------------------------------------------
(* The calls of the other components begin as one of theirs, and stay it. *)

ArithOps == {"add", "sub", "mul", "compare", "div", "inverse", "modmul", "scan", "population"}
UtilOps  == {"range", "move", "limbs", "pair"}

\* A call of one of ops, which nobody waits for.
Plain(t, ops) == {"op", "status"} \subseteq DOMAIN t /\ "outer" \notin DOMAIN t /\ t.op \in ops

\* The same call, further on.
Continues(t, u) == DOMAIN u = DOMAIN t /\ u.op = t.op

LEMMA PlainContinues ==
  ASSUME NEW t, NEW u, NEW ops, Plain(t, ops), Continues(t, u)
  PROVE  Plain(u, ops)
BY DEF Plain, Continues

LEMMA DivTaskPlain ==
  ASSUME NEW kit, NEW lo, NEW hi, NEW div, NEW status, NEW quot, NEW rem, NEW over
  PROVE  Plain(DivTask(kit, lo, hi, div, status, quot, rem, over), {"div"})
BY DEF DivTask, Plain

LEMMA ArithBegun ==
  ASSUME ArithBegins
  PROVE  Plain(task', ArithOps)
<1>1. CASE CallPairwise
  BY <1>1 DEF CallPairwise, Enter, Plain, ArithOps
<1>2. CASE CallCompare
  BY <1>2 DEF CallCompare, Enter, Plain, ArithOps
<1>3. CASE CallDivide
  <2>1. PICK kit \in Kits, lo \in WideWords, hi \in WideWords, div \in WideWords :
          task' = CASE kit = "constant" -> CrtDivTask(lo, hi, div)
                    [] kit # "constant" /\ (div = 0 \/ hi >= div) ->
                         DivTask(kit, lo, hi, div, "ok", MaxWord, HighLeft(hi, div), 1)
                    [] kit # "constant" /\ hi < div /\ (hi = 0 \/ kit = "builtin") ->
                         DivTask(kit, lo, hi, div, "ok", (hi * Values + lo) \div div,
                                 (hi * Values + lo) % div, 0)
                    [] OTHER -> DivTask(kit, lo, hi, div, "running", 0, hi, 0)
    BY <1>3 DEF CallDivide, Enter
  <2>2. Plain(CrtDivTask(lo, hi, div), {"div"})
    <3> DEFINE t == DivTask("constant", lo, hi, div, "running", 0, 1, 1)
    <3>1. Plain(t, {"div"}) /\ Plain(DivTask("constant", lo, hi, div, "running", 0, hi, 0), {"div"})
      BY DivTaskPlain
    <3> HIDE DEF t
    <3>2. Plain([t EXCEPT !.low = MadeUpLow], {"div"})
      BY <3>1 DEF Plain
    <3> QED  BY <3>1, <3>2 DEF CrtDivTask, t
  <2>3. Plain(task', {"div"})
    BY <2>1, <2>2, DivTaskPlain, Zenon
  <2> QED  BY <2>3 DEF Plain, ArithOps
<1>4. CASE CallInverse
  BY <1>4 DEF CallInverse, Enter, Plain, ArithOps
<1>5. CASE CallModMul
  <2>1. PICK kit \in {"builtin", "portable"}, a \in WideWords, b \in WideWords, mod \in WideWords :
          LET wide == WideMul(kit, a, b)
              t    == [op |-> "modmul", status |-> "ok", kit |-> kit, a |-> a, b |-> b, mod |-> mod,
                       low |-> wide.lo, hi |-> wide.hi, i |-> 0, res |-> 0]
          IN  Enter(CASE mod = 0 -> [t EXCEPT !.status = "crash"]
                [] mod # 0 /\ kit = "builtin" -> [t EXCEPT !.res = (a * b) % mod]
                [] mod # 0 /\ kit = "portable" /\ wide.hi = 0 -> [t EXCEPT !.res = wide.lo % mod]
                [] OTHER -> [t EXCEPT !.status = "running", !.res = wide.hi % mod])
    BY <1>5, Zenon DEF CallModMul
  <2> DEFINE wide == WideMul(kit, a, b)
             t == [op |-> "modmul", status |-> "ok", kit |-> kit, a |-> a, b |-> b, mod |-> mod,
                   low |-> wide.lo, hi |-> wide.hi, i |-> 0, res |-> 0]
  <2>2. task' = CASE mod = 0 -> [t EXCEPT !.status = "crash"]
              [] mod # 0 /\ kit = "builtin" -> [t EXCEPT !.res = (a * b) % mod]
              [] mod # 0 /\ kit = "portable" /\ wide.hi = 0 -> [t EXCEPT !.res = wide.lo % mod]
              [] OTHER -> [t EXCEPT !.status = "running", !.res = wide.hi % mod]
    BY <2>1 DEF Enter
  <2>3. Plain(t, {"modmul"})
    BY DEF Plain
  <2> HIDE DEF t, wide
  <2>4. \/ task' = [t EXCEPT !.status = "crash"]
        \/ \E r : task' = [t EXCEPT !.res = r]
        \/ \E r : task' = [t EXCEPT !.status = "running", !.res = r]
    BY <2>2, Zenon
  <2> QED  BY <2>3, <2>4 DEF Plain, ArithOps
<1>6. CASE CallScan
  BY <1>6 DEF CallScan, Enter, Plain, ArithOps
<1>7. CASE CallPopulation
  BY <1>7 DEF CallPopulation, Enter, Plain, ArithOps
<1> QED  BY <1>1, <1>2, <1>3, <1>4, <1>5, <1>6, <1>7 DEF ArithBegins

LEMMA ArithContinues ==
  ASSUME ArithSteps, "op" \in DOMAIN task
  PROVE  task.op \in ArithOps /\ Continues(task, task')
BY DEF ArithSteps, Divide, DivPass, DivideEnds, Invert, ModMul, During, ArithOps, Continues

LEMMA RootBegun ==
  ASSUME RootBegins
  PROVE  Plain(task', {"root"})
<1>1. PICK fn, index, values : CallRootOf(fn, index, values)
  BY Zenon DEF RootBegins, CallRoot
<1>2. PICK form, a, sign, poisoned :
        LET t == RootTask(fn, form, index, a, sign, poisoned)
        IN  CASE index = 0 -> Enter([t EXCEPT !.status = "BIGINT_ERR_INVAL"])
             [] index # 0 /\ ~InDomain(index, sign) -> Enter([t EXCEPT !.status = "BIGINT_ERR_DOMAIN"])
             [] index # 0 /\ InDomain(index, sign) /\ a \in {0, 1} ->
                  \E status \in {"ok"} \cup (IF form = "fun" THEN {"DNML_ALLOC_OOM"} ELSE {}) :
                    Enter([t EXCEPT !.status = status])
             [] OTHER -> Dispatched(t)
  BY <1>1, Zenon DEF CallRootOf
<1> DEFINE t == RootTask(fn, form, index, a, sign, poisoned)
<1>3. Plain(t, {"root"})
  BY DEF RootTask, Plain
<1> HIDE DEF t
<1>4. \/ \E status : task' = [t EXCEPT !.status = status]
      \/ Dispatched(t)
  BY <1>2, Zenon DEF Enter, t
<1>5. ASSUME Dispatched(t)
      PROVE  \/ \E status : task' = [t EXCEPT !.status = status]
             \/ \E value : task' = [t EXCEPT !.value = value]
             \/ \E status, value : task' = [t EXCEPT !.status = status, !.value = value]
  BY <1>5, Zenon DEF Dispatched, Enter, TwoLimbCall, WordCall
<1> QED  BY <1>3, <1>4, <1>5 DEF Plain

LEMMA RootContinues ==
  ASSUME RootSteps, "op" \in DOMAIN task
  PROVE  task.op = "root" /\ Continues(task, task')
<1>1. \A t, next : "op" \in DOMAIN t => Continues(t, Improve(t, next))
  BY DEF Improve, Continues
<1>2. \A t : "op" \in DOMAIN t => Continues(t, ByForm(t))
  BY DEF ByForm, Continues
<1>3. \A t : "op" \in DOMAIN t => Continues(t, HeronPass(t))
  BY <1>1, <1>2 DEF HeronPass, Continues
<1>4. \A t : "op" \in DOMAIN t => Continues(t, [t EXCEPT !.status = "crash"])
                              /\ Continues(t, [t EXCEPT !.status = "undefined"])
  BY DEF Continues
<1>5. \A t : "op" \in DOMAIN t => Continues(t, CubePass(t))
  <2> TAKE t
  <2> DEFINE u == Improve(t, (2 * t.value + t.a \div (t.value * t.value)) \div 3)
  <2>1. "op" \in DOMAIN t => Continues(t, u) /\ Continues(t, ByForm(u))
    BY <1>1, <1>2 DEF Continues
  <2>2. CubePass(t) = [t EXCEPT !.status = "crash"] \/ CubePass(t) = ByForm(u)
    BY DEF CubePass
  <2> HIDE DEF u
  <2> QED  BY <1>4, <2>1, <2>2
<1>6. \A t : "op" \in DOMAIN t => Continues(t, WordPass(t))
  BY <1>1, <1>4, Zenon DEF WordPass
<1>7. During("root") /\ (task' = HeronPass(task) \/ task' = CubePass(task) \/ task' = WordPass(task))
  BY DEF RootSteps, RootPass
<1> QED  BY <1>3, <1>5, <1>6, <1>7 DEF During

LEMMA PrimeBegun ==
  ASSUME PrimeBegins
  PROVE  Plain(task', {"prime"})
<1>1. PICK sign, limbs, low :
        LET t == PrimeTask(sign, limbs, low)
        IN  \/ \E verdict : task' = End(t, verdict)
            \/ task' = OneWordTest(t)
            \/ \E status : task' = [t EXCEPT !.status = status]
  BY Zenon DEF PrimeBegins, CallIsPrime, Enter
<1> DEFINE t == PrimeTask(sign, limbs, low)
<1>2. Plain(t, {"prime"})
  BY DEF PrimeTask, Plain
<1> HIDE DEF t
<1>3. \/ \E verdict : task' = End(t, verdict)
      \/ task' = OneWordTest(t)
      \/ \E status : task' = [t EXCEPT !.status = status]
  BY <1>1 DEF t
<1> QED  BY <1>2, <1>3 DEF Plain, End, OneWordTest

LEMMA PrimeContinues ==
  ASSUME PrimeSteps, "op" \in DOMAIN task
  PROVE  task.op = "prime" /\ Continues(task, task')
<1>1. During("prime") /\ (task' = TrialPass(task) \/ task' = RabinPass(task))
  BY DEF PrimeSteps, Trial, Rabin
<1>2. \/ \E verdict : task' = End(task, verdict)
      \/ \E i, at : task' = [task EXCEPT !.i = i, !.at = at]
      \/ \E at : task' = [task EXCEPT !.at = at]
  <2>1. \/ \E verdict : TrialPass(task) = End(task, verdict)
        \/ \E i, at : TrialPass(task) = [task EXCEPT !.i = i, !.at = at]
    <3> DEFINE goes == [task EXCEPT !.i = @ + WheelStep(task.at), !.at = @ + 1]
    <3>1. TrialPass(task) \in {End(task, FALSE), End(task, TRUE), goes}
      <4> HIDE DEF goes
      <4>1. TrialPass(task) = CASE task.low <= 1 -> End(task, FALSE)
              [] task.low \in {2, 3, 5} -> End(task, TRUE)
              [] task.low > 1 /\ task.low \notin {2, 3, 5} /\ \E d \in {2, 3, 5} : Divides(d, task.low) ->
                   End(task, FALSE)
              [] OTHER -> CASE task.i > WheelRange(task.low) -> End(task, TRUE)
                            [] task.i <= WheelRange(task.low) /\ Divides(task.i, task.low) -> End(task, FALSE)
                            [] OTHER -> goes
        BY DEF TrialPass, goes
      <4> QED  BY <4>1, Zenon
    <3>2. goes = [task EXCEPT !.i = task.i + WheelStep(task.at), !.at = task.at + 1]
      OBVIOUS
    <3> QED  BY <3>1, <3>2, Zenon
  <2>2. \/ \E verdict : RabinPass(task) = End(task, verdict)
        \/ \E at : RabinPass(task) = [task EXCEPT !.at = at]
    BY Zenon DEF RabinPass
  <2> QED  BY <1>1, <2>1, <2>2, Zenon
<1> QED  BY <1>1, <1>2 DEF During, End, Continues

LEMMA CryptUtilBegun ==
  ASSUME CryptUtilBegins
  PROVE  Plain(task', UtilOps)
<1>1. CASE CallRange
  BY <1>1 DEF CallRange, Enter, Plain, UtilOps
<1>2. CASE CallMove
  BY <1>2 DEF CallMove, Enter, Plain, UtilOps
<1>3. CASE CallLimbs
  BY <1>3 DEF CallLimbs, Enter, Plain, UtilOps
<1>4. CASE CallPair
  BY <1>4 DEF CallPair, Enter, Plain, UtilOps
<1> QED  BY <1>1, <1>2, <1>3, <1>4 DEF CryptUtilBegins

LEMMA CryptBegun ==
  ASSUME CryptBegins
  PROVE  Plain(task', {"crypt"})
BY DEF CryptBegins, Enter, Plain

LEMMA CryptContinues ==
  ASSUME CryptSteps, "op" \in DOMAIN task
  PROVE  task.op = "crypt" /\ Continues(task, task')
<1>1. \A fn, code, number, heap, spoils : \A w \in Either :
        Returns(fn, w, code, number, heap, spoils) => Continues(task, task')
  BY DEF Returns, Continues, Either
<1>2. \A fn, w, how : Breaks(fn, w, how) => Continues(task, task')
  BY DEF Breaks, Continues
<1>3. \A w \in Either : Transfer(w) => Continues(task, task')
  <2> SUFFICES ASSUME NEW w \in Either, Transfer(w) PROVE Continues(task, task')
    OBVIOUS
  <2>1. \/ \E fn, code, number, heap, spoils : Returns(fn, w, code, number, heap, spoils)
        \/ \E fn, how : Breaks(fn, w, how)
        \/ task' = [task EXCEPT !.left = @ - 1, ![w] = task[Other(w)],
                     ![Other(w)] = Transferred(task[Other(w)]), !.heap = Freed(@, task[w].buf),
                     !.last = [fn |-> "transfer", on |-> w, code |-> "SUCCESS"]]
    BY Zenon DEF Transfer
  <2>2. w \in {"x", "y"} /\ Other(w) \in {"x", "y"}
    BY DEF Either, Other
  <2>3. CASE task' = [task EXCEPT !.left = @ - 1, ![w] = task[Other(w)],
                        ![Other(w)] = Transferred(task[Other(w)]), !.heap = Freed(@, task[w].buf),
                        !.last = [fn |-> "transfer", on |-> w, code |-> "SUCCESS"]]
    BY <2>2, <2>3 DEF Continues
  <2> QED  BY <1>1, <1>2, <2>1, <2>3
<1>4. CASE CryptCalls
  <2>1. PICK w \in Either :
          \/ Construct(w) \/ Get(w) \/ Canonicalize(w) \/ CopyWord(w) \/ CopyResized(w) \/ Normalize(w)
          \/ Transfer(w) \/ Reset(w) \/ Resize(w) \/ Reserve(w) \/ Shrink(w) \/ Operate(w) \/ Free(w)
    BY <1>4 DEF CryptCalls
  <2>2. Construct(w) \/ Free(w) => Continues(task, task')
    BY <1>1, <1>2, Zenon DEF Construct, Free
  <2>3. Get(w) \/ Canonicalize(w) \/ CopyWord(w) \/ CopyResized(w) => Continues(task, task')
    BY <1>1, <1>2, Zenon DEF Get, Canonicalize, CopyWord, CopyResized, NoStorage, LostStorage
  <2>4. Normalize(w) \/ Reset(w) \/ Resize(w) => Continues(task, task')
    BY <1>1, <1>2, Zenon DEF Normalize, Reset, Resize, NoStorage, LostStorage
  <2>5. Reserve(w) \/ Shrink(w) \/ Operate(w) => Continues(task, task')
    BY <1>1, <1>2, Zenon DEF Reserve, Shrink, Operate, NoStorage, LostStorage
  <2> QED  BY <1>3, <1>4, <2>1, <2>2, <2>3, <2>4, <2>5 DEF CryptCalls, Calls, Crypt, During
<1>5. CASE CryptReleases
  BY <1>5 DEF CryptReleases, Crypt, During, Continues
<1> QED  BY <1>4, <1>5 DEF CryptSteps

-----------------------------------------------------------------------------
(* The invariant and the theorem. *)

ForeignOps == ArithOps \cup UtilOps \cup {"root", "prime", "crypt", "idle"}

LEMMA PlainForeign ==
  ASSUME NEW t, Plain(t, ForeignOps)
  PROVE  CallInv(t)
<1>1. t.op \notin EntropyOps
  BY DEF Plain, ForeignOps, ArithOps, UtilOps, EntropyOps, Fillers, Sources
<1> QED  BY <1>1, ForeignCalls DEF Plain, Foreign

\* Nobody waits for a call that is none of random bytes.
LEMMA ForeignPlain ==
  ASSUME CallInv(task), task.op \in ForeignOps
  PROVE  Plain(task, ForeignOps)
<1>1. task.op \notin EntropyOps
  BY DEF ForeignOps, ArithOps, UtilOps, EntropyOps, Fillers, Sources
<1> QED  BY <1>1 DEF Plain, CallInv, OuterInv, EntropyOps, Fillers

LEMMA EntropyInit == Init => IInv
<1> SUFFICES ASSUME Init PROVE CallInv(task)
  BY DEF IInv
<1>1. Plain(task, ForeignOps)
  BY DEF Init, Idle, Plain, ForeignOps
<1> QED  BY <1>1, PlainForeign

LEMMA ForeignNext ==
  ASSUME CallInv(task),
         \/ ArithBegins \/ RootBegins \/ PrimeBegins \/ CryptUtilBegins \/ CryptBegins
         \/ ArithSteps \/ RootSteps \/ PrimeSteps \/ CryptSteps \/ Leave
  PROVE  CallInv(task')
<1>1. "op" \in DOMAIN task
  BY DEF CallInv
<1>2. CASE ArithBegins \/ RootBegins \/ PrimeBegins \/ CryptUtilBegins \/ CryptBegins
  <2>1. Plain(task', ForeignOps)
    BY <1>2, ArithBegun, RootBegun, PrimeBegun, CryptUtilBegun, CryptBegun DEF Plain, ForeignOps
  <2> QED  BY <2>1, PlainForeign
<1>3. CASE ArithSteps \/ RootSteps \/ PrimeSteps \/ CryptSteps
  <2>1. task.op \in ForeignOps /\ Continues(task, task')
    BY <1>1, <1>3, ArithContinues, RootContinues, PrimeContinues, CryptContinues DEF ForeignOps
  <2>2. Plain(task', ForeignOps)
    BY <2>1, ForeignPlain, PlainContinues
  <2> QED  BY <2>2, PlainForeign
<1>4. CASE Leave
  <2>1. Plain(task', ForeignOps)
    BY <1>4 DEF Leave, Idle, Plain, ForeignOps
  <2> QED  BY <2>1, PlainForeign
<1> QED  BY <1>2, <1>3, <1>4

LEMMA EntropyStepsInv ==
  ASSUME CallInv(task), EntropySteps
  PROVE  CallInv(task')
BY DrawStep, ReadUrandomStep, SystemStep, CrtSeedStep, DarwinStep, CrtUrandomStep, FastResumesStep,
   PqcHardwareStep, PqcSystemStep, PqcMixStep
   DEF EntropySteps

LEMMA EntropyNext == IInv /\ [Next]_task => IInv'
<1> SUFFICES ASSUME CallInv(task), [Next]_task PROVE CallInv(task')
  BY DEF IInv
<1>1. CASE EntropyBegins
  BY <1>1, EntropyBeginsStep
<1>2. CASE EntropySteps
  BY <1>2, EntropyStepsInv
<1>3. CASE \/ ArithBegins \/ RootBegins \/ PrimeBegins \/ CryptUtilBegins \/ CryptBegins
           \/ ArithSteps \/ RootSteps \/ PrimeSteps \/ CryptSteps \/ Leave
  BY <1>3, ForeignNext
<1>4. CASE UNCHANGED task
  BY <1>4
<1> QED  BY <1>1, <1>2, <1>3, <1>4 DEF Next, Begin, Step

\* What holds of every call makes the sources deliver what they report.
LEMMA InvSound == IInv => SourcesSound
<1> SUFFICES ASSUME CallInv(task) PROVE SourcesSound
  BY DEF IInv
<1>1. EntropyTypeOK
  BY DEF EntropyTypeOK, CallInv, BufferInv, Fillers, Sources
<1>2. FilledWhenOk
  <2> SUFFICES ASSUME Stopped, task.op \in Sources, task.len > 0
               PROVE  IF task.status = "ok"
                        THEN /\ task.stored = (IF task.op = "seed" /\ task.crypt THEN WholeWords(task.len) ELSE task.len)
                             /\ IF task.op = "urandom" THEN task.written >= task.len ELSE task.written = task.len
                        ELSE task.done < task.len
    BY DEF FilledWhenOk
  <2>1. task.len \in Nat /\ task.done \in 0 .. task.len /\ task.stored \in 0 .. task.len /\ task.written \in Nat
    BY DEF CallInv, BufferInv, Fillers, Sources
  <2>2. CASE task.status = "ok"
    <3>1. task.done = task.len
      BY <2>2 DEF CallInv, SourceInv
    <3>2. CASE task.op = "seed"
      BY <2>1, <2>2, <3>1, <3>2 DEF CallInv, SeedInv
    <3>3. CASE task.op = "urandom"
      BY <2>1, <2>2, <3>1, <3>3 DEF CallInv, UrandomInv
    <3>4. CASE task.op \in {"getrandom", "getentropy", "bcrypt"}
      BY <2>1, <2>2, <3>1, <3>4 DEF CallInv, SourceInv
    <3> QED  BY <3>2, <3>3, <3>4 DEF Sources
  <2>3. CASE task.status # "ok"
    BY <2>1, <2>3 DEF CallInv, SourceInv, Stopped
  <2> QED  BY <2>2, <2>3
<1>3. DeviceClosed
  BY DEF DeviceClosed, Stopped, CallInv, UrandomInv
<1>4. FastFills
  BY DEF FastFills, CallInv, FastInv
<1>5. PassesSuffice
  <2> SUFFICES ASSUME Ended, task.op = "crturandom", task.len > 0
               PROVE  task.status = "ok" <=> task.done = task.len
    BY DEF PassesSuffice
  <2>1. /\ task.len \in Nat /\ task.max \in Nat /\ task.done \in 0 .. task.len
        /\ task.retries \in 0 .. task.max + 1
    BY DEF CallInv, BufferInv, Fillers
  <2>2. task.status \in {"ok", "failed"}
    BY DEF CallInv, CrtUrandomInv, Ended, Stopped
  <2>3. task.status = "ok" => task.sum = 0 /\ task.passes = task.len + task.max
    BY DEF CallInv, CrtUrandomInv
  <2>4. task.sum = 0 => task.retries <= task.max /\ (task.done < task.len => task.passes <= task.done + task.retries)
    BY DEF CallInv, CrtUrandomInv
  <2>5. task.status = "failed" => task.done < task.len \/ task.len = 0
    BY DEF CallInv, CrtUrandomInv
  <2> QED  BY <2>1, <2>2, <2>3, <2>4, <2>5
<1>6. PqcCovers
  BY DEF PqcCovers, CallInv, PqcInv
<1> QED  BY <1>1, <1>2, <1>3, <1>4, <1>5, <1>6 DEF SourcesSound

\* What the functions of random bytes keep true of the call in progress, whatever
\* the processor, the system and the device answer.
THEOREM EntropyInvariant == Spec => []IInv
BY EntropyInit, EntropyNext, PTL DEF Spec

\* Every source of random numbers delivers what it reports and stays inside its
\* buffer and its retries: through signals, short reads, refusals and the switch to
\* another source, for every length, every number of retries and every width of a
\* draw, of a chunk and of a pool (intrinsics.c:184-422, crt_intrin.c:178-486).
THEOREM EntropySound == Spec => []SourcesSound
BY EntropyInvariant, InvSound, PTL

-----------------------------------------------------------------------------
(* The cryptInts: the inductive invariant. *)

\* A number, as far as its storage goes.
Number(x) ==
  {"buf", "cap", "n", "sign"} \subseteq DOMAIN x /\ x.buf \in Int /\ x.cap \in 0 .. CryptCap

\* Finitely many buffers, none of them at NULL.
HeapOK(h) ==
  /\ IsFiniteSet(DOMAIN h) /\ DOMAIN h \subseteq Nat \ {0}
  /\ \A p \in DOMAIN h : h[p] \in Seq(Nat)

\* Every buffer belongs to one number, which has room for its capacity.
Owned(x, y, h) ==
  /\ x.buf = 0 \/ Usable(x, h)
  /\ y.buf = 0 \/ Usable(y, h)
  /\ DOMAIN h \subseteq {x.buf, y.buf}
  /\ x.buf = y.buf => x.buf = 0

\* What a number is like that was built, or was given a word.
Clean(x, h) ==
  /\ Contract(x, h)
  /\ \A i \in x.n * CryptBytes + 1 .. x.cap * CryptBytes : h[x.buf][i] = 0

CryptInv(t) ==
  t.op = "crypt" =>
    /\ {"op", "status", "left", "x", "y", "heap", "spoiled", "last"} \subseteq DOMAIN t
    /\ Number(t.x) /\ Number(t.y) /\ HeapOK(t.heap) /\ t.spoiled \in BOOLEAN
    /\ {"fn", "on", "code"} \subseteq DOMAIN t.last /\ t.last.on \in Either
    /\ t.spoiled \/ (t.status # "undefined" /\ Owned(t.x, t.y, t.heap))
    /\ t.last.fn \in {"new", "get"} /\ t.last.code = "SUCCESS" /\ t.status = "running" =>
         Clean(t[t.last.on], t.heap)

CIInv == CryptInv(task)

-----------------------------------------------------------------------------
(* The heap. *)

LEMMA HeldSound ==
  ASSUME NEW h, HeapOK(h), NEW p \in Nat \ {0}, NEW bytes \in Seq(Nat)
  PROVE  /\ HeapOK(Held(h, p, bytes)) /\ DOMAIN Held(h, p, bytes) = DOMAIN h \cup {p}
         /\ Held(h, p, bytes)[p] = bytes
         /\ \A q \in DOMAIN h \ {p} : Held(h, p, bytes)[q] = h[q]
<1>1. IsFiniteSet(DOMAIN h \cup {p})
  BY FS_AddElement DEF HeapOK
<1> QED  BY <1>1 DEF HeapOK, Held

LEMMA FreedSound ==
  ASSUME NEW h, HeapOK(h), NEW p
  PROVE  /\ HeapOK(Freed(h, p)) /\ DOMAIN Freed(h, p) = DOMAIN h \ {p}
         /\ \A q \in DOMAIN h \ {p} : Freed(h, p)[q] = h[q]
<1>1. IsFiniteSet(DOMAIN h \ {p})
  BY FS_RemoveElement DEF HeapOK
<1> QED  BY <1>1 DEF HeapOK, Freed

LEMMA WrittenSound ==
  ASSUME NEW h, HeapOK(h), NEW p \in DOMAIN h, NEW bytes \in Seq(Nat)
  PROVE  LET g == [h EXCEPT ![p] = bytes]
         IN  /\ HeapOK(g) /\ DOMAIN g = DOMAIN h /\ g[p] = bytes
             /\ \A q \in DOMAIN h \ {p} : g[q] = h[q]
BY DEF HeapOK

\* A fresh buffer is none of those that are there or that a number still names.
LEMMA FreshIsNew ==
  ASSUME NEW h, HeapOK(h), NEW a, NEW b
  PROVE  Fresh(h, {a, b}) \in Nat \ {0} /\ Fresh(h, {a, b}) \notin DOMAIN h \cup {a, b}
<1> DEFINE n == Cardinality(DOMAIN h)
           used == DOMAIN h \cup {a, b}
<1>1. n \in Nat
  BY FS_CardinalityType DEF HeapOK
<1>2. IsFiniteSet(used) /\ Cardinality(used) <= n + 2 /\ Cardinality(used) \in Nat
  <2>1. /\ IsFiniteSet(DOMAIN h \cup {a})
        /\ Cardinality(DOMAIN h \cup {a}) \in {n, n + 1}
    BY <1>1, FS_AddElement DEF HeapOK
  <2>2. /\ IsFiniteSet((DOMAIN h \cup {a}) \cup {b})
        /\ Cardinality((DOMAIN h \cup {a}) \cup {b}) \in {n, n + 1, n + 2}
    BY <1>1, <2>1, FS_AddElement
  <2>3. (DOMAIN h \cup {a}) \cup {b} = used
    OBVIOUS
  <2>4. IsFiniteSet(used) /\ Cardinality(used) \in {n, n + 1, n + 2}
    BY <2>2, <2>3, Zenon
  <2> HIDE DEF used, n
  <2> QED  BY <1>1, <2>4
<1>3. IsFiniteSet(1 .. n + 3) /\ Cardinality(1 .. n + 3) = n + 3
  <2>1. n + 3 \in Int /\ 1 \in Int /\ 1 <= n + 3
    BY <1>1
  <2>2. IsFiniteSet(1 .. n + 3) /\ Cardinality(1 .. n + 3) = (n + 3) - 1 + 1
    BY <2>1, FS_Interval
  <2> QED  BY <1>1, <2>2
<1>4. ~ (1 .. n + 3 \subseteq used)
  BY <1>1, <1>2, <1>3, FS_Subset
<1>5. Fresh(h, {a, b}) \in (1 .. n + 3) \ used
  <2> HIDE DEF used, n
  <2>1. \E p \in (1 .. n + 3) \ used : TRUE
    BY <1>4
  <2>2. (CHOOSE p \in (1 .. n + 3) \ used : TRUE) \in (1 .. n + 3) \ used
    BY <2>1, Zenon
  <2> QED  BY <2>2 DEF Fresh, n, used
<1> QED  BY <1>1, <1>5

\* The buffer at its old place or at one that no number names.
Moved(r, h, ptr, limbs, taken) ==
  /\ r.ptr \in Nat \ {0} /\ HeapOK(r.heap)
  /\ r.ptr = ptr \/ r.ptr \notin DOMAIN h \cup taken
  /\ DOMAIN r.heap = (DOMAIN h \ {ptr}) \cup {r.ptr}
  /\ Len(r.heap[r.ptr]) = limbs * CryptBytes
  /\ \A q \in DOMAIN h \ {ptr} : r.heap[q] = h[q]

\* Reallocation keeps everything, or has moved the buffer.
LEMMA ReallocatedSound ==
  ASSUME NEW h, HeapOK(h), NEW ptr \in DOMAIN h, NEW limbs \in Nat, NEW a, NEW b, NEW taken,
         taken = {a, b}, NEW r \in Reallocated(h, ptr, limbs, taken)
  PROVE  (r.ptr = 0 /\ r.heap = h) \/ Moved(r, h, ptr, limbs, taken)
<1> DEFINE content(g) == [i \in 1 .. limbs * CryptBytes |-> IF i <= Len(h[ptr]) THEN h[ptr][i] ELSE g]
           placed(p, g) == [heap |-> Held(Freed(h, ptr), p, content(g)), ptr |-> p]
           fresh == Fresh(h, taken)
<1>1. limbs * CryptBytes \in Nat
  BY CryptUtilAssumption
<1>2. h[ptr] \in Seq(Nat) /\ ptr \in Nat \ {0}
  BY DEF HeapOK
<1>3. \A g \in Leftovers : content(g) \in Seq(Nat) /\ Len(content(g)) = limbs * CryptBytes
  <2> DEFINE m == limbs * CryptBytes
  <2>1. m \in Nat
    BY <1>1
  <2> HIDE DEF m
  <2>2. \A g \in Nat : [i \in 1 .. m |-> IF i <= Len(h[ptr]) THEN h[ptr][i] ELSE g] \in [1 .. m -> Nat]
    BY <1>2, <2>1
  <2>3. \A s \in [1 .. m -> Nat] : s \in Seq(Nat) /\ Len(s) = m
    BY <2>1
  <2> QED  BY <2>2, <2>3 DEF Leftovers, m
<1>4. fresh \in Nat \ {0} /\ fresh \notin DOMAIN h \cup taken
  <2>1. Fresh(h, {a, b}) \in Nat \ {0} /\ Fresh(h, {a, b}) \notin DOMAIN h \cup {a, b}
    BY FreshIsNew
  <2> QED  BY <2>1
<1>5. HeapOK(Freed(h, ptr)) /\ DOMAIN Freed(h, ptr) = DOMAIN h \ {ptr}
      /\ \A q \in DOMAIN h \ {ptr} : Freed(h, ptr)[q] = h[q]
  BY FreedSound
<1>6. r = [heap |-> h, ptr |-> 0] \/ \E p \in {ptr, fresh} : \E g \in Leftovers : r = placed(p, g)
  BY DEF Reallocated
<1>7. ASSUME NEW p \in {ptr, fresh}, NEW g \in Leftovers, r = placed(p, g)
      PROVE  Moved(r, h, ptr, limbs, taken)
  <2> DEFINE b0 == content(g)
             f  == Freed(h, ptr)
  <2>1. b0 \in Seq(Nat) /\ Len(b0) = limbs * CryptBytes
    BY <1>3
  <2>2. r.ptr = p /\ r.heap = Held(f, p, b0)
    BY <1>7
  <2>3. p \in Nat \ {0} /\ (p = ptr \/ p \notin DOMAIN h \cup taken) /\ p \notin DOMAIN f
    BY <1>2, <1>4, <1>5
  <2>5. HeapOK(f)
    BY <1>5
  <2> HIDE DEF b0, f, fresh
  <2>4. /\ HeapOK(Held(f, p, b0)) /\ DOMAIN Held(f, p, b0) = DOMAIN f \cup {p}
        /\ Held(f, p, b0)[p] = b0 /\ \A q \in DOMAIN f \ {p} : Held(f, p, b0)[q] = f[q]
    <3> HIDE <1>1, <1>2, <1>3, <1>4, <1>5, <1>6, <1>7
    <3>1. p \in Nat \ {0}
      BY <2>3
    <3> QED  BY <2>1, <2>5, <3>1, HeldSound
  <2> QED  BY <1>5, <2>1, <2>2, <2>3, <2>4 DEF f, Moved
<1> HIDE DEF fresh, placed
<1> QED  BY <1>6, <1>7

-----------------------------------------------------------------------------
(* The limbs of a buffer. *)

LEMMA ZerosSound ==
  ASSUME NEW count \in Nat
  PROVE  /\ Zeros(count) \in Seq(Nat) /\ Len(Zeros(count)) = count
         /\ \A i \in 1 .. count : Zeros(count)[i] = 0
<1>1. Zeros(count) \in [1 .. count -> Nat]
  BY DEF Zeros
<1> QED  BY <1>1 DEF Zeros

LEMMA WordSound ==
  ASSUME NEW v \in CryptWords
  PROVE  /\ v.limb \in Seq(Nat) /\ Len(v.limb) = CryptBytes /\ v.sign \in {1, -1}
         /\ Length(v) = 0 => v.limb = Zeros(CryptBytes) /\ v.sign = 1
         /\ Length(v) = 1 => v.limb # Zeros(CryptBytes)
         /\ Length(v) \in {0, 1}
<1>1. v.limb \in [1 .. CryptBytes -> 0 .. 255] /\ v.sign \in {1, -1}
  BY CryptIntAssumption
<1>2. v.limb \in [1 .. CryptBytes -> Nat] /\ CryptBytes \in Nat
  <2> DEFINE f == v.limb
             S == 1 .. CryptBytes
  <2>1. f \in [S -> 0 .. 255] /\ 0 .. 255 \subseteq Nat
    BY <1>1
  <2> HIDE DEF f, S
  <2>2. f \in [S -> Nat]
    BY <2>1
  <2> QED  BY <2>2, CryptUtilAssumption DEF f, S
<1>3. v.limb \in Seq(Nat) /\ Len(v.limb) = CryptBytes
  BY <1>2
<1> QED  BY <1>1, <1>3, CryptIntAssumption DEF Length

LEMMA StoresSound ==
  ASSUME NEW bytes \in Seq(Nat), NEW limb \in Seq(Nat), Len(limb) = CryptBytes
  PROVE  LET new == Stores(bytes, limb)
         IN  /\ new \in Seq(Nat)
             /\ CryptBytes <= Len(bytes) =>
                  /\ Len(new) = Len(bytes)
                  /\ \A i \in 1 .. Len(bytes) : new[i] = IF i <= CryptBytes THEN limb[i] ELSE bytes[i]
<1> DEFINE c    == CryptBytes
           n    == Len(bytes)
           tail == SubSeq(bytes, c + 1, n)
<1>1. c \in Nat /\ n \in Nat /\ \A i \in 1 .. n : bytes[i] \in Nat
  BY CryptUtilAssumption
<1>2. /\ tail \in Seq(Nat) /\ Len(tail) = IF c + 1 <= n THEN n - (c + 1) + 1 ELSE 0
      /\ \A i \in 1 .. n - (c + 1) + 1 : tail[i] = bytes[c + 1 + i - 1]
  <2>1. \A i \in c + 1 .. n : bytes[i] \in Nat
    BY <1>1
  <2>2. c + 1 \in Int /\ n \in Int
    BY <1>1
  <2> HIDE DEF c, n
  <2> QED  BY <2>1, <2>2, SubSeqProperties
<1>3. /\ limb \o tail \in Seq(Nat) /\ Len(limb \o tail) = Len(limb) + Len(tail)
      /\ \A i \in 1 .. Len(limb) + Len(tail) :
           (limb \o tail)[i] = IF i <= Len(limb) THEN limb[i] ELSE tail[i - Len(limb)]
  <2> HIDE DEF tail
  <2> QED  BY <1>2, ConcatProperties
<1>4. Stores(bytes, limb) = limb \o tail /\ Len(limb) = c
  BY DEF Stores
<1> HIDE DEF c, n, tail
<1>5. ASSUME c <= n
      PROVE  /\ Len(limb \o tail) = n
             /\ \A i \in 1 .. n : (limb \o tail)[i] = IF i <= c THEN limb[i] ELSE bytes[i]
  <2>1. Len(tail) = n - c
    BY <1>1, <1>2, <1>5
  <2>2. ASSUME NEW i \in 1 .. n, c < i PROVE (limb \o tail)[i] = bytes[i]
    <3>1. (limb \o tail)[i] = tail[i - c]
      BY <1>1, <1>3, <1>4, <1>5, <2>1, <2>2
    <3>2. i - c \in 1 .. n - (c + 1) + 1 /\ c + 1 + (i - c) - 1 = i
      BY <1>1, <2>2
    <3> QED  BY <1>2, <3>1, <3>2
  <2>3. ASSUME NEW i \in 1 .. n, i <= c PROVE (limb \o tail)[i] = limb[i]
    BY <1>1, <1>3, <1>4, <1>5, <2>1, <2>3
  <2> QED  BY <1>1, <1>3, <1>4, <1>5, <2>1, <2>2, <2>3
<1> QED  BY <1>3, <1>4, <1>5 DEF c, n

\* A wipe changes bytes of the number's capacity alone, to zero.
LEMMA WipedSound ==
  ASSUME NEW x, Number(x), NEW bytes \in Seq(Nat), x.cap * CryptBytes <= Len(bytes),
         NEW start \in Int, NEW end \in Int
  PROVE  LET new == Wiped(x, bytes, start, end)
         IN  /\ new \in Seq(Nat) /\ Len(new) = Len(bytes)
             /\ \A i \in 1 .. x.cap * CryptBytes :
                  new[i] = IF i - 1 \in FirstByte(start) .. LastByte(end) THEN 0 ELSE bytes[i]
<1> DEFINE m    == x.cap * CryptBytes
           n    == Len(bytes)
           head == SubSeq(bytes, 1, m)
           tail == SubSeq(bytes, m + 1, n)
           wiped == CryptWipe(head, start, end)
<1>1. m \in Nat /\ n \in Nat /\ m <= n /\ \A i \in 1 .. n : bytes[i] \in Nat
  BY CryptUtilAssumption, CryptIntAssumption DEF Number
<1> HIDE DEF m, n
<1>2. /\ head \in Seq(Nat) /\ Len(head) = m
      /\ \A i \in 1 .. m : head[i] = bytes[i]
  <2>1. \A i \in 1 .. m : bytes[i] \in Nat
    BY <1>1
  <2>2. /\ head \in Seq(Nat) /\ Len(head) = (IF 1 <= m THEN m - 1 + 1 ELSE 0)
        /\ \A i \in 1 .. m - 1 + 1 : head[i] = bytes[1 + i - 1]
    BY <1>1, <2>1, SubSeqProperties
  <2> HIDE DEF head
  <2> QED  BY <1>1, <2>2
<1>3. /\ tail \in Seq(Nat) /\ Len(tail) = n - m
  <2>1. \A i \in m + 1 .. n : bytes[i] \in Nat
    BY <1>1
  <2>2. m + 1 \in Int /\ n \in Int
    BY <1>1
  <2>3. /\ tail \in Seq(Nat) /\ Len(tail) = (IF m + 1 <= n THEN n - (m + 1) + 1 ELSE 0)
    BY <2>1, <2>2, SubSeqProperties
  <2> HIDE DEF tail
  <2> QED  BY <1>1, <2>3
<1> HIDE DEF head, tail
<1>4. /\ wiped \in Seq(Nat) /\ Len(wiped) = m
      /\ \A i \in 1 .. m : wiped[i] = IF i - 1 \in FirstByte(start) .. LastByte(end) THEN 0 ELSE bytes[i]
  <2>1. DOMAIN head = 1 .. m /\ \A i \in 1 .. m : head[i] \in Nat
    BY <1>1, <1>2
  <2>2. wiped = [i \in 1 .. m |-> IF i - 1 \in FirstByte(start) .. LastByte(end) THEN 0 ELSE head[i]]
    BY <2>1 DEF CryptWipe, CryptSet
  <2>3. wiped \in [1 .. m -> Nat]
    BY <2>1, <2>2
  <2> HIDE DEF wiped
  <2>4. wiped \in Seq(Nat) /\ Len(wiped) = m
    BY <1>1, <2>3
  <2>5. \A i \in 1 .. m : wiped[i] = IF i - 1 \in FirstByte(start) .. LastByte(end) THEN 0 ELSE head[i]
    BY <2>2
  <2> QED  BY <1>2, <2>4, <2>5
<1> HIDE DEF wiped
<1>5. /\ wiped \o tail \in Seq(Nat) /\ Len(wiped \o tail) = Len(wiped) + Len(tail)
      /\ \A i \in 1 .. Len(wiped) + Len(tail) :
           (wiped \o tail)[i] = IF i <= Len(wiped) THEN wiped[i] ELSE tail[i - Len(wiped)]
  BY <1>3, <1>4, ConcatProperties
<1>6. Wiped(x, bytes, start, end) = wiped \o tail
  BY DEF Wiped, wiped, head, tail, m, n
<1> QED  BY <1>1, <1>3, <1>4, <1>5, <1>6 DEF m, n

\* The word v in the lowest of x.cap limbs, zeros above: the number is clean.
LEMMA WordIsClean ==
  ASSUME NEW v \in CryptWords, NEW x, Number(x), x.cap >= 1, x.n = Length(v), x.sign = v.sign,
         NEW h, HeapOK(h), x.buf \in DOMAIN h, x.cap * CryptBytes <= Len(h[x.buf]),
         \A i \in 1 .. x.cap * CryptBytes :
           h[x.buf][i] = IF i <= CryptBytes THEN v.limb[i] ELSE 0
  PROVE  Clean(x, h)
<1> DEFINE c     == CryptBytes
           m     == x.cap * c
           bytes == h[x.buf]
<1>1. c \in Nat \ {0} /\ x.cap \in Nat
  BY CryptUtilAssumption, CryptIntAssumption DEF Number
<1>2. c <= m /\ m \in Nat
  <2> DEFINE k == x.cap
  <2>1. k \in Nat /\ k >= 1
    BY <1>1
  <2> HIDE DEF c, k
  <2>2. PICK j \in Nat : k = j + 1
    <3>1. k - 1 \in Nat /\ k = (k - 1) + 1
      BY <2>1
    <3> QED  BY <3>1
  <2>3. k * c = j * c + c /\ j * c \in Nat
    BY <1>1, <2>2
  <2> QED  BY <1>1, <2>3 DEF k
<1>3. bytes \in Seq(Nat) /\ m <= Len(bytes)
  BY DEF HeapOK
<1>4. /\ v.limb \in Seq(Nat) /\ Len(v.limb) = c /\ v.sign \in {1, -1} /\ Length(v) \in {0, 1}
      /\ Length(v) = 0 => v.limb = Zeros(c) /\ v.sign = 1
      /\ Length(v) = 1 => v.limb # Zeros(c)
  BY WordSound
<1>5. \A i \in 1 .. m : bytes[i] = IF i <= c THEN v.limb[i] ELSE 0
  OBVIOUS
<1>6. Usable(x, h)
  BY DEF Usable
<1> HIDE DEF c, bytes, m
<1>7. Length(v) = 1 => LimbAt(bytes, 1) # Zeros(c)
  <2>1. LimbAt(bytes, 1) = SubSeq(bytes, 1, c)
    BY <1>1 DEF LimbAt, c
  <2>2. /\ SubSeq(bytes, 1, c) \in Seq(Nat) /\ Len(SubSeq(bytes, 1, c)) = c
        /\ \A i \in 1 .. c : SubSeq(bytes, 1, c)[i] = v.limb[i]
    <3>1. \A i \in 1 .. c : bytes[i] \in Nat
      BY <1>1, <1>2, <1>3
    <3>2. /\ SubSeq(bytes, 1, c) \in Seq(Nat) /\ Len(SubSeq(bytes, 1, c)) = (IF 1 <= c THEN c - 1 + 1 ELSE 0)
          /\ \A i \in 1 .. c - 1 + 1 : SubSeq(bytes, 1, c)[i] = bytes[1 + i - 1]
      BY <1>1, <3>1, SubSeqProperties
    <3> DEFINE low == SubSeq(bytes, 1, c)
    <3> HIDE DEF low
    <3> QED  BY <1>1, <1>2, <1>5, <3>2 DEF low
  <2>3. SubSeq(bytes, 1, c) = v.limb
    BY <1>4, <2>2, SeqEqual
  <2> QED  BY <1>4, <2>1, <2>3
<1>8. Contract(x, h)
  <2>1. x.n \in {0, 1} /\ x.sign \in {1, -1} /\ (x.n = 0 => x.sign = 1) /\ x.n <= x.cap
    BY <1>1, <1>4
  <2>2. x.n > 0 => LimbAt(h[x.buf], x.n) # Zeros(CryptBytes)
    BY <1>7, <2>1 DEF bytes, c
  <2> QED  BY <1>6, <2>1, <2>2 DEF Contract
<1>9. ASSUME NEW i \in x.n * CryptBytes + 1 .. x.cap * CryptBytes
      PROVE  h[x.buf][i] = 0
  <2>1. i \in x.n * c + 1 .. m
    BY <1>9 DEF c, m
  <2>2. CASE Length(v) = 0
    <3>1. i \in 1 .. m
      BY <1>1, <1>2, <2>1, <2>2
    <3>2. \A j \in 1 .. c : Zeros(c)[j] = 0
      BY <1>1, ZerosSound
    <3>3. i <= c => v.limb[i] = 0
      BY <1>1, <1>2, <1>4, <2>2, <3>1, <3>2
    <3> QED  BY <1>5, <3>1, <3>3 DEF bytes
  <2>3. CASE Length(v) = 1
    <3>1. i \in 1 .. m /\ ~(i <= c)
      BY <1>1, <1>2, <2>1, <2>3
    <3> QED  BY <1>5, <3>1 DEF bytes
  <2> QED  BY <1>4, <2>2, <2>3
<1> QED  BY <1>8, <1>9 DEF Clean

-----------------------------------------------------------------------------
(* The ways a call ends. *)

\* What a call has to keep when it returns.
LEMMA ReturnKeeps ==
  ASSUME CryptInv(task), Crypt, NEW w \in Either, NEW fn, NEW code, NEW number, NEW heap,
         NEW spoils \in BOOLEAN, Returns(fn, w, code, number, heap, spoils),
         Number(number), HeapOK(heap),
         task.spoiled \/ spoils \/ Owned(number, task[Other(w)], heap),
         fn \in {"new", "get"} /\ code = "SUCCESS" => Clean(number, heap)
  PROVE  CryptInv(task')
<1>1. /\ {"op", "status", "left", "x", "y", "heap", "spoiled", "last"} \subseteq DOMAIN task
      /\ Number(task.x) /\ Number(task.y) /\ HeapOK(task.heap) /\ task.spoiled \in BOOLEAN
      /\ task.status = "running" /\ task.op = "crypt"
  BY DEF CryptInv, Crypt, During, Running
<1>2. /\ DOMAIN task' = DOMAIN task /\ task'.op = "crypt" /\ task'.status = "running"
      /\ task'[w] = number /\ task'.heap = heap /\ task'.spoiled = (task.spoiled \/ spoils)
      /\ task'.last = [fn |-> fn, on |-> w, code |-> code]
      /\ task'[Other(w)] = task[Other(w)]
  BY <1>1 DEF Returns, Either, Other
<1>3. /\ w = "x" => task'.x = number /\ task'.y = task.y
      /\ w = "y" => task'.y = number /\ task'.x = task.x
  BY <1>2 DEF Other
<1>4. Number(task'.x) /\ Number(task'.y)
  BY <1>1, <1>3 DEF Either
<1>5. task'.spoiled \/ Owned(task'.x, task'.y, task'.heap)
  BY <1>2, <1>3 DEF Either, Other, Owned
<1>6. /\ task'.last.on \in Either /\ {"fn", "on", "code"} \subseteq DOMAIN task'.last
      /\ task'.last.fn = fn /\ task'.last.code = code /\ task'[task'.last.on] = number
  BY <1>2
<1> QED  BY <1>1, <1>2, <1>4, <1>5, <1>6 DEF CryptInv

\* A call breaks on a pointer that is gone only when something is spoiled.
LEMMA BreakKeeps ==
  ASSUME CryptInv(task), Crypt, NEW w \in Either, NEW fn, NEW how \in {"undefined", "crash"},
         Breaks(fn, w, how), how = "undefined" => task.spoiled
  PROVE  CryptInv(task')
<1>1. /\ {"op", "status", "left", "x", "y", "heap", "spoiled", "last"} \subseteq DOMAIN task
      /\ Number(task.x) /\ Number(task.y) /\ HeapOK(task.heap) /\ task.spoiled \in BOOLEAN
      /\ task.spoiled \/ Owned(task.x, task.y, task.heap)
  BY DEF CryptInv, Crypt, During
<1>2. /\ DOMAIN task' = DOMAIN task /\ task'.status = how /\ task'.x = task.x /\ task'.y = task.y
      /\ task'.heap = task.heap /\ task'.spoiled = task.spoiled
      /\ task'.last = [fn |-> fn, on |-> w, code |-> how]
  BY <1>1 DEF Breaks
<1> QED  BY <1>1, <1>2 DEF CryptInv

\* The two numbers and the heap before a call on w.
LEMMA BeforeCall ==
  ASSUME CryptInv(task), Crypt, NEW w \in Either
  PROVE  /\ Other(w) \in Either /\ Number(task[w]) /\ Number(task[Other(w)]) /\ HeapOK(task.heap)
         /\ task.spoiled \/ Owned(task[w], task[Other(w)], task.heap)
         /\ Pointers = {task[w].buf, task[Other(w)].buf} /\ task.spoiled \in BOOLEAN
<1>1. /\ Number(task.x) /\ Number(task.y) /\ HeapOK(task.heap) /\ task.spoiled \in BOOLEAN
      /\ task.spoiled \/ Owned(task.x, task.y, task.heap)
  BY DEF CryptInv, Crypt, During
<1>2. CASE w = "x"
  BY <1>1, <1>2 DEF Other, Either, Pointers
<1>3. CASE w = "y"
  BY <1>1, <1>3 DEF Other, Either, Pointers, Owned
<1> QED  BY <1>2, <1>3 DEF Either

\* A number without storage is refused and stays as it is.
LEMMA NoStorageStep ==
  ASSUME CryptInv(task), Crypt, NEW w \in Either, NEW fn, NoStorage(fn, w)
  PROVE  CryptInv(task')
<1>1. Returns(fn, w, "SINVAL", task[w], task.heap, FALSE)
  BY DEF NoStorage
<1> QED  BY <1>1, BeforeCall, ReturnKeeps

LEMMA LostStorageStep ==
  ASSUME CryptInv(task), Crypt, NEW w \in Either, NEW fn, LostStorage(fn, w)
  PROVE  CryptInv(task')
<1>1. Breaks(fn, w, "undefined") /\ ~ Usable(task[w], task.heap) /\ task[w].buf # 0
  BY DEF LostStorage, Stored
<1>2. task.spoiled
  BY <1>1, BeforeCall DEF Owned
<1> QED  BY <1>1, <1>2, BreakKeeps

-----------------------------------------------------------------------------
(* Constructors and destructor. *)

LEMMA ConstructStep ==
  ASSUME CryptInv(task), Crypt, NEW w \in Either, Construct(w)
  PROVE  CryptInv(task')
<1>1. PICK cap \in 1 .. CryptCap, v \in CryptWords :
        LET ptr == Fresh(task.heap, Pointers)
        IN  /\ task[w].buf = 0
            /\ \/ Returns("new", w, "SUCCESS", Constructed(ptr, cap, v),
                      Held(task.heap, ptr, Stores(Zeros(cap * CryptBytes), v.limb)), FALSE)
               \/ Returns("new", w, "OOM", NullNumber, task.heap, FALSE)
               \/ Returns("new", w, "OOM", [NullNumber EXCEPT !.buf = Stack], task.heap, TRUE)
  BY DEF Construct
<1> DEFINE h     == task.heap
           o     == task[Other(w)]
           ptr   == Fresh(h, Pointers)
           m     == cap * CryptBytes
           bytes == Stores(Zeros(m), v.limb)
           x     == Constructed(ptr, cap, v)
           g     == Held(h, ptr, bytes)
<1>2. /\ Number(o) /\ HeapOK(h) /\ task.spoiled \in BOOLEAN /\ task[w].buf = 0
      /\ Pointers = {task[w].buf, o.buf}
      /\ task.spoiled \/ Owned(task[w], o, h)
  BY <1>1, BeforeCall
<1>3. ptr \in Nat \ {0} /\ ptr \notin DOMAIN h \cup {task[w].buf, o.buf}
  BY <1>2, FreshIsNew
<1>4. m \in Nat /\ CryptBytes <= m /\ CryptBytes \in Nat
  <2> DEFINE c == CryptBytes
  <2>1. c \in Nat \ {0} /\ cap \in Nat /\ cap >= 1
    BY CryptUtilAssumption, CryptIntAssumption
  <2> HIDE DEF c
  <2>2. PICK j \in Nat : cap = j + 1
    <3>1. cap - 1 \in Nat /\ cap = (cap - 1) + 1
      BY <2>1
    <3> QED  BY <3>1
  <2>3. cap * c = j * c + c /\ j * c \in Nat
    BY <2>1, <2>2
  <2>4. cap * c \in Nat /\ c <= cap * c
    BY <2>1, <2>3
  <2> QED  BY <2>1, <2>4 DEF c
<1>5. /\ v.limb \in Seq(Nat) /\ Len(v.limb) = CryptBytes /\ Length(v) \in {0, 1} /\ v.sign \in {1, -1}
  BY WordSound
<1>6. Zeros(m) \in Seq(Nat) /\ Len(Zeros(m)) = m /\ \A i \in 1 .. m : Zeros(m)[i] = 0
  <2> HIDE DEF m
  <2> QED  BY <1>4, ZerosSound
<1>7. /\ bytes \in Seq(Nat) /\ Len(bytes) = m
      /\ \A i \in 1 .. m : bytes[i] = IF i <= CryptBytes THEN v.limb[i] ELSE 0
  <2> HIDE DEF m
  <2>1. LET new == Stores(Zeros(m), v.limb)
        IN  /\ new \in Seq(Nat)
            /\ CryptBytes <= Len(Zeros(m)) =>
                  /\ Len(new) = Len(Zeros(m))
                  /\ \A i \in 1 .. Len(Zeros(m)) : new[i] = IF i <= CryptBytes THEN v.limb[i] ELSE Zeros(m)[i]
    BY <1>5, <1>6, StoresSound
  <2> QED  BY <1>4, <1>6, <2>1
<1>8. Number(x) /\ x.buf = ptr /\ x.cap = cap /\ x.n = Length(v) /\ x.sign = v.sign
  BY <1>3, <1>5, CryptIntAssumption DEF Constructed, Number
<1> HIDE DEF bytes, x, ptr, h, o
<1>9. /\ HeapOK(g) /\ DOMAIN g = DOMAIN h \cup {ptr} /\ g[ptr] = bytes
      /\ \A q \in DOMAIN h \ {ptr} : g[q] = h[q]
  <2>1. HeapOK(h) /\ ptr \in Nat \ {0} /\ bytes \in Seq(Nat)
    BY <1>2, <1>3, <1>7
  <2>2. \A q \in Nat \ {0}, b \in Seq(Nat) :
          /\ HeapOK(Held(h, q, b)) /\ DOMAIN Held(h, q, b) = DOMAIN h \cup {q}
          /\ Held(h, q, b)[q] = b
          /\ \A z \in DOMAIN h \ {q} : Held(h, q, b)[z] = h[z]
    BY <2>1, HeldSound
  <2> QED  BY <2>1, <2>2
<1> HIDE DEF g
<1>10. CASE Returns("new", w, "SUCCESS", x, g, FALSE)
  <2>1. Clean(x, g)
    BY <1>7, <1>8, <1>9, WordIsClean
  <2>2. task.spoiled \/ Owned(x, o, g)
    <3>1. Usable(x, g)
      BY <1>4, <1>7, <1>8, <1>9 DEF Usable
    <3>2. o.buf = 0 \/ Usable(o, h) => o.buf = 0 \/ Usable(o, g)
      BY <1>3, <1>9 DEF Usable
    <3>3. 0 \notin DOMAIN h
      BY <1>2 DEF HeapOK
    <3>4. Owned(task[w], o, h) => DOMAIN g \subseteq {x.buf, o.buf}
      BY <1>2, <1>8, <1>9, <3>3 DEF Owned
    <3>5. x.buf # o.buf
      BY <1>3, <1>8
    <3> QED  BY <1>2, <3>1, <3>2, <3>4, <3>5 DEF Owned
  <2> QED  BY <1>8, <1>9, <1>10, <2>1, <2>2, ReturnKeeps DEF o
<1>11. CASE Returns("new", w, "OOM", NullNumber, h, FALSE)
  <2>1. Number(NullNumber) /\ NullNumber.buf = 0
    BY CryptIntAssumption DEF NullNumber, Number
  <2>2. task.spoiled \/ Owned(NullNumber, o, h)
    BY <1>2, <2>1 DEF Owned
  <2> QED  BY <1>2, <1>11, <2>1, <2>2, ReturnKeeps DEF o, h
<1>12. CASE Returns("new", w, "OOM", [NullNumber EXCEPT !.buf = Stack], h, TRUE)
  <2>1. Number([NullNumber EXCEPT !.buf = Stack])
    BY CryptIntAssumption DEF NullNumber, Number, Stack
  <2> QED  BY <1>2, <1>12, <2>1, ReturnKeeps DEF h
<1> QED  BY <1>1, <1>10, <1>11, <1>12 DEF h, ptr, x, g, bytes, m

LEMMA FreeStep ==
  ASSUME CryptInv(task), Crypt, NEW w \in Either, Free(w)
  PROVE  CryptInv(task')
<1> DEFINE h == task.heap
           x == task[w]
           o == task[Other(w)]
<1>1. /\ Number(x) /\ Number(o) /\ HeapOK(h) /\ task.spoiled \in BOOLEAN
      /\ task.spoiled \/ Owned(x, o, h)
  BY BeforeCall
<1>2. CASE FreeSound(h, x.buf)
  <2>1. Returns("free", w, "SUCCESS", NullNumber, Freed(h, x.buf), FALSE)
    BY <1>2 DEF Free
  <2>2. Number(NullNumber) /\ NullNumber.buf = 0
    BY CryptIntAssumption DEF NullNumber, Number
  <2>3. /\ HeapOK(Freed(h, x.buf)) /\ DOMAIN Freed(h, x.buf) = DOMAIN h \ {x.buf}
        /\ \A q \in DOMAIN h \ {x.buf} : Freed(h, x.buf)[q] = h[q]
    BY <1>1, FreedSound
  <2>4. Owned(x, o, h) => Owned(NullNumber, o, Freed(h, x.buf))
    BY <2>2, <2>3 DEF Owned, Usable
  <2> QED  BY <1>1, <2>1, <2>2, <2>3, <2>4, ReturnKeeps
<1>3. CASE ~ FreeSound(h, x.buf)
  <2>1. Breaks("free", w, "undefined")
    BY <1>3 DEF Free
  <2>2. task.spoiled
    BY <1>1, <1>3 DEF FreeSound, Owned, Usable
  <2> QED  BY <2>1, <2>2, BreakKeeps
<1> QED  BY <1>2, <1>3

-----------------------------------------------------------------------------
(* Words, and what becomes of a buffer that stays. *)

\* The owner's bytes may change, as long as the capacity fits.
LEMMA WrittenOwned ==
  ASSUME NEW h, HeapOK(h), NEW x, NEW y, NEW o, Owned(x, o, h), x.buf \in DOMAIN h,
         NEW bytes \in Seq(Nat), y.buf = x.buf, y.cap * CryptBytes <= Len(bytes)
  PROVE  Owned(y, o, [h EXCEPT ![x.buf] = bytes])
<1> DEFINE g == [h EXCEPT ![x.buf] = bytes]
<1>1. /\ DOMAIN g = DOMAIN h /\ g[x.buf] = bytes /\ x.buf # 0
      /\ \A q \in DOMAIN h \ {x.buf} : g[q] = h[q]
  BY DEF HeapOK
<1> HIDE DEF g
<1>2. Usable(y, g)
  BY <1>1 DEF Usable
<1>3. o.buf = 0 \/ Usable(o, g)
  BY <1>1 DEF Owned, Usable
<1>4. DOMAIN g \subseteq {y.buf, o.buf} /\ y.buf # o.buf
  BY <1>1 DEF Owned
<1>5. Owned(y, o, g)
  BY <1>2, <1>3, <1>4 DEF Owned
<1> QED  BY <1>5 DEF g

\* The numbers of bytes are numbers.
LEMMA CapacityBytes ==
  ASSUME NEW x, Number(x)
  PROVE  x.cap * CryptBytes \in Nat /\ x.cap \in Nat /\ (x.cap >= 1 => CryptBytes <= x.cap * CryptBytes)
<1> DEFINE c == CryptBytes
           k == x.cap
<1>1. c \in Nat \ {0} /\ k \in Nat
  BY CryptUtilAssumption, CryptIntAssumption DEF Number
<1> HIDE DEF c, k
<1>2. k * c \in Nat
  BY <1>1
<1>3. k >= 1 => c <= k * c
  <2> SUFFICES ASSUME k >= 1 PROVE c <= k * c
    OBVIOUS
  <2>1. PICK j \in Nat : k = j + 1
    <3>1. k - 1 \in Nat /\ k = (k - 1) + 1
      BY <1>1
    <3> QED  BY <3>1
  <2>2. k * c = j * c + c /\ j * c \in Nat
    BY <1>1, <2>1
  <2> QED  BY <1>1, <2>2
<1> QED  BY <1>1, <1>2, <1>3 DEF c, k

LEMMA GotBytesSound ==
  ASSUME NEW x, Number(x), x.cap >= 1, NEW old \in Seq(Nat), x.cap * CryptBytes <= Len(old),
         NEW v \in CryptWords
  PROVE  LET new == GotBytes(x, old, v)
         IN  /\ new \in Seq(Nat) /\ Len(new) = Len(old)
             /\ \A i \in 1 .. x.cap * CryptBytes : new[i] = IF i <= CryptBytes THEN v.limb[i] ELSE 0
<1> DEFINE c == CryptBytes
           k == x.cap
           m == k * c
           stored == Stores(old, v.limb)
           new == Wiped(x, stored, Length(v), k - 1)
<1>1. c \in Nat \ {0} /\ k \in Nat /\ k >= 1 /\ k <= CryptCap /\ CryptCap \in Nat
  BY CryptUtilAssumption, CryptIntAssumption DEF Number
<1>2. m \in Nat /\ c <= m /\ m <= Len(old) /\ Len(old) \in Nat
  BY <1>1, CapacityBytes
<1>3. /\ v.limb \in Seq(Nat) /\ Len(v.limb) = c /\ Length(v) \in {0, 1}
      /\ Length(v) = 0 => v.limb = Zeros(c)
  BY WordSound
<1>4. /\ stored \in Seq(Nat) /\ Len(stored) = Len(old)
      /\ \A i \in 1 .. Len(old) : stored[i] = IF i <= c THEN v.limb[i] ELSE old[i]
  <2>1. LET s == Stores(old, v.limb)
        IN  /\ s \in Seq(Nat)
            /\ CryptBytes <= Len(old) =>
                 /\ Len(s) = Len(old)
                 /\ \A i \in 1 .. Len(old) : s[i] = IF i <= CryptBytes THEN v.limb[i] ELSE old[i]
    BY <1>3, StoresSound
  <2>2. CryptBytes <= Len(old)
    BY <1>1, <1>2
  <2> QED  BY <2>1, <2>2
<1> HIDE DEF stored
<1>5. /\ new \in Seq(Nat) /\ Len(new) = Len(stored)
      /\ \A i \in 1 .. m :
           new[i] = IF i - 1 \in FirstByte(Length(v)) .. LastByte(k - 1) THEN 0 ELSE stored[i]
  <2>1. Length(v) \in Int /\ k - 1 \in Int /\ m <= Len(stored)
    BY <1>1, <1>2, <1>3, <1>4
  <2> QED  BY <1>4, <2>1, WipedSound
<1>6. FirstByte(0) = 0 /\ FirstByte(1) = c
  <2>1. CryptSizes \in Nat /\ CryptSizes > c
    <3> DEFINE l == CryptLimbs + 2
    <3>1. l \in Nat /\ l >= 1 /\ CryptSizes \in Nat /\ CryptSizes > c * l
      BY CryptUtilAssumption
    <3> HIDE DEF c, l
    <3>2. PICK j \in Nat : l = j + 1
      <4>1. l - 1 \in Nat /\ l = (l - 1) + 1
        BY <3>1
      <4> QED  BY <4>1
    <3>3. c * l = c * j + c /\ c * j \in Nat
      BY <1>1, <3>2
    <3> QED  BY <1>1, <3>1, <3>3
  <2> DEFINE z == CryptSizes
  <2> HIDE DEF c, z
  <2>2. 0 % z = 0 /\ c % z = c
    <3>1. z \in Nat /\ z > c
      BY <2>1 DEF z
    <3> QED  BY <1>1, <3>1
  <2>3. 0 * c = 0 /\ 1 * c = c
    BY <1>1
  <2> QED  BY <2>2, <2>3 DEF FirstByte, c, z
<1>7. IF k = 1 THEN LastByte(k - 1) = c ELSE LastByte(k - 1) = m - 1
  <2>1. CASE k = 1
    BY <2>1 DEF LastByte
  <2>2. CASE k # 1
    <3> DEFINE z == CryptSizes
    <3>1. z \in Nat /\ CryptSizes > c * (CryptCap + 1)
      BY CryptUtilAssumption, CryptIntAssumption
    <3>2. m < z
      <4> DEFINE l == CryptCap
      <4>1. PICK j \in Nat : l = k + j
        <5>1. l - k \in Nat /\ l = k + (l - k)
          BY <1>1
        <5> QED  BY <5>1
      <4>2. z > c * (l + 1)
        BY <3>1
      <4> HIDE DEF c, k, l, z
      <4> DEFINE d == c * j
                 e == c * (l + 1)
      <4>3. e = m + d + c /\ d \in Nat
        BY <1>1, <4>1
      <4>4. z > e /\ m \in Nat /\ z \in Nat
        BY <1>2, <3>1, <4>2
      <4> HIDE DEF d, e, m
      <4> QED  BY <1>1, <4>3, <4>4
    <3>3. (k - 1) * c + c - 1 = m - 1
      <4> HIDE DEF c, k
      <4>1. (k - 1) * c = k * c - c
        BY <1>1
      <4> QED  BY <1>1, <1>2, <4>1
    <3>4. LastByte(k - 1) = (m - 1) % z
      BY <1>1, <2>2, <3>3 DEF LastByte
    <3>5. (m - 1) % z = m - 1
      <4> HIDE DEF m, z, c
      <4>1. m - 1 \in Nat /\ m - 1 < z
        BY <1>1, <1>2, <3>1, <3>2
      <4> QED  BY <3>1, <4>1
    <3> QED  BY <2>2, <3>4, <3>5
  <2> QED  BY <2>1, <2>2
<1>8. k = 1 => m = c
  <2> HIDE DEF c, k
  <2> QED  BY <1>1
<1> HIDE DEF c, k, m, new
<1>9. ASSUME NEW i \in 1 .. m
      PROVE  new[i] = IF i <= c THEN v.limb[i] ELSE 0
  <2>1. i \in 1 .. Len(old)
    BY <1>1, <1>2
  <2>2. CASE Length(v) = 1
    <3>1. CASE i <= c
      <4>1. new[i] = stored[i]
        BY <1>1, <1>2, <1>5, <1>6, <2>2, <3>1
      <4> QED  BY <1>4, <2>1, <3>1, <4>1
    <3>2. CASE ~ (i <= c)
      <4>1. k # 1
        BY <1>1, <1>8, <3>2
      <4>2. i - 1 \in c .. m - 1
        BY <1>1, <1>2, <3>2
      <4> QED  BY <1>5, <1>6, <1>7, <2>2, <3>2, <4>1, <4>2
    <3> QED  BY <3>1, <3>2
  <2>3. CASE Length(v) = 0
    <3>1. i - 1 \in 0 .. LastByte(k - 1)
      BY <1>1, <1>2, <1>7, <1>8
    <3>2. new[i] = 0
      BY <1>5, <1>6, <2>3, <3>1
    <3>3. i <= c => v.limb[i] = 0
      <4>1. \A j \in 1 .. c : Zeros(c)[j] = 0
        BY <1>1, ZerosSound
      <4> QED  BY <1>1, <1>2, <1>3, <2>3, <4>1
    <3> QED  BY <3>2, <3>3
  <2> QED  BY <1>3, <2>2, <2>3
<1>10. GotBytes(x, old, v) = new
  BY DEF GotBytes, new, stored, k
<1> QED  BY <1>4, <1>5, <1>9, <1>10 DEF c, m, k

\* A smaller capacity fits as well.
LEMMA NarrowedOwned ==
  ASSUME NEW h, HeapOK(h), NEW x, Number(x), NEW y, Number(y), NEW o, Owned(x, o, h),
         y.buf = x.buf, y.cap <= x.cap
  PROVE  Owned(y, o, h)
<1> DEFINE k == x.cap
           j == y.cap
           c == CryptBytes
<1>1. k \in Nat /\ j \in Nat /\ c \in Nat /\ j <= k
  BY CryptUtilAssumption, CryptIntAssumption DEF Number
<1>2. j * c <= k * c /\ k * c \in Nat /\ j * c \in Nat
  <2> HIDE DEF k, j, c
  <2>1. PICK d \in Nat : k = j + d
    <3>1. k - j \in Nat /\ k = j + (k - j)
      BY <1>1
    <3> QED  BY <3>1
  <2>2. k * c = j * c + d * c /\ d * c \in Nat /\ j * c \in Nat
    BY <1>1, <2>1
  <2> QED  BY <2>2
<1>3. \A p \in DOMAIN h : Len(h[p]) \in Nat
  BY DEF HeapOK
<1>4. Usable(x, h) => Usable(y, h)
  BY <1>2, <1>3 DEF Usable
<1> QED  BY <1>4 DEF Owned

\* What follows from a call that rewrites the buffer, for the heap and its owners.
LEMMA RewrittenSound ==
  ASSUME NEW h, HeapOK(h), NEW x, NEW o, NEW spoiled, spoiled \/ Owned(x, o, h), Usable(x, h),
         NEW bytes \in Seq(Nat), Len(bytes) = Len(h[x.buf]), NEW y, y.buf = x.buf, y.cap = x.cap
  PROVE  /\ HeapOK([h EXCEPT ![x.buf] = bytes])
         /\ spoiled \/ Owned(y, o, [h EXCEPT ![x.buf] = bytes])
<1>1. x.buf \in DOMAIN h /\ x.cap * CryptBytes <= Len(h[x.buf])
  BY DEF Usable
<1>2. HeapOK([h EXCEPT ![x.buf] = bytes])
  BY <1>1, WrittenSound
<1>3. y.cap * CryptBytes <= Len(bytes)
  BY <1>1
<1>4. Owned(x, o, h) => Owned(y, o, [h EXCEPT ![x.buf] = bytes])
  BY <1>1, <1>3, WrittenOwned
<1> QED  BY <1>2, <1>4

\* A call on a number with storage rewrites the buffer and keeps the capacity.
LEMMA RewriteStep ==
  ASSUME CryptInv(task), Crypt, NEW w \in Either, WithStorage(w), NEW fn, NEW code, NEW number,
         NEW bytes \in Seq(Nat), Len(bytes) = Len(task.heap[task[w].buf]),
         Number(number), number.buf = task[w].buf, number.cap = task[w].cap,
         Returns(fn, w, code, number, [task.heap EXCEPT ![task[w].buf] = bytes], FALSE),
         fn \in {"new", "get"} /\ code = "SUCCESS" =>
           Clean(number, [task.heap EXCEPT ![task[w].buf] = bytes])
  PROVE  CryptInv(task')
<1>1. /\ HeapOK(task.heap) /\ Usable(task[w], task.heap)
      /\ task.spoiled \/ Owned(task[w], task[Other(w)], task.heap)
  BY BeforeCall DEF WithStorage
<1>2. /\ HeapOK([task.heap EXCEPT ![task[w].buf] = bytes])
      /\ task.spoiled \/ Owned(number, task[Other(w)], [task.heap EXCEPT ![task[w].buf] = bytes])
  BY <1>1, RewrittenSound, Zenon
<1> QED  BY <1>2, ReturnKeeps, Zenon

LEMMA GetStep ==
  ASSUME CryptInv(task), Crypt, NEW w \in Either, Get(w)
  PROVE  CryptInv(task')
<1> DEFINE h == task.heap
           x == task[w]
<1>1. CASE NoStorage("get", w)
  BY <1>1, NoStorageStep
<1>2. CASE LostStorage("get", w)
  BY <1>2, LostStorageStep
<1>3. ASSUME WithStorage(w), NEW v \in CryptWords,
             Returns("get", w, "SUCCESS", [x EXCEPT !.n = Length(v), !.sign = v.sign],
                     [h EXCEPT ![x.buf] = GotBytes(x, @, v)], FALSE)
      PROVE  CryptInv(task')
  <2> DEFINE y     == [x EXCEPT !.n = Length(v), !.sign = v.sign]
             bytes == GotBytes(x, h[x.buf], v)
             g     == [h EXCEPT ![x.buf] = bytes]
  <2>1. /\ Number(x) /\ HeapOK(h) /\ x.buf \in DOMAIN h /\ x.cap * CryptBytes <= Len(h[x.buf])
        /\ x.cap >= 1 /\ h[x.buf] \in Seq(Nat)
    BY <1>3, BeforeCall DEF WithStorage, Usable, Stored, HeapOK
  <2>2. /\ bytes \in Seq(Nat) /\ Len(bytes) = Len(h[x.buf])
        /\ \A i \in 1 .. x.cap * CryptBytes : bytes[i] = IF i <= CryptBytes THEN v.limb[i] ELSE 0
    BY <2>1, GotBytesSound
  <2>3. Number(y) /\ y.buf = x.buf /\ y.cap = x.cap /\ y.n = Length(v) /\ y.sign = v.sign
    BY <2>1 DEF Number
  <2> HIDE DEF bytes, y
  <2>4. HeapOK(g) /\ DOMAIN g = DOMAIN h /\ g[x.buf] = bytes
    BY <2>1, <2>2 DEF HeapOK
  <2>5. Returns("get", w, "SUCCESS", y, g, FALSE)
    BY <1>3 DEF y, bytes
  <2> HIDE DEF g
  <2>6. Clean(y, g)
    BY <2>1, <2>2, <2>3, <2>4, WordIsClean
  <2> QED  BY <1>3, <2>2, <2>3, <2>5, <2>6, RewriteStep DEF g
<1> QED  BY <1>1, <1>2, <1>3 DEF Get

LEMMA CanonicalSound ==
  ASSUME NEW x, Number(x)
  PROVE  /\ Number(Canonical(x)) /\ Canonical(x).buf = x.buf /\ Canonical(x).cap <= x.cap
         /\ x.cap >= 1 => Canonical(x).cap = 1
<1> DEFINE y == Canonical(x)
<1>1. {"buf", "cap", "n", "sign"} \subseteq DOMAIN x /\ x.buf \in Int /\ x.cap \in 0 .. CryptCap
      /\ CryptCap \in Nat
  BY CryptIntAssumption DEF Number
<1>2. CASE y = x /\ ~ (x.cap >= 1)
  BY <1>1, <1>2 DEF Number
<1>3. CASE y = [x EXCEPT !.cap = Smaller(@, 1), !.n = 0, !.sign = 1]
  <2>1. DOMAIN y = DOMAIN x /\ y.buf = x.buf /\ y.cap = Smaller(x.cap, 1)
    BY <1>1, <1>3
  <2> HIDE DEF y
  <2>2. y.cap \in 0 .. CryptCap /\ y.cap <= x.cap /\ (x.cap >= 1 => y.cap = 1)
    BY <1>1, <2>1 DEF Smaller
  <2>3. Number(y) /\ y.buf = x.buf /\ y.cap <= x.cap /\ (x.cap >= 1 => y.cap = 1)
    BY <1>1, <2>1, <2>2 DEF Number
  <2> QED  BY <2>3 DEF y
<1> QED  BY <1>1, <1>2, <1>3 DEF Canonical

LEMMA CanonicalizeStep ==
  ASSUME CryptInv(task), Crypt, NEW w \in Either, Canonicalize(w)
  PROVE  CryptInv(task')
<1>1. /\ Number(task[w]) /\ HeapOK(task.heap) /\ task.spoiled \in BOOLEAN
      /\ task.spoiled \/ Owned(task[w], task[Other(w)], task.heap)
  BY BeforeCall
<1>2. /\ Number(Canonical(task[w])) /\ Canonical(task[w]).buf = task[w].buf
      /\ Canonical(task[w]).cap <= task[w].cap
  BY <1>1, CanonicalSound
<1>3. task.spoiled \/ Owned(Canonical(task[w]), task[Other(w)], task.heap)
  BY <1>1, <1>2, NarrowedOwned, Zenon
<1>4. Returns("canonicalize", w, "SUCCESS", Canonical(task[w]), task.heap, FALSE)
  BY DEF Canonicalize
<1> QED  BY <1>1, <1>2, <1>3, <1>4, ReturnKeeps, Zenon

\* The buffer of a number whose storage counts is there, unless something is spoiled.
LEMMA StoredIsThere ==
  ASSUME CryptInv(task), Crypt, NEW w \in Either, Stored(task[w]), task[w].buf \notin DOMAIN task.heap
  PROVE  task.spoiled
BY BeforeCall DEF Stored, Owned, Usable

\* Where the buffer of a number is afterwards, its old place or a new one, it is owned
\* when it has room for the capacity.
LEMMA RelocatedOwned ==
  ASSUME NEW h, HeapOK(h), NEW x, NEW o, Owned(x, o, h), x.buf \in DOMAIN h,
         NEW y, y.buf \in Nat \ {0}, y.buf = x.buf \/ y.buf \notin DOMAIN h \cup {x.buf, o.buf},
         NEW g, DOMAIN g = (DOMAIN h \ {x.buf}) \cup {y.buf}, y.cap * CryptBytes <= Len(g[y.buf]),
         \A q \in DOMAIN h \ {x.buf} : g[q] = h[q]
  PROVE  Owned(y, o, g)
<1>1. x.buf # 0 /\ x.buf # o.buf
  BY DEF HeapOK, Owned
<1>2. Usable(y, g)
  BY DEF Usable
<1>3. o.buf = 0 \/ Usable(o, g)
  BY <1>1 DEF Owned, Usable
<1>4. DOMAIN g \subseteq {y.buf, o.buf} /\ y.buf # o.buf
  BY <1>1 DEF Owned
<1> QED  BY <1>2, <1>3, <1>4 DEF Owned

\* What the assignment of a word leaves of a number with storage.
LEMMA WordCopied ==
  ASSUME NEW x, Number(x), Stored(x), NEW o, NEW h, HeapOK(h), x.buf \in DOMAIN h,
         NEW spoiled, spoiled \/ Owned(x, o, h), NEW y, Number(y), y.buf = x.buf, y.cap = 1,
         NEW g, DOMAIN g = DOMAIN h, g[x.buf] = Stores(h[x.buf], Zeros(CryptBytes)),
         \A q \in DOMAIN h \ {x.buf} : g[q] = h[q]
  PROVE  HeapOK(g) /\ (spoiled \/ Owned(y, o, g))
<1> DEFINE old == h[x.buf]
           z   == Zeros(CryptBytes)
           m   == x.cap * CryptBytes
<1>1. x.cap >= 1 /\ old \in Seq(Nat) /\ Len(old) \in Nat
  BY DEF Stored, HeapOK
<1>2. m \in Nat /\ CryptBytes <= m /\ CryptBytes \in Nat
  BY <1>1, CapacityBytes, CryptUtilAssumption
<1>3. z \in Seq(Nat) /\ Len(z) = CryptBytes
  BY <1>2, ZerosSound
<1>4. g[x.buf] = Stores(old, z)
  OBVIOUS
<1> HIDE DEF z, old, m
<1>5. g[x.buf] \in Seq(Nat) /\ (CryptBytes <= Len(old) => Len(g[x.buf]) = Len(old))
  BY <1>1, <1>3, <1>4, StoresSound
<1>6. HeapOK(g)
  BY <1>5 DEF HeapOK
<1>7. ASSUME Owned(x, o, h) PROVE Owned(y, o, g)
  <2>1. x.buf \in Nat \ {0}
    BY DEF HeapOK
  <2>2. m <= Len(old)
    BY <1>7, <2>1 DEF Owned, Usable, m, old
  <2>3. y.cap * CryptBytes <= Len(g[y.buf])
    BY <1>1, <1>2, <1>5, <2>2
  <2>4. DOMAIN g = (DOMAIN h \ {x.buf}) \cup {y.buf}
    OBVIOUS
  <2>5. y.buf \in Nat \ {0} /\ y.buf = x.buf
    BY <2>1
  <2> QED  BY <1>7, <2>3, <2>4, <2>5, RelocatedOwned
<1> QED  BY <1>6, <1>7

LEMMA CopyWordStep ==
  ASSUME CryptInv(task), Crypt, NEW w \in Either, CopyWord(w)
  PROVE  CryptInv(task')
<1>1. CASE NoStorage("copy", w)
  BY <1>1, NoStorageStep
<1>2. CASE Stored(task[w]) /\ task[w].buf \notin DOMAIN task.heap /\ Breaks("copy", w, "undefined")
  BY <1>2, StoredIsThere, BreakKeeps
<1>3. ASSUME Stored(task[w]), task[w].buf \in DOMAIN task.heap, NEW v \in CryptWords,
             Returns("copy", w, "SUCCESS", [Canonical(task[w]) EXCEPT !.n = Length(v), !.sign = v.sign],
                     [task.heap EXCEPT ![task[w].buf] = Stores(@, Zeros(CryptBytes))], FALSE)
      PROVE  CryptInv(task')
  <2> DEFINE x == task[w]
             o == task[Other(w)]
             h == task.heap
             y == [Canonical(x) EXCEPT !.n = Length(v), !.sign = v.sign]
             g == [h EXCEPT ![x.buf] = Stores(h[x.buf], Zeros(CryptBytes))]
  <2>1. /\ Number(x) /\ Stored(x) /\ HeapOK(h) /\ x.buf \in DOMAIN h
        /\ task.spoiled \/ Owned(x, o, h)
    BY <1>3, BeforeCall
  <2>2. Returns("copy", w, "SUCCESS", y, g, FALSE)
    BY <1>3
  <2>3. Number(y) /\ y.buf = x.buf /\ y.cap = 1
    <3> DEFINE c == Canonical(x)
               n == Length(v)
               s == v.sign
    <3>1. Number(c) /\ c.buf = x.buf /\ c.cap = 1
      BY <2>1, CanonicalSound DEF Stored
    <3>2. y = [c EXCEPT !.n = n, !.sign = s]
      OBVIOUS
    <3> HIDE DEF c, y, n, s, x
    <3> QED  BY <3>1, <3>2 DEF Number
  <2>4. /\ DOMAIN g = DOMAIN h /\ g[x.buf] = Stores(h[x.buf], Zeros(CryptBytes))
        /\ \A q \in DOMAIN h \ {x.buf} : g[q] = h[q]
    <3> HIDE DEF x, h
    <3> QED  BY <2>1
  <2> HIDE DEF x, o, h, y, g
  <2>5. HeapOK(g) /\ (task.spoiled \/ Owned(y, o, g))
    BY <2>1, <2>3, <2>4, WordCopied
  <2>6. task.spoiled \/ Owned(y, task[Other(w)], g)
    BY <2>5 DEF o
  <2> QED  BY <2>2, <2>3, <2>5, <2>6, ReturnKeeps
<1> QED  BY <1>1, <1>2, <1>3 DEF CopyWord

LEMMA ResetStep ==
  ASSUME CryptInv(task), Crypt, NEW w \in Either, Reset(w)
  PROVE  CryptInv(task')
<1> DEFINE h == task.heap
           x == task[w]
           y == [x EXCEPT !.n = 0, !.sign = 1]
           bytes == Wiped(x, h[x.buf], 0, x.cap - 1)
<1>1. CASE NoStorage("reset", w)
  BY <1>1, NoStorageStep
<1>2. CASE LostStorage("reset", w)
  BY <1>2, LostStorageStep
<1>3. CASE WithStorage(w) /\ Returns("reset", w, "SUCCESS", y, [h EXCEPT ![x.buf] = bytes], FALSE)
  <2>1. /\ Number(x) /\ x.buf \in DOMAIN h /\ x.cap * CryptBytes <= Len(h[x.buf])
        /\ h[x.buf] \in Seq(Nat) /\ x.cap - 1 \in Int
    <3>1. Number(x) /\ HeapOK(h)
      BY BeforeCall
    <3>2. x.buf \in DOMAIN h /\ x.cap * CryptBytes <= Len(h[x.buf])
      BY <1>3 DEF WithStorage, Usable
    <3> HIDE DEF x, h
    <3>3. x.cap - 1 \in Int
      BY <3>1, CryptIntAssumption DEF Number
    <3> QED  BY <3>1, <3>2, <3>3 DEF HeapOK
  <2>2. bytes \in Seq(Nat) /\ Len(bytes) = Len(h[x.buf])
    <3> DEFINE old  == h[x.buf]
               last == x.cap - 1
    <3>1. old \in Seq(Nat) /\ x.cap * CryptBytes <= Len(old) /\ last \in Int /\ 0 \in Int
      BY <2>1
    <3> HIDE DEF old, last, x
    <3>2. Wiped(x, old, 0, last) \in Seq(Nat) /\ Len(Wiped(x, old, 0, last)) = Len(old)
      BY <2>1, <3>1, WipedSound
    <3> QED  BY <3>2 DEF old, last
  <2>3. Number(y) /\ y.buf = x.buf /\ y.cap = x.cap
    BY <2>1 DEF Number
  <2> HIDE DEF y, bytes
  <2> QED  BY <1>3, <2>2, <2>3, RewriteStep
<1> QED  BY <1>1, <1>2, <1>3 DEF Reset

-----------------------------------------------------------------------------
(* Calls that change the size of a buffer. *)

\* A call may leave anything behind once it says that it spoiled something.
LEMMA SpoilReturns ==
  ASSUME CryptInv(task), Crypt, NEW w \in Either, NEW fn, fn \notin {"new", "get"}, NEW code,
         NEW y, Number(y), NEW heap, HeapOK(heap), Returns(fn, w, code, y, heap, TRUE)
  PROVE  CryptInv(task')
<1>1. TRUE \in BOOLEAN
  OBVIOUS
<1> QED  BY <1>1, ReturnKeeps

\* The heap of a reallocation, and its owner when there is room.
LEMMA MovedSound ==
  ASSUME NEW h, HeapOK(h), NEW x, NEW o, x.buf \in DOMAIN h, NEW limbs \in Nat,
         NEW r \in Reallocated(h, x.buf, limbs, {x.buf, o.buf})
  PROVE  /\ HeapOK(r.heap) /\ r.ptr \in Nat
         /\ \A y : /\ Owned(x, o, h) /\ r.ptr # 0 /\ y.buf = r.ptr
                   /\ y.cap * CryptBytes <= limbs * CryptBytes
                   => Owned(y, o, r.heap)
<1>1. CASE r.ptr = 0 /\ r.heap = h
  BY <1>1
<1>2. CASE Moved(r, h, x.buf, limbs, {x.buf, o.buf})
  <2> DEFINE g == r.heap
             p == r.ptr
  <2>1. HeapOK(g) /\ p \in Nat
    BY <1>2 DEF Moved
  <2>2. ASSUME Owned(x, o, h), NEW y, y.buf = p, y.cap * CryptBytes <= limbs * CryptBytes
        PROVE  Owned(y, o, g)
    <3>1. /\ DOMAIN g = (DOMAIN h \ {x.buf}) \cup {y.buf}
          /\ y.cap * CryptBytes <= Len(g[y.buf])
          /\ \A q \in DOMAIN h \ {x.buf} : g[q] = h[q]
      BY <1>2, <2>2 DEF Moved
    <3>2. y.buf \in Nat \ {0} /\ (y.buf = x.buf \/ y.buf \notin DOMAIN h \cup {x.buf, o.buf})
      BY <1>2, <2>2 DEF Moved
    <3> HIDE DEF g, p
    <3> QED  BY <2>2, <3>1, <3>2, RelocatedOwned
  <2> QED  BY <2>1, <2>2
<1>3. (r.ptr = 0 /\ r.heap = h) \/ Moved(r, h, x.buf, limbs, {x.buf, o.buf})
  <2> DEFINE p == x.buf
             b == o.buf
             taken == {p, b}
  <2>1. HeapOK(h) /\ p \in DOMAIN h /\ r \in Reallocated(h, p, limbs, taken) /\ taken = {p, b}
    OBVIOUS
  <2> HIDE DEF p, b, taken
  <2>2. (r.ptr = 0 /\ r.heap = h) \/ Moved(r, h, p, limbs, taken)
    BY <2>1, ReallocatedSound
  <2> QED  BY <2>2 DEF p, b, taken
<1> QED  BY <1>1, <1>2, <1>3

\* A reallocation that found room returns, and its number has that room.
LEMMA MoveReturns ==
  ASSUME CryptInv(task), Crypt, NEW w \in Either, NEW fn, fn \notin {"new", "get"}, NEW code,
         NEW h, HeapOK(h), task.spoiled \/ Owned(task[w], task[Other(w)], h), task[w].buf \in DOMAIN h,
         NEW limbs \in Nat, NEW r \in Reallocated(h, task[w].buf, limbs, Pointers), r.ptr # 0,
         NEW y, Number(y), NEW spoils \in BOOLEAN, spoils \/ (y.buf = r.ptr /\ y.cap <= limbs),
         Returns(fn, w, code, y, r.heap, spoils)
  PROVE  CryptInv(task')
<1> DEFINE x == task[w]
           o == task[Other(w)]
           g == r.heap
<1>1. Pointers = {x.buf, o.buf}
  BY BeforeCall
<1>2. HeapOK(h) /\ x.buf \in DOMAIN h /\ r \in Reallocated(h, x.buf, limbs, {x.buf, o.buf})
  BY <1>1
<1>3. y.cap \in Nat /\ CryptBytes \in Nat
  BY CryptUtilAssumption, CryptIntAssumption DEF Number
<1>4. y.cap <= limbs => y.cap * CryptBytes <= limbs * CryptBytes
  <2> DEFINE j == y.cap
             c == CryptBytes
  <2>1. j \in Nat /\ c \in Nat
    BY <1>3
  <2> HIDE DEF j, c
  <2> SUFFICES ASSUME j <= limbs PROVE j * c <= limbs * c
    BY DEF j, c
  <2>2. PICK d \in Nat : limbs = j + d
    <3>1. limbs - j \in Nat /\ limbs = j + (limbs - j)
      BY <2>1
    <3> QED  BY <3>1
  <2>3. limbs * c = j * c + d * c /\ d * c \in Nat /\ j * c \in Nat
    BY <2>1, <2>2
  <2> QED  BY <2>3
<1>5. task.spoiled \/ Owned(x, o, h)
  OBVIOUS
<1> HIDE DEF x, o
<1>6. /\ HeapOK(r.heap) /\ r.ptr \in Nat
      /\ \A z : /\ Owned(x, o, h) /\ r.ptr # 0 /\ z.buf = r.ptr
                /\ z.cap * CryptBytes <= limbs * CryptBytes
                => Owned(z, o, r.heap)
  BY <1>2, MovedSound
<1>7. task.spoiled \/ spoils \/ Owned(y, o, g)
  BY <1>4, <1>5, <1>6
<1>8. Returns(fn, w, code, y, g, spoils) /\ HeapOK(g)
  BY <1>6
<1> HIDE DEF g
<1>9. task.spoiled \/ spoils \/ Owned(y, task[Other(w)], g)
  BY <1>7 DEF o
<1> QED  BY <1>8, <1>9, ReturnKeeps

LEMMA CopyResizedStep ==
  ASSUME CryptInv(task), Crypt, NEW w \in Either, CopyResized(w)
  PROVE  CryptInv(task')
<1>1. CASE NoStorage("dcopy", w)
  BY <1>1, NoStorageStep
<1>2. CASE Stored(task[w]) /\ task[w].buf \notin DOMAIN task.heap /\ Breaks("dcopy", w, "undefined")
  BY <1>2, StoredIsThere, BreakKeeps
<1>3. ASSUME Stored(task[w]), task[w].buf \in DOMAIN task.heap, NEW v \in CryptWords,
             NEW r \in Reallocated(task.heap, task[w].buf, 1, Pointers),
             IF r.ptr = 0 THEN Breaks("dcopy", w, "crash")
             ELSE Returns("dcopy", w, "SUCCESS", Constructed(Stack, 1, v), r.heap, TRUE)
      PROVE  CryptInv(task')
  <2>1. CASE r.ptr = 0
    BY <1>3, <2>1, BreakKeeps
  <2>2. CASE r.ptr # 0
    <3>1. Number(Constructed(Stack, 1, v))
      BY CryptIntAssumption DEF Constructed, Number, Stack
    <3>2. HeapOK(task.heap) /\ Pointers = {task[w].buf, task[Other(w)].buf}
      BY BeforeCall
    <3>3. HeapOK(r.heap)
      BY <1>3, <3>2, MovedSound
    <3> QED  BY <1>3, <2>2, <3>1, <3>3, SpoilReturns
  <2> QED  BY <2>1, <2>2
<1> QED  BY <1>1, <1>2, <1>3 DEF CopyResized

\* The bytes of a wiped buffer, for the heap and its owners.
LEMMA WipedStorage ==
  ASSUME CryptInv(task), Crypt, NEW w \in Either, WithStorage(w), NEW bytes,
         \/ bytes = task.heap[task[w].buf]
         \/ \E start, end \in Int : bytes = Wiped(task[w], task.heap[task[w].buf], start, end)
  PROVE  LET g == [task.heap EXCEPT ![task[w].buf] = bytes]
         IN  /\ HeapOK(g) /\ task[w].buf \in DOMAIN g
             /\ task.spoiled \/ Owned(task[w], task[Other(w)], g)
<1> DEFINE x   == task[w]
           h   == task.heap
           old == h[x.buf]
<1>1. /\ Number(x) /\ HeapOK(h) /\ (task.spoiled \/ Owned(x, task[Other(w)], h))
  BY BeforeCall
<1>2. x.buf \in DOMAIN h /\ x.cap * CryptBytes <= Len(old) /\ Usable(x, h)
  BY DEF WithStorage, Usable
<1>3. old \in Seq(Nat)
  BY <1>1, <1>2 DEF HeapOK
<1>4. bytes \in Seq(Nat) /\ Len(bytes) = Len(old)
  <2>1. bytes = old \/ \E start, end \in Int : bytes = Wiped(x, old, start, end)
    OBVIOUS
  <2> HIDE DEF old, x, h
  <2>2. \A start, end \in Int : Wiped(x, old, start, end) \in Seq(Nat) /\ Len(Wiped(x, old, start, end)) = Len(old)
    BY <1>1, <1>2, <1>3, WipedSound
  <2>3. CASE bytes = old
    BY <1>3, <2>3
  <2>4. CASE \E start, end \in Int : bytes = Wiped(x, old, start, end)
    BY <2>2, <2>4
  <2> QED  BY <2>1, <2>3, <2>4
<1>5. x.buf = x.buf /\ x.cap = x.cap
  OBVIOUS
<1>6. /\ HeapOK([h EXCEPT ![x.buf] = bytes])
      /\ task.spoiled \/ Owned(x, task[Other(w)], [h EXCEPT ![x.buf] = bytes])
  BY <1>1, <1>2, <1>4, <1>5, RewrittenSound, Zenon
<1>7. DOMAIN [h EXCEPT ![x.buf] = bytes] = DOMAIN h
  OBVIOUS
<1> QED  BY <1>2, <1>6, <1>7

\* The numbers that a change of size makes of x.
LEMMA SizedNumbers ==
  ASSUME NEW x, Number(x), NEW ptr \in Int, NEW k \in 0 .. CryptCap
  PROVE  /\ Number(Emptied(x)) /\ Number(Refitted(x, ptr, k))
         /\ Refitted(x, ptr, k).buf = ptr /\ Refitted(x, ptr, k).cap = AtLeastOne(k) /\ AtLeastOne(k) \in Nat
<1>1. AtLeastOne(k) \in 0 .. CryptCap /\ AtLeastOne(k) \in Nat
  BY CryptIntAssumption DEF AtLeastOne, Larger
<1> DEFINE c == AtLeastOne(k)
<1>2. Refitted(x, ptr, k) = [x EXCEPT !.buf = ptr, !.cap = c, !.n = c]
  BY DEF Refitted
<1> HIDE DEF c
<1>3. {"buf", "cap", "n", "sign"} \subseteq DOMAIN x /\ x.buf \in Int /\ x.cap \in 0 .. CryptCap
  BY DEF Number
<1>4. Number(Refitted(x, ptr, k)) /\ Refitted(x, ptr, k).buf = ptr /\ Refitted(x, ptr, k).cap = c
  BY <1>1, <1>2, <1>3 DEF Number, c
<1>5. Number(Emptied(x))
  BY <1>3, CryptIntAssumption DEF Number, Emptied
<1> QED  BY <1>1, <1>4, <1>5 DEF c

\* A resize: what it makes of the wiped buffer.
LEMMA ResizeStep ==
  ASSUME CryptInv(task), Crypt, NEW w \in Either, Resize(w)
  PROVE  CryptInv(task')
<1>1. CASE NoStorage("resize", w)
  BY <1>1, NoStorageStep
<1>2. CASE LostStorage("resize", w)
  BY <1>2, LostStorageStep
<1>3. ASSUME WithStorage(w), NEW k \in 0 .. CryptCap, NEW bytes,
             bytes = IF k < task[w].cap
                     THEN Wiped(task[w], task.heap[task[w].buf], k - 1, task[w].cap - 1)
                     ELSE task.heap[task[w].buf],
             NEW g, g = [task.heap EXCEPT ![task[w].buf] = bytes],
             NEW r \in Reallocated(g, task[w].buf, AtLeastOne(k), Pointers),
             IF r.ptr = 0 THEN Returns("resize", w, "OOM", Emptied(task[w]), r.heap, TRUE)
             ELSE Returns("resize", w, "SUCCESS", Refitted(task[w], r.ptr, k), r.heap, FALSE)
      PROVE  CryptInv(task')
  <2>1. Number(task[w]) /\ Pointers = {task[w].buf, task[Other(w)].buf}
    BY BeforeCall
  <2>2. /\ HeapOK(g) /\ task[w].buf \in DOMAIN g
        /\ task.spoiled \/ Owned(task[w], task[Other(w)], g)
    <3>1. k - 1 \in Int /\ task[w].cap - 1 \in Int
      BY <2>1, CryptIntAssumption DEF Number
    <3>2. \/ bytes = task.heap[task[w].buf]
          \/ \E start, end \in Int : bytes = Wiped(task[w], task.heap[task[w].buf], start, end)
      BY <1>3, <3>1
    <3>3. LET f == [task.heap EXCEPT ![task[w].buf] = bytes]
          IN  /\ HeapOK(f) /\ task[w].buf \in DOMAIN f
              /\ task.spoiled \/ Owned(task[w], task[Other(w)], f)
      BY <1>3, <3>2, WipedStorage, Zenon
    <3> QED  BY <1>3, <3>3
  <2>3. AtLeastOne(k) \in Nat /\ Number(Emptied(task[w]))
    BY <2>1, SizedNumbers
  <2>4. HeapOK(r.heap) /\ r.ptr \in Nat
    BY <1>3, <2>1, <2>2, <2>3, MovedSound
  <2>5. Number(Refitted(task[w], r.ptr, k)) /\ Refitted(task[w], r.ptr, k).buf = r.ptr
        /\ Refitted(task[w], r.ptr, k).cap = AtLeastOne(k)
    BY <2>1, <2>4, SizedNumbers
  <2>6. CASE r.ptr = 0
    BY <1>3, <2>3, <2>4, <2>6, SpoilReturns
  <2>7. CASE r.ptr # 0
    <3>1. Returns("resize", w, "SUCCESS", Refitted(task[w], r.ptr, k), r.heap, FALSE)
      BY <1>3, <2>7
    <3>2. AtLeastOne(k) <= AtLeastOne(k) /\ FALSE \in BOOLEAN
      BY <2>3
    <3> QED  BY <1>3, <2>2, <2>3, <2>5, <2>7, <3>1, <3>2, MoveReturns
  <2> QED  BY <2>6, <2>7
<1> QED  BY <1>1, <1>2, <1>3 DEF Resize

LEMMA ShrinkStep ==
  ASSUME CryptInv(task), Crypt, NEW w \in Either, Shrink(w)
  PROVE  CryptInv(task')
<1>1. CASE NoStorage("shrink", w)
  BY <1>1, NoStorageStep
<1>2. CASE LostStorage("shrink", w)
  BY <1>2, LostStorageStep
<1>3. ASSUME WithStorage(w), NEW k \in 0 .. CryptCap, NEW bytes,
             bytes = IF k < task[w].cap
                     THEN Wiped(task[w], task.heap[task[w].buf], k - 1, task[w].cap - 1)
                     ELSE Wiped(task[w], task.heap[task[w].buf], 0, 0),
             NEW g, g = [task.heap EXCEPT ![task[w].buf] = bytes],
             NEW r \in Reallocated(g, task[w].buf, AtLeastOne(k), Pointers),
             \/ /\ k < task[w].cap /\ r.ptr = 0
                /\ Returns("shrink", w, "OOM", Emptied(task[w]), r.heap, TRUE)
             \/ /\ k < task[w].cap /\ r.ptr # 0
                /\ Returns("shrink", w, "SUCCESS", task[w], r.heap, Outdated(task[w], r, AtLeastOne(k)))
             \/ /\ k = task[w].cap
                /\ Returns("shrink", w, "SUCCESS", Refitted(task[w], r.ptr, k), Freed(r.heap, r.ptr), TRUE)
             \/ /\ k > task[w].cap
                /\ Returns("shrink", w, "SUCCESS", Refitted(task[w], r.ptr, k), r.heap, r.ptr = 0)
      PROVE  CryptInv(task')
  <2>1. /\ Number(task[w]) /\ Pointers = {task[w].buf, task[Other(w)].buf}
        /\ task[w].cap \in Nat
    BY BeforeCall, CapacityBytes
  <2>2. /\ HeapOK(g) /\ task[w].buf \in DOMAIN g
        /\ task.spoiled \/ Owned(task[w], task[Other(w)], g)
    <3>1. k - 1 \in Int /\ task[w].cap - 1 \in Int /\ 0 \in Int
      BY <2>1, CryptIntAssumption DEF Number
    <3>2. \/ bytes = task.heap[task[w].buf]
          \/ \E start, end \in Int : bytes = Wiped(task[w], task.heap[task[w].buf], start, end)
      BY <1>3, <3>1
    <3>3. LET f == [task.heap EXCEPT ![task[w].buf] = bytes]
          IN  /\ HeapOK(f) /\ task[w].buf \in DOMAIN f
              /\ task.spoiled \/ Owned(task[w], task[Other(w)], f)
      BY <1>3, <3>2, WipedStorage, Zenon
    <3> QED  BY <1>3, <3>3
  <2>3. AtLeastOne(k) \in Nat /\ Number(Emptied(task[w]))
    BY <2>1, SizedNumbers
  <2>4. HeapOK(r.heap) /\ r.ptr \in Nat
    BY <1>3, <2>1, <2>2, <2>3, MovedSound
  <2>5. Number(Refitted(task[w], r.ptr, k)) /\ Refitted(task[w], r.ptr, k).buf = r.ptr
        /\ Refitted(task[w], r.ptr, k).cap = AtLeastOne(k)
    BY <2>1, <2>4, SizedNumbers
  <2>6. CASE Returns("shrink", w, "OOM", Emptied(task[w]), r.heap, TRUE)
    BY <2>3, <2>4, <2>6, SpoilReturns
  <2>7. CASE r.ptr # 0 /\ Returns("shrink", w, "SUCCESS", task[w], r.heap, Outdated(task[w], r, AtLeastOne(k)))
    <3> DEFINE spoils == Outdated(task[w], r, AtLeastOne(k))
    <3>1. spoils \in BOOLEAN /\ (spoils \/ (task[w].buf = r.ptr /\ task[w].cap <= AtLeastOne(k)))
      BY <2>1, <2>3 DEF Outdated
    <3>2. Returns("shrink", w, "SUCCESS", task[w], r.heap, spoils)
      BY <2>7
    <3> HIDE DEF spoils
    <3> QED  BY <1>3, <2>1, <2>2, <2>3, <2>7, <3>1, <3>2, MoveReturns
  <2>8. CASE Returns("shrink", w, "SUCCESS", Refitted(task[w], r.ptr, k), Freed(r.heap, r.ptr), TRUE)
    <3>1. HeapOK(Freed(r.heap, r.ptr))
      BY <2>4, FreedSound
    <3> QED  BY <2>5, <2>8, <3>1, SpoilReturns
  <2>9. CASE r.ptr = 0 /\ Returns("shrink", w, "SUCCESS", Refitted(task[w], r.ptr, k), r.heap, r.ptr = 0)
    <3>1. Returns("shrink", w, "SUCCESS", Refitted(task[w], r.ptr, k), r.heap, TRUE)
      BY <2>9
    <3> QED  BY <2>4, <2>5, <3>1, SpoilReturns
  <2>10. CASE r.ptr # 0 /\ Returns("shrink", w, "SUCCESS", Refitted(task[w], r.ptr, k), r.heap, r.ptr = 0)
    <3>1. Returns("shrink", w, "SUCCESS", Refitted(task[w], r.ptr, k), r.heap, FALSE)
      BY <2>10
    <3>2. AtLeastOne(k) <= AtLeastOne(k) /\ FALSE \in BOOLEAN
      BY <2>3
    <3> QED  BY <1>3, <2>2, <2>3, <2>5, <2>10, <3>1, <3>2, MoveReturns
  <2> QED  BY <1>3, <2>6, <2>7, <2>8, <2>9, <2>10
<1> QED  BY <1>1, <1>2, <1>3 DEF Shrink

LEMMA ReserveStep ==
  ASSUME CryptInv(task), Crypt, NEW w \in Either, Reserve(w)
  PROVE  CryptInv(task')
<1>1. CASE NoStorage("reserve", w)
  BY <1>1, NoStorageStep
<1>2. /\ Number(task[w]) /\ Pointers = {task[w].buf, task[Other(w)].buf} /\ HeapOK(task.heap)
      /\ task[w].cap \in Nat
      /\ task.spoiled \/ Owned(task[w], task[Other(w)], task.heap)
  BY BeforeCall, CapacityBytes
<1>3. ASSUME NEW ptr \in {0, Fresh(task.heap, Pointers)},
             Returns("reserve", w, "SUCCESS", [task[w] EXCEPT !.buf = ptr], task.heap, TRUE)
      PROVE  CryptInv(task')
  <2>1. ptr \in Int
    BY <1>2, FreshIsNew
  <2> DEFINE y == [task[w] EXCEPT !.buf = ptr]
  <2>2. Number(y)
    BY <1>2, <2>1 DEF Number
  <2>3. Returns("reserve", w, "SUCCESS", y, task.heap, TRUE)
    BY <1>3
  <2> HIDE DEF y
  <2> QED  BY <1>2, <2>2, <2>3, SpoilReturns
<1>4. CASE Stored(task[w]) /\ task[w].buf \notin DOMAIN task.heap /\ Breaks("reserve", w, "undefined")
  BY <1>4, StoredIsThere, BreakKeeps
<1>5. ASSUME task[w].buf \in DOMAIN task.heap, NEW limbs \in Nat,
             NEW r \in Reallocated(task.heap, task[w].buf, limbs, Pointers)
      PROVE  HeapOK(r.heap)
  BY <1>2, <1>5, MovedSound
<1>6. ASSUME task[w].buf \in DOMAIN task.heap, NEW limbs \in Nat,
             NEW r \in Reallocated(task.heap, task[w].buf, limbs, Pointers),
             Returns("reserve", w, "OOM", [task[w] EXCEPT !.buf = 0, !.cap = 0], r.heap, TRUE)
      PROVE  CryptInv(task')
  <2> DEFINE y == [task[w] EXCEPT !.buf = 0, !.cap = 0]
  <2>1. Number(y)
    BY <1>2, CryptIntAssumption DEF Number
  <2>2. Returns("reserve", w, "OOM", y, r.heap, TRUE)
    BY <1>6
  <2> HIDE DEF y
  <2> QED  BY <1>5, <1>6, <2>1, <2>2, SpoilReturns
<1>7. ASSUME task[w].buf \in DOMAIN task.heap, NEW limbs \in Nat,
             NEW r \in Reallocated(task.heap, task[w].buf, limbs, Pointers), r.ptr # 0,
             Returns("reserve", w, "SUCCESS", task[w], r.heap, Outdated(task[w], r, limbs))
      PROVE  CryptInv(task')
  <2> DEFINE spoils == Outdated(task[w], r, limbs)
  <2>1. spoils \in BOOLEAN /\ (spoils \/ (task[w].buf = r.ptr /\ task[w].cap <= limbs))
    BY <1>2 DEF Outdated
  <2>2. Returns("reserve", w, "SUCCESS", task[w], r.heap, spoils)
    BY <1>7
  <2> HIDE DEF spoils
  <2> QED  BY <1>2, <1>7, <2>1, <2>2, MoveReturns
<1>8. ASSUME NEW k \in 0 .. CryptCap, NEW limbs \in Doubled(k)
      PROVE  limbs \in Nat
  <2>1. \A e \in Nat : 2 ^ e \in Int
    OBVIOUS
  <2>2. limbs \in Int /\ limbs >= k
    BY <2>1, CryptIntAssumption DEF Doubled
  <2> QED  BY <2>2, CryptIntAssumption
<1> QED  BY <1>1, <1>3, <1>4, <1>6, <1>7, <1>8 DEF Reserve

-----------------------------------------------------------------------------
(* State, validation, the end of the use. *)

\* A call that leaves buffer, capacity and heap alone.
LEMMA SameReturns ==
  ASSUME CryptInv(task), Crypt, NEW w \in Either, NEW fn, fn \notin {"new", "get"}, NEW code,
         NEW y, Number(y), y.buf = task[w].buf, y.cap = task[w].cap,
         Returns(fn, w, code, y, task.heap, FALSE)
  PROVE  CryptInv(task')
<1>1. /\ Number(task[w]) /\ HeapOK(task.heap)
      /\ task.spoiled \/ Owned(task[w], task[Other(w)], task.heap)
  BY BeforeCall
<1>2. y.cap <= task[w].cap
  BY <1>1, CryptIntAssumption DEF Number
<1>3. task.spoiled \/ Owned(y, task[Other(w)], task.heap)
  BY <1>1, <1>2, NarrowedOwned, Zenon
<1>4. FALSE \in BOOLEAN
  OBVIOUS
<1> QED  BY <1>1, <1>3, <1>4, ReturnKeeps

\* A call that follows a pointer breaks only behind a call that spoiled something,
\* or on a number without a buffer.
LEMMA PointerBreaks ==
  ASSUME CryptInv(task), Crypt, NEW w \in Either, NEW fn, ~ Usable(task[w], task.heap),
         Breaks(fn, w, IF task[w].buf = 0 THEN "crash" ELSE "undefined")
  PROVE  CryptInv(task')
<1>1. task.spoiled \/ Owned(task[w], task[Other(w)], task.heap)
  BY BeforeCall
<1>2. CASE task[w].buf = 0
  <2>1. Breaks(fn, w, "crash")
    BY <1>2
  <2> QED  BY <2>1, BreakKeeps
<1>3. CASE task[w].buf # 0
  <2>1. Breaks(fn, w, "undefined") /\ task.spoiled
    BY <1>1, <1>3 DEF Owned
  <2> QED  BY <2>1, BreakKeeps
<1> QED  BY <1>2, <1>3

LEMMA NormalizeStep ==
  ASSUME CryptInv(task), Crypt, NEW w \in Either, Normalize(w)
  PROVE  CryptInv(task')
<1>1. Number(task[w])
  BY BeforeCall
<1>2. ASSUME NEW n, Returns("normalize", w, "SUCCESS", [task[w] EXCEPT !.n = n, !.sign = IF n = 0 THEN 1 ELSE -1],
                            task.heap, FALSE)
      PROVE  CryptInv(task')
  <2> DEFINE y == [task[w] EXCEPT !.n = n, !.sign = IF n = 0 THEN 1 ELSE -1]
  <2>1. Number(y) /\ y.buf = task[w].buf /\ y.cap = task[w].cap
    BY <1>1 DEF Number
  <2>2. Returns("normalize", w, "SUCCESS", y, task.heap, FALSE)
    BY <1>2
  <2> HIDE DEF y
  <2> QED  BY <2>1, <2>2, SameReturns
<1>3. \/ \E n : Returns("normalize", w, "SUCCESS", [task[w] EXCEPT !.n = n, !.sign = IF n = 0 THEN 1 ELSE -1],
                        task.heap, FALSE)
      \/ /\ ~ Usable(task[w], task.heap)
         /\ Breaks("normalize", w, IF task[w].buf = 0 THEN "crash" ELSE "undefined")
  BY Zenon DEF Normalize
<1> QED  BY <1>2, <1>3, PointerBreaks

LEMMA OperateStep ==
  ASSUME CryptInv(task), Crypt, NEW w \in Either, Operate(w)
  PROVE  CryptInv(task')
<1>1. Number(task[w])
  BY BeforeCall
<1>2. \/ \E code : Returns("operate", w, code, task[w], task.heap, FALSE)
      \/ /\ ~ Usable(task[w], task.heap)
         /\ Breaks("operate", w, IF task[w].buf = 0 THEN "crash" ELSE "undefined")
  BY Zenon DEF Operate
<1> QED  BY <1>1, <1>2, SameReturns, PointerBreaks

LEMMA TransferStep ==
  ASSUME CryptInv(task), Crypt, NEW w \in Either, Transfer(w)
  PROVE  CryptInv(task')
<1> DEFINE x   == task[w]
           src == task[Other(w)]
           h   == task.heap
           old == Transferred(src)
           g   == Freed(h, x.buf)
<1>1. /\ Number(x) /\ Number(src) /\ HeapOK(h) /\ task.spoiled \in BOOLEAN /\ Other(w) \in Either
      /\ task.spoiled \/ Owned(x, src, h)
  BY BeforeCall
<1>2. CASE Returns("transfer", w, "SINVAL", x, h, FALSE)
  BY <1>1, <1>2, SameReturns
<1>3. CASE Stored(x) /\ ~ FreeSound(h, x.buf) /\ Breaks("transfer", w, "undefined")
  <2>1. task.spoiled
    BY <1>1, <1>3 DEF FreeSound, Owned, Usable
  <2> QED  BY <1>3, <2>1, BreakKeeps
<1>4. CASE /\ Stored(x) /\ Stored(src)
           /\ task' = [task EXCEPT !.left = @ - 1, ![w] = src, ![Other(w)] = old, !.heap = g,
                                   !.last = [fn |-> "transfer", on |-> w, code |-> "SUCCESS"]]
  <2>1. HeapOK(g) /\ DOMAIN g = DOMAIN h \ {x.buf} /\ \A q \in DOMAIN h \ {x.buf} : g[q] = h[q]
    BY <1>1, FreedSound
  <2>2. Number(old) /\ old.buf = 0
    BY <1>1, CryptIntAssumption DEF Transferred, Number
  <2>3. Owned(x, src, h) => Owned(src, old, g) /\ Owned(old, src, g)
    <3> SUFFICES ASSUME Owned(x, src, h) PROVE Owned(src, old, g) /\ Owned(old, src, g)
      OBVIOUS
    <3>1. x.buf # 0 /\ src.buf # 0 /\ x.buf # src.buf /\ Usable(src, h) /\ DOMAIN h \subseteq {x.buf, src.buf}
      BY <1>4 DEF Stored, Owned
    <3> HIDE DEF x, src, h, old, g
    <3>2. Usable(src, g)
      BY <2>1, <3>1 DEF Usable
    <3> QED  BY <2>1, <2>2, <3>1, <3>2 DEF Owned
  <2>4. /\ {"op", "status", "left", "x", "y", "heap", "spoiled", "last"} \subseteq DOMAIN task
        /\ task.op = "crypt"
    BY DEF CryptInv, Crypt, During
  <2>5. /\ DOMAIN task' = DOMAIN task /\ task'.status = task.status /\ task'.spoiled = task.spoiled
        /\ task'.heap = g /\ task'.last = [fn |-> "transfer", on |-> w, code |-> "SUCCESS"]
        /\ \/ task'.x = src /\ task'.y = old
           \/ task'.x = old /\ task'.y = src
    <3> HIDE DEF src, old, g
    <3>1. CASE w = "x"
      BY <1>4, <2>4, <3>1 DEF Other
    <3>2. CASE w = "y"
      BY <1>4, <2>4, <3>2 DEF Other
    <3> QED  BY <3>1, <3>2 DEF Either
  <2>6. task.status # "undefined"
    BY DEF Crypt, During, Running
  <2> HIDE DEF x, src, h, old, g
  <2>7. /\ Number(task'.x) /\ Number(task'.y) /\ HeapOK(task'.heap)
        /\ task'.spoiled \/ Owned(task'.x, task'.y, task'.heap)
    BY <1>1, <2>1, <2>2, <2>3, <2>5
  <2>8. /\ {"fn", "on", "code"} \subseteq DOMAIN task'.last /\ task'.last.on \in Either
        /\ task'.last.fn = "transfer"
    BY <2>5
  <2> QED  BY <1>1, <2>4, <2>5, <2>6, <2>7, <2>8 DEF CryptInv
<1>5. \/ Returns("transfer", w, "SINVAL", x, h, FALSE)
      \/ Stored(x) /\ ~ FreeSound(h, x.buf) /\ Breaks("transfer", w, "undefined")
      \/ /\ Stored(x) /\ Stored(src)
         /\ task' = [task EXCEPT !.left = @ - 1, ![w] = src, ![Other(w)] = old, !.heap = g,
                                 !.last = [fn |-> "transfer", on |-> w, code |-> "SUCCESS"]]
  BY Zenon DEF Transfer
<1> QED  BY <1>2, <1>3, <1>4, <1>5

LEMMA ReleasesStep ==
  ASSUME CryptInv(task), CryptReleases
  PROVE  CryptInv(task')
<1> DEFINE h == task.heap
           a == task.x.buf
           b == task.y.buf
           g == Freed(Freed(h, a), b)
<1>1. /\ {"op", "status", "left", "x", "y", "heap", "spoiled", "last"} \subseteq DOMAIN task
      /\ Number(task.x) /\ Number(task.y) /\ HeapOK(h) /\ task.spoiled \in BOOLEAN
      /\ {"fn", "on", "code"} \subseteq DOMAIN task.last /\ task.last.on \in Either
      /\ task.spoiled \/ Owned(task.x, task.y, h)
  BY DEF CryptInv, CryptReleases, Crypt, During
<1>2. /\ HeapOK(g) /\ DOMAIN g = (DOMAIN h \ {a}) \ {b}
      /\ HeapOK(Freed(h, a)) /\ DOMAIN Freed(h, a) = DOMAIN h \ {a}
  <2> DEFINE f == Freed(h, a)
  <2>1. HeapOK(f) /\ DOMAIN f = DOMAIN h \ {a}
    <3>1. HeapOK(h)
      BY <1>1
    <3> HIDE DEF h, a
    <3> QED  BY <3>1, FreedSound
  <2> HIDE DEF f, h
  <2>2. HeapOK(Freed(f, b)) /\ DOMAIN Freed(f, b) = DOMAIN f \ {b}
    BY <2>1, FreedSound
  <2> QED  BY <2>1, <2>2 DEF f
<1>3. Number(NullNumber) /\ NullNumber.buf = 0
  BY CryptIntAssumption DEF NullNumber, Number
<1>4. CASE task' = [task EXCEPT !.status = "ok", !.x = NullNumber, !.y = NullNumber, !.heap = g]
  <2> HIDE DEF g
  <2>1. /\ DOMAIN task' = DOMAIN task /\ task'.status = "ok" /\ task'.x = NullNumber
        /\ task'.y = NullNumber /\ task'.heap = g /\ task'.spoiled = task.spoiled /\ task'.last = task.last
    BY <1>1, <1>4
  <2>2. task.spoiled \/ Owned(NullNumber, NullNumber, g)
    BY <1>1, <1>2, <1>3 DEF Owned
  <2> QED  BY <1>1, <1>2, <1>3, <2>1, <2>2 DEF CryptInv
<1>5. CASE /\ ~ (FreeSound(h, a) /\ FreeSound(Freed(h, a), b))
           /\ task' = [task EXCEPT !.status = "undefined"]
  <2>1. task.spoiled
    BY <1>1, <1>2, <1>5 DEF FreeSound, Owned, Usable
  <2>2. /\ DOMAIN task' = DOMAIN task /\ task'.status = "undefined" /\ task'.x = task.x
        /\ task'.y = task.y /\ task'.heap = h /\ task'.spoiled = task.spoiled /\ task'.last = task.last
    BY <1>1, <1>5
  <2> QED  BY <1>1, <2>1, <2>2 DEF CryptInv
<1>6. \/ task' = [task EXCEPT !.status = "ok", !.x = NullNumber, !.y = NullNumber, !.heap = g]
      \/ /\ ~ (FreeSound(h, a) /\ FreeSound(Freed(h, a), b))
         /\ task' = [task EXCEPT !.status = "undefined"]
  BY DEF CryptReleases
<1> QED  BY <1>4, <1>5, <1>6

LEMMA CryptBeginsStep ==
  ASSUME CryptBegins
  PROVE  CryptInv(task')
<1>1. /\ DOMAIN task' = {"op", "status", "left", "x", "y", "heap", "spoiled", "last"}
      /\ task'.status = "running" /\ task'.x = NullNumber /\ task'.y = NullNumber /\ task'.heap = <<>>
      /\ task'.spoiled = FALSE /\ task'.last = [fn |-> "none", on |-> "x", code |-> "none"]
  BY DEF CryptBegins, Enter
<1>2. Number(NullNumber) /\ NullNumber.buf = 0
  BY CryptIntAssumption DEF NullNumber, Number
<1>3. DOMAIN task'.heap = {}
  BY <1>1
<1>4. HeapOK(task'.heap)
  BY <1>3, FS_EmptySet DEF HeapOK
<1>5. Owned(NullNumber, NullNumber, task'.heap)
  BY <1>2, <1>3 DEF Owned
<1>6. /\ {"fn", "on", "code"} \subseteq DOMAIN task'.last /\ task'.last.on \in Either
      /\ task'.last.fn = "none"
  BY <1>1 DEF Either
<1>7. task'.status # "undefined" /\ Owned(task'.x, task'.y, task'.heap) /\ Number(task'.x) /\ Number(task'.y)
  BY <1>1, <1>2, <1>5
<1>8. {"op", "status", "left", "x", "y", "heap", "spoiled", "last"} \subseteq DOMAIN task' /\ task'.spoiled \in BOOLEAN
  BY <1>1
<1> QED  BY <1>4, <1>6, <1>7, <1>8 DEF CryptInv

-----------------------------------------------------------------------------
(* The invariant and the theorems. *)

LEMMA CryptCallsStep ==
  ASSUME CryptInv(task), CryptCalls
  PROVE  CryptInv(task')
<1>1. Crypt
  BY DEF CryptCalls, Calls
<1>2. PICK w \in Either :
        \/ Construct(w) \/ Get(w) \/ Canonicalize(w) \/ CopyWord(w) \/ CopyResized(w) \/ Normalize(w)
        \/ Transfer(w) \/ Reset(w) \/ Resize(w) \/ Reserve(w) \/ Shrink(w) \/ Operate(w) \/ Free(w)
  BY DEF CryptCalls
<1> QED  BY <1>1, <1>2, ConstructStep, GetStep, CanonicalizeStep, CopyWordStep, CopyResizedStep,
            NormalizeStep, TransferStep, ResetStep, ResizeStep, ReserveStep, ShrinkStep, OperateStep,
            FreeStep

\* A call of another component is none on a cryptInt.
LEMMA NoCrypt == ASSUME NEW t, t.op # "crypt" PROVE CryptInv(t)
BY DEF CryptInv

\* The call a caller makes inside has the operation of its own.
LEMMA InsideOp ==
  ASSUME NEW o, NEW s, NEW op, NEW len, Begun(s, op, len)
  PROVE  With([outer |-> o], s).op = op
<1>1. "op" \in DOMAIN s /\ s.op = op
  BY DEF Begun, CallInv
<1> QED  BY <1>1 DEF With

\* A call of random bytes begins as one of theirs, and stays it.
LEMMA EntropyBegun ==
  ASSUME EntropyBegins
  PROVE  task'.op \in EntropyOps
<1>1. 0 .. MaxBytes \subseteq Nat /\ 0 .. MaxRetries \subseteq Nat /\ 1 .. MaxBytes \subseteq Nat
      /\ FastRetries \in Nat
  BY EntropyAssumption
<1>2. CASE CallSeed
  BY <1>1, <1>2, SeedBegins DEF CallSeed, Enter, Begun, EntropyOps, Fillers, Sources
<1>3. CASE CallFast
  <2>1. PICK len \in 0 .. MaxBytes, system \in Systems, fitted \in BOOLEAN :
          task' = With([outer |-> [op |-> "fast", status |-> "running", len |-> len,
                                   system |-> system, stored |-> 0]],
                       SeedTask(len, FastRetries, FALSE, fitted))
    BY <1>3 DEF CallFast
  <2>2. Begun(SeedTask(len, FastRetries, FALSE, fitted), "seed", len)
    BY <1>1, SeedBegins
  <2>3. task'.op = "seed"
    BY <2>1, <2>2, InsideOp
  <2> QED  BY <2>3 DEF EntropyOps, Fillers, Sources
<1>4. CASE CallCrtSeed
  BY <1>1, <1>4, CrtSeedBegins DEF CallCrtSeed, Enter, Begun, EntropyOps, Fillers
<1>5. CASE CallCrtUrandom
  <2>1. PICK len, max, sum :
          task' = With([op |-> "crturandom", status |-> "running", passes |-> 0, sum |-> sum],
                       Filling("crturandom", len, max))
    BY <1>5, Zenon DEF CallCrtUrandom, Enter
  <2>2. task'.op = "crturandom"
    BY <2>1 DEF With
  <2> QED  BY <2>2 DEF EntropyOps, Fillers
<1>6. CASE CallPqc
  BY <1>6 DEF CallPqc, Enter, EntropyOps
<1> QED  BY <1>2, <1>3, <1>4, <1>5, <1>6 DEF EntropyBegins

LEMMA EntropyContinues ==
  ASSUME CallInv(task), EntropySteps
  PROVE  task'.op \in EntropyOps
<1>1. /\ {"op", "status"} \subseteq DOMAIN task
      /\ task.op \in Fillers => {"len", "max", "done", "stored", "written", "retries"} \subseteq DOMAIN task
  BY DEF CallInv, BufferInv
<1>2. \A t, s : t.op = task.op /\ "op" \in DOMAIN t => Stop(t, s).op = task.op
  BY DEF Stop
<1>3. \A n, kept : Advance(task, n, kept).op = task.op /\ DOMAIN Advance(task, n, kept) = DOMAIN task
  BY <1>1 DEF Advance
<1>4. Again(task).op = task.op
  BY <1>1 DEF Again
<1>5. CASE Draw
  <2>1. task'.op = task.op
    BY <1>1, <1>2, <1>3, <1>4, <1>5 DEF Draw
  <2> QED  BY <1>5, <2>1 DEF Draw, During, EntropyOps, Fillers, Sources
<1>6. \A opened, wild : Urandom(task, opened, wild).op = "urandom"
  BY DEF Urandom, With
<1>7. CASE Getrandom \/ Getentropy \/ Bcrypt
  <2>1. task'.op = task.op \/ task'.op = "urandom"
    BY <1>1, <1>2, <1>3, <1>4, <1>6, <1>7 DEF Getrandom, Getentropy, Bcrypt
  <2> QED  BY <1>7, <2>1 DEF Getrandom, Getentropy, Bcrypt, During, EntropyOps, Fillers, Sources
<1>8. CASE ReadUrandom
  <2>1. \A t : t.op = task.op /\ "op" \in DOMAIN t => ClosedOn(t).op = task.op
    BY DEF ClosedOn
  <2>2. DOMAIN Stop(task, "failed") = DOMAIN task
    BY DEF Stop
  <2>3. task'.op = task.op
    BY <1>1, <1>2, <1>3, <1>4, <1>8, <2>1, <2>2 DEF ReadUrandom
  <2> QED  BY <1>8, <2>3 DEF ReadUrandom, During, EntropyOps, Fillers, Sources
<1>9. CASE CrtSeedPass \/ CrtSeedEnds \/ DarwinEnds \/ CrtUrandomEnds
  <2>1. task'.op = task.op
    <3>1. CASE CrtSeedPass
      BY <1>1, <3>1 DEF CrtSeedPass
    <3>2. CASE CrtSeedEnds \/ DarwinEnds \/ CrtUrandomEnds
      BY <1>1, <1>2, <3>2 DEF CrtSeedEnds, DarwinEnds, CrtUrandomEnds
    <3> QED  BY <1>9, <3>1, <3>2
  <2> QED  BY <1>9, <2>1 DEF CrtSeedPass, CrtSeedEnds, DarwinEnds, CrtUrandomEnds, During, EntropyOps, Fillers
<1>10. CASE DarwinPass \/ CrtUrandomPass
  <2>1. \A n : Advance([task EXCEPT !.passes = @ + 1], n, n).op = task.op
               /\ "op" \in DOMAIN Advance([task EXCEPT !.passes = @ + 1], n, n)
    BY <1>1 DEF Advance
  <2>2. task'.op = task.op
    <3>1. CASE \E n : task' = [Advance([task EXCEPT !.passes = @ + 1], n, n) EXCEPT !.status = "running"]
      BY <1>1, <3>1 DEF Advance
    <3>2. CASE ~ \E n : task' = [Advance([task EXCEPT !.passes = @ + 1], n, n) EXCEPT !.status = "running"]
      BY <1>1, <1>10, <3>2 DEF DarwinPass, CrtUrandomPass
    <3> QED  BY <3>1, <3>2
  <2> QED  BY <1>10, <2>2 DEF DarwinPass, CrtUrandomPass, During, EntropyOps, Fillers
<1>11. CASE PqcHardware
  <2>1. /\ task.len \in Nat /\ task.processed \in Nat /\ task.processed < task.len
        /\ task' = With([outer |-> task], CrtSeedTask(Chunk(task), PqcRetries, PoolBytes, task.trng \/ task.drbg))
    BY <1>11 DEF PqcHardware, During, Running, CallInv, PqcInv
  <2>2. Chunk(task) \in Nat /\ PqcRetries \in Nat
    BY <2>1, EntropyAssumption DEF Chunk, Smaller, PqcRetries
  <2>3. (task.trng \/ task.drbg) \in BOOLEAN
    OBVIOUS
  <2>4. Begun(CrtSeedTask(Chunk(task), PqcRetries, PoolBytes, task.trng \/ task.drbg), "crtseed", Chunk(task))
    BY <2>2, <2>3, CrtSeedBegins
  <2>5. task'.op = "crtseed"
    BY <2>1, <2>4, InsideOp
  <2> QED  BY <2>5 DEF EntropyOps, Fillers
<1>12. \A t, status : "op" \in DOMAIN t => Stop(t, status).op = t.op
  BY DEF Stop
<1>13. CASE FastResumes
  <2> DEFINE o    == task.outer
             fast == [o EXCEPT !.stored = Larger(@, task.stored)]
             last == [fast EXCEPT !.stored = Larger(@, WholeWords(fast.len))]
  <2>1. o.op = "fast" /\ "op" \in DOMAIN o /\ o.len \in Nat /\ o.system \in Systems
        /\ {"len", "system", "stored"} \subseteq DOMAIN o
    BY <1>13, Resumed DEF FastResumes, FastInv
  <2>2. /\ "op" \in DOMAIN fast /\ fast.op = "fast" /\ fast.len \in Nat /\ fast.system \in Systems
        /\ "op" \in DOMAIN last /\ last.op = "fast"
    BY <2>1
  <2>3. \/ \E status : task' = Stop(fast, status) \/ task' = Stop(last, status)
        \/ task' = With([outer |-> fast], SystemTask(fast.system, fast.len, FastRetries))
    BY <1>13, Zenon DEF FastResumes
  <2> HIDE DEF fast, last
  <2>4. \E op \in {"getrandom", "getentropy", "bcrypt", "none"} :
          Begun(SystemTask(fast.system, fast.len, FastRetries), op, fast.len)
    BY <2>2, SystemBegins, EntropyAssumption
  <2>5. task'.op \in {"fast", "getrandom", "getentropy", "bcrypt", "none"}
    BY <1>12, <2>2, <2>3, <2>4, InsideOp
  <2> QED  BY <2>5 DEF EntropyOps, Fillers, Sources
<1>14. CASE PqcSystem
  <2>1. task.outer.op = "pqc" /\ "op" \in DOMAIN task.outer /\ task.outer.system \in Systems /\ task.len \in Nat
    BY <1>14, Resumed DEF PqcSystem, PqcInv
  <2>2. \E op \in {"getrandom", "getentropy", "bcrypt", "none", "crtdarwin"} :
          Begun(CrtSystemTask(task.outer.system, task.len, PqcRetries), op, task.len)
    BY <2>1, CrtSystemBegins, EntropyAssumption DEF PqcRetries
  <2>3. \/ task' = Stop(task.outer, "undefined")
        \/ task' = With([outer |-> task.outer], CrtSystemTask(task.outer.system, task.len, PqcRetries))
    BY <1>14 DEF PqcSystem
  <2>4. task'.op \in {"pqc", "getrandom", "getentropy", "bcrypt", "none", "crtdarwin"}
    BY <1>12, <2>1, <2>2, <2>3, InsideOp
  <2> QED  BY <2>4 DEF EntropyOps, Fillers, Sources
<1>15. CASE PqcMix
  <2> DEFINE o    == task.outer
             held == Larger(WholeWords(task.len), Pooled(task))
             next == [o EXCEPT !.processed = @ + task.len, !.bare = @ + task.len - held]
  <2>1. o.op = "pqc" /\ "op" \in DOMAIN o
    BY <1>15, Resumed DEF PqcMix
  <2>2. "op" \in DOMAIN next /\ next.op = "pqc"
    BY <2>1
  <2>3. task' = next \/ \E status : task' = Stop(o, status) \/ task' = Stop(next, status)
    BY <1>15, Zenon DEF PqcMix
  <2> HIDE DEF next, o
  <2>4. task'.op = "pqc"
    BY <1>12, <2>1, <2>2, <2>3
  <2> QED  BY <2>4 DEF EntropyOps
<1> QED  BY <1>5, <1>7, <1>8, <1>9, <1>10, <1>11, <1>13, <1>14, <1>15 DEF EntropySteps

LEMMA CryptNext == IInv /\ CIInv /\ [Next]_task => CIInv'
<1> SUFFICES ASSUME CallInv(task), CryptInv(task), [Next]_task PROVE CryptInv(task')
  BY DEF IInv, CIInv
<1>1. CASE EntropyBegins \/ EntropySteps
  <2>1. task'.op \in EntropyOps
    BY <1>1, EntropyBegun, EntropyContinues
  <2> QED  BY <2>1, NoCrypt DEF EntropyOps, Fillers, Sources
<1>2. CASE ArithBegins \/ RootBegins \/ PrimeBegins \/ CryptUtilBegins
  <2>1. task'.op \in ArithOps \cup UtilOps \cup {"root", "prime"}
    BY <1>2, ArithBegun, RootBegun, PrimeBegun, CryptUtilBegun DEF Plain
  <2> QED  BY <2>1, NoCrypt DEF ArithOps, UtilOps
<1>3. CASE ArithSteps \/ RootSteps \/ PrimeSteps
  <2>1. "op" \in DOMAIN task
    BY DEF CallInv
  <2>2. task'.op \in ArithOps \cup {"root", "prime"}
    BY <1>3, <2>1, ArithContinues, RootContinues, PrimeContinues DEF Continues
  <2> QED  BY <2>2, NoCrypt DEF ArithOps
<1>4. CASE CryptBegins
  BY <1>4, CryptBeginsStep
<1>5. CASE CryptSteps
  BY <1>5, CryptCallsStep, ReleasesStep DEF CryptSteps
<1>6. CASE Leave
  BY <1>6, NoCrypt DEF Leave, Idle
<1>7. CASE UNCHANGED task
  BY <1>7
<1> QED  BY <1>1, <1>2, <1>3, <1>4, <1>5, <1>6, <1>7 DEF Next, Begin, Step

LEMMA CryptInit == Init => CIInv
BY NoCrypt DEF Init, Idle, CIInv

\* What the use of two cryptInts keeps true: who owns which buffer, and what a number
\* is like that was built or given a word.
THEOREM CryptInvariant == Spec => []CIInv
BY EntropyInvariant, CryptInit, CryptNext, PTL DEF Spec

LEMMA InvOwned == CIInv => CryptBuffersOwned
<1> SUFFICES ASSUME CryptInv(task), task.op = "crypt", ~ task.spoiled
             PROVE  /\ task.status # "undefined"
                    /\ \A w \in Either : task[w].buf = 0 \/ Usable(task[w], task.heap)
                    /\ DOMAIN task.heap \subseteq Pointers
                    /\ task.x.buf = task.y.buf => task.x.buf = 0
  BY DEF CIInv, CryptBuffersOwned
<1>1. task.status # "undefined" /\ Owned(task.x, task.y, task.heap)
  BY DEF CryptInv
<1> QED  BY <1>1 DEF Owned, Pointers, Either

LEMMA InvClean == CIInv => CryptWordsClean
BY DEF CIInv, CryptWordsClean, CryptInv, Clean, Running

\* Whatever calls are made on two cryptInts, in any order, and whether an allocation
\* fails, stays or moves: until one of the calls that are wrong, no call follows a
\* pointer elsewhere, each buffer has one owner with room for its capacity, and the
\* release leaves none; for every limb, capacity, set of words and number of calls
\* (crint_core.c:28-124, :1134-1218, :1543-1718).
THEOREM CryptOwned == Spec => []CryptBuffersOwned
BY CryptInvariant, InvOwned, PTL

\* Whatever was built, or was given a word after any calls that are not wrong, follows
\* the contract and keeps nothing of what its limbs held before
\* (crint_core.c:35-124, :263-295).
THEOREM CryptClean == Spec => []CryptWordsClean
BY CryptInvariant, InvClean, PTL

-----------------------------------------------------------------------------
(* Induction and recursion up to a number *)

Below == {z \in Nat \X Nat : z[1] < z[2]}

\* A set of natural numbers that has one has a least one.
LEMMA LeastNumber ==
  ASSUME NEW S, S \subseteq Nat, S # {}
  PROVE  \E m \in S : \A k \in S : m <= k
<1>1. IsWellFoundedOn(Below, Nat)
  BY NatLessThanWellFounded DEF OpToRel, Below
<1>2. PICK m \in S : \A k \in S : ~ (<<k, m>> \in Below)
  BY <1>1, WFMin
<1>3. \A k, l \in Nat : <<k, l>> \in Below <=> k < l
  BY DEF Below
<1>4. \A k \in S : ~ (k < m) /\ k \in Nat /\ m \in Nat
  BY <1>2, <1>3
<1> QED  BY <1>4

LEMMA SetInduction ==
  ASSUME NEW n \in Nat, NEW Q, 0 \in Q, \A i \in 1 .. n : i - 1 \in Q => i \in Q
  PROVE  \A i \in 0 .. n : i \in Q
<1> DEFINE S == {i \in 0 .. n : i \notin Q}
<1>1. SUFFICES ASSUME S # {} PROVE FALSE
  OBVIOUS
<1>2. S \subseteq Nat
  OBVIOUS
<1>3. PICK m \in S : \A k \in S : m <= k
  BY <1>1, <1>2, LeastNumber
<1>4. m \in 1 .. n /\ m - 1 \in 0 .. n /\ ~ (m <= m - 1)
  BY <1>3
<1>5. m - 1 \notin S
  BY <1>3, <1>4
<1> QED  BY <1>3, <1>4, <1>5

\* A step function that makes values in S of values in S, and what it runs through
\* from a on.
Fits(n, S, step)  == \A i \in 1 .. n : \A s \in S : step[i][s] \in S
Run(n, a, step, f) == f[0] = a /\ \A i \in 1 .. n : f[i] = step[i][f[i - 1]]
Follows(n, S, step, f) == \A i \in 1 .. n : f[i - 1] \in S => f[i] = step[i][f[i - 1]]
Runs(n, S, a, step) == \E f \in [0 .. n -> S] : Run(n, a, step, f)

LEMMA Recursion ==
  ASSUME NEW n \in Nat, NEW S, NEW a \in S, NEW step, Fits(n, S, step)
  PROVE  Runs(n, S, a, step)
<1> DEFINE Reached(m, f) == f \in [0 .. m -> S] /\ Run(m, a, step, f)
           Q == {m \in 0 .. n : \E f : Reached(m, f)}
<1>1. 0 \in Q
  <2>1. Reached(0, [i \in 0 .. 0 |-> a])
    BY DEF Run
  <2> HIDE DEF Reached
  <2>2. \E f : Reached(0, f)
    BY <2>1
  <2> QED  BY <2>2
<1>2. ASSUME NEW m \in 1 .. n, m - 1 \in Q PROVE m \in Q
  <2>1. PICK f : Reached(m - 1, f)
    BY <1>2
  <2> DEFINE h == [i \in 0 .. m |-> IF i = m THEN step[m][f[m - 1]] ELSE f[i]]
  <2>2. f[m - 1] \in S /\ step[m][f[m - 1]] \in S
    BY <2>1 DEF Fits
  <2>3. h \in [0 .. m -> S]
    BY <2>1, <2>2
  <2>4. h[0] = a
    BY <2>1 DEF Run
  <2>5. ASSUME NEW i \in 1 .. m PROVE h[i] = step[i][h[i - 1]]
    <3>1. i - 1 \in 0 .. m /\ i - 1 # m /\ h[i - 1] = f[i - 1]
      OBVIOUS
    <3>2. CASE i = m
      BY <3>1, <3>2
    <3>3. CASE i # m
      <4>1. i \in 1 .. m - 1 /\ h[i] = f[i]
        BY <3>3
      <4> QED  BY <2>1, <3>1, <4>1 DEF Run
    <3> QED  BY <3>2, <3>3
  <2>6. Reached(m, h)
    BY <2>3, <2>4, <2>5 DEF Run
  <2> HIDE DEF Reached, h
  <2>7. \E e : Reached(m, e)
    BY <2>6
  <2> QED  BY <2>7
<1> HIDE DEF Q
<1>3. n \in Q
  <2>1. \A m \in 0 .. n : m \in Q
    BY <1>1, <1>2, SetInduction
  <2> QED  BY <2>1
<1>4. PICK f : Reached(n, f)
  BY <1>3 DEF Q
<1> QED  BY <1>4 DEF Runs

LEMMA RunTyped ==
  ASSUME NEW n \in Nat, NEW S, NEW step, Fits(n, S, step), NEW f, f[0] \in S, Follows(n, S, step, f)
  PROVE  \A i \in 0 .. n : f[i] \in S
<1> DEFINE Q == {i \in 0 .. n : f[i] \in S}
<1>1. 0 \in Q
  OBVIOUS
<1>2. \A i \in 1 .. n : i - 1 \in Q => i \in Q
  BY DEF Fits, Follows
<1> HIDE DEF Q
<1>3. \A i \in 0 .. n : i \in Q
  BY <1>1, <1>2, SetInduction
<1> QED  BY <1>3 DEF Q

-----------------------------------------------------------------------------
(* The helpers of cryptInt: weights of limbs *)

CryptLimb == 0 .. CryptRadix - 1

LEMMA CryptRadixOf == CryptRadix \in Nat /\ CryptRadix >= 2
BY CryptUtilAssumption

\* The weights up to k are those of the recursion.
LEMMA CryptWeightsOf ==
  ASSUME NEW k \in Nat
  PROVE  \E f \in [0 .. k -> Nat] :
           /\ CryptWeight(k) = f[k] /\ f[0] = 1
           /\ \A i \in 1 .. k : f[i] = CryptRadix * f[i - 1]
<1> DEFINE Unrolled(r) == [i \in 0 .. k |-> IF i = 0 THEN 1 ELSE CryptRadix * r[i - 1]]
           c == CHOOSE r : r = Unrolled(r)
           g == [i \in 1 .. k |-> [s \in Nat |-> CryptRadix * s]]
<1>n. 1 \in Nat /\ \A s \in Nat : CryptRadix * s \in Nat
  BY CryptRadixOf
<1>1. Fits(k, Nat, g) /\ \A i \in 1 .. k : \A s \in Nat : g[i][s] = CryptRadix * s
  BY <1>n DEF Fits
<1> HIDE DEF g
<1>2. PICK f \in [0 .. k -> Nat] : Run(k, 1, g, f)
  BY <1>n, <1>1, Recursion DEF Runs
<1>3. \A i \in 1 .. k : f[i - 1] \in Nat
  BY <1>n
<1>4. f[0] = 1 /\ \A i \in 1 .. k : f[i] = CryptRadix * f[i - 1]
  BY <1>1, <1>2, <1>3 DEF Run
<1>e. f = Unrolled(f)
  BY <1>4
<1>5. c = Unrolled(c)
  BY <1>e
<1>6. CryptWeight(k) = c[k]
  BY DEF CryptWeight
<1> HIDE DEF c
<1> DEFINE e == Unrolled(c)
<1>7. DOMAIN e = 0 .. k /\ e = [i \in DOMAIN e |-> e[i]]
      /\ e[0] = 1 /\ \A i \in 1 .. k : e[i] = CryptRadix * c[i - 1]
  <2>1. \A i \in 0 .. k : e[i] = IF i = 0 THEN 1 ELSE CryptRadix * c[i - 1]
    OBVIOUS
  <2>2. DOMAIN e = 0 .. k /\ e = [i \in DOMAIN e |-> e[i]]
    OBVIOUS
  <2> HIDE DEF e
  <2> QED  BY <1>n, <2>1, <2>2
<1> HIDE DEF e
<1>8. DOMAIN c = 0 .. k /\ c = [i \in DOMAIN c |-> c[i]]
      /\ c[0] = 1 /\ \A i \in 1 .. k : c[i] = CryptRadix * c[i - 1]
  BY <1>5, <1>7 DEF e
<1>9. \A i \in 0 .. k : c[i] \in Nat
  <2>1. c[0] \in Nat /\ Follows(k, Nat, g, c)
    BY <1>n, <1>1, <1>8 DEF Follows
  <2> QED  BY <1>1, <2>1, RunTyped
<1>10. c \in [0 .. k -> Nat]
  BY <1>8, <1>9
<1> QED  BY <1>6, <1>8, <1>10

\* A weight, by one limb more.
LEMMA CryptWeightOf ==
  /\ CryptWeight(0) = 1
  /\ \A k \in Nat : CryptWeight(k) \in Nat /\ CryptWeight(k + 1) = CryptRadix * CryptWeight(k)
<1>1. CryptWeight(0) = 1
  BY CryptWeightsOf
<1>2. ASSUME NEW k \in Nat
      PROVE  CryptWeight(k) \in Nat /\ CryptWeight(k + 1) = CryptRadix * CryptWeight(k)
  <2>1. PICK r \in [0 .. k -> Nat] :
          CryptWeight(k) = r[k] /\ r[0] = 1 /\ \A i \in 1 .. k : r[i] = CryptRadix * r[i - 1]
    BY CryptWeightsOf
  <2>2. k + 1 \in Nat
    OBVIOUS
  <2>3. PICK s \in [0 .. k + 1 -> Nat] :
          /\ CryptWeight(k + 1) = s[k + 1] /\ s[0] = 1
          /\ \A i \in 1 .. k + 1 : s[i] = CryptRadix * s[i - 1]
    BY <2>2, CryptWeightsOf
  <2> DEFINE Q == {i \in 0 .. k : r[i] = s[i]}
  <2>4. 0 \in Q
    BY <2>1, <2>3
  <2>5. ASSUME NEW i \in 1 .. k, i - 1 \in Q PROVE i \in Q
    <3>1. r[i - 1] = s[i - 1] /\ i \in 0 .. k /\ i \in 1 .. k + 1
      BY <2>5
    <3>2. r[i] = CryptRadix * r[i - 1] /\ s[i] = CryptRadix * s[i - 1]
      BY <2>1, <2>3, <3>1
    <3> QED  BY <3>1, <3>2
  <2> HIDE DEF Q
  <2>6. \A i \in 0 .. k : i \in Q
    BY <2>4, <2>5, SetInduction
  <2>7. s[k + 1] = CryptRadix * s[k]
    <3>1. k + 1 \in 1 .. k + 1 /\ (k + 1) - 1 = k
      OBVIOUS
    <3> QED  BY <2>3, <3>1
  <2>8. r[k] = s[k]
    BY <2>6 DEF Q
  <2> QED  BY <2>1, <2>3, <2>7, <2>8
<1> QED  BY <1>1, <1>2

\* A product grows with its factors.
LEMMA Products ==
  ASSUME NEW a \in Nat, NEW b \in Nat, NEW c \in Nat, a <= b
  PROVE  c * a <= c * b
<1>1. PICK j \in Nat : b = a + j
  <2>1. b - a \in Nat /\ b = a + (b - a)
    OBVIOUS
  <2> QED  BY <2>1
<1>2. c * b = c * a + c * j /\ c * j \in Nat /\ c * a \in Nat
  BY <1>1
<1> QED  BY <1>2

LEMMA CryptWeightPositive ==
  ASSUME NEW k \in Nat
  PROVE  CryptWeight(k) \in Nat /\ CryptWeight(k) >= 1
<1> DEFINE Q == {i \in 0 .. k : CryptWeight(i) >= 1}
<1>1. 0 \in Q
  BY CryptWeightOf
<1>2. ASSUME NEW i \in 1 .. k, i - 1 \in Q PROVE i \in Q
  <2> DEFINE w == CryptWeight(i - 1)
  <2>1. i - 1 \in Nat /\ (i - 1) + 1 = i
    OBVIOUS
  <2>2. w \in Nat /\ CryptWeight(i) = CryptRadix * w /\ w >= 1
    BY <1>2, <2>1, CryptWeightOf
  <2> HIDE DEF w
  <2>3. CryptRadix * 1 <= CryptRadix * w
    BY <2>2, CryptRadixOf, Products
  <2> QED  BY <2>2, <2>3, CryptRadixOf
<1> HIDE DEF Q
<1>3. \A i \in 0 .. k : i \in Q
  BY <1>1, <1>2, SetInduction
<1> QED  BY <1>3, CryptWeightOf DEF Q

\* The weight of a sum is the product of the weights.
LEMMA CryptWeightAdd ==
  ASSUME NEW a \in Nat, NEW b \in Nat
  PROVE  CryptWeight(a + b) = CryptWeight(a) * CryptWeight(b)
<1> DEFINE Q == {i \in 0 .. b : CryptWeight(a + i) = CryptWeight(a) * CryptWeight(i)}
           w == CryptWeight(a)
<1>0. w \in Nat /\ CryptWeight(0) = 1
  BY CryptWeightOf
<1>1. 0 \in Q
  BY <1>0
<1>2. ASSUME NEW i \in 1 .. b, i - 1 \in Q PROVE i \in Q
  <2>1. i - 1 \in Nat /\ (i - 1) + 1 = i /\ a + (i - 1) \in Nat /\ (a + (i - 1)) + 1 = a + i
    OBVIOUS
  <2> DEFINE v == CryptWeight(i - 1)
  <2>2. v \in Nat /\ CryptWeight(i) = CryptRadix * v
    BY <2>1, CryptWeightOf
  <2>3. CryptWeight(a + i) = CryptRadix * CryptWeight(a + (i - 1))
    <3>1. CryptWeight((a + (i - 1)) + 1) = CryptRadix * CryptWeight(a + (i - 1))
      BY <2>1, CryptWeightOf
    <3> QED  BY <2>1, <3>1
  <2>4. CryptWeight(a + (i - 1)) = w * v
    BY <1>2
  <2> HIDE DEF w, v
  <2>5. CryptRadix * (w * v) = w * (CryptRadix * v)
    BY <1>0, <2>2, CryptRadixOf
  <2>6. CryptWeight(a + i) = w * CryptWeight(i)
    BY <2>2, <2>3, <2>4, <2>5
  <2> QED  BY <2>6 DEF w
<1> HIDE DEF Q
<1>3. \A i \in 0 .. b : i \in Q
  BY <1>1, <1>2, SetInduction
<1> QED  BY <1>3 DEF Q

LEMMA CryptWeightMonotone ==
  ASSUME NEW a \in Nat, NEW b \in Nat, a <= b
  PROVE  CryptWeight(a) \in Nat /\ CryptWeight(b) \in Nat /\ CryptWeight(a) <= CryptWeight(b)
<1> DEFINE w == CryptWeight(a)  v == CryptWeight(b - a)
<1>1. b - a \in Nat /\ a + (b - a) = b
  OBVIOUS
<1>2. CryptWeight(b) = w * v
  BY <1>1, CryptWeightAdd
<1>3. w \in Nat /\ v \in Nat /\ v >= 1 /\ CryptWeight(b) \in Nat
  BY <1>1, CryptWeightPositive
<1> HIDE DEF w, v
<1>4. w * 1 <= w * v
  BY <1>3, Products
<1>5. w <= CryptWeight(b)
  BY <1>2, <1>3, <1>4
<1> QED  BY <1>3, <1>5 DEF w

-----------------------------------------------------------------------------
(* Values of arrays of limbs *)

\* The values of the first limbs, from none on.
LEMMA CryptValueOf ==
  ASSUME NEW limbs \in Seq(Nat)
  PROVE  /\ CryptValue(limbs, 0) = 0
         /\ \A i \in 0 .. Len(limbs) : CryptValue(limbs, i) \in Nat
         /\ \A i \in 1 .. Len(limbs) :
              CryptValue(limbs, i) = CryptValue(limbs, i - 1) + limbs[i] * CryptWeight(i - 1)
<1> DEFINE n == Len(limbs)
           Unrolled(r) == [i \in 0 .. n |-> IF i = 0 THEN 0 ELSE r[i - 1] + limbs[i] * CryptWeight(i - 1)]
           c == CHOOSE r : r = Unrolled(r)
           p == [i \in 1 .. n |-> limbs[i] * CryptWeight(i - 1)]
           g == [i \in 1 .. n |-> [s \in Nat |-> s + p[i]]]
<1>n. n \in Nat /\ 0 \in Nat
  OBVIOUS
<1>p. \A i \in 1 .. n : p[i] = limbs[i] * CryptWeight(i - 1) /\ p[i] \in Nat
  <2>1. ASSUME NEW i \in 1 .. n PROVE limbs[i] * CryptWeight(i - 1) \in Nat
    <3> DEFINE a == limbs[i]  w == CryptWeight(i - 1)
    <3>0. i - 1 \in Nat /\ a \in Nat
      OBVIOUS
    <3>1. a \in Nat /\ w \in Nat
      BY <3>0, CryptWeightOf
    <3> HIDE DEF a, w
    <3>2. a * w \in Nat
      BY <3>1
    <3> QED  BY <3>2 DEF a, w
  <2> QED  BY <2>1
<1> HIDE DEF n, p
<1>1. Fits(n, Nat, g) /\ \A i \in 1 .. n : \A s \in Nat : g[i][s] = s + p[i]
  BY <1>p DEF Fits
<1> HIDE DEF g
<1>2. PICK f \in [0 .. n -> Nat] : Run(n, 0, g, f)
  BY <1>n, <1>1, Recursion DEF Runs
<1>3. \A i \in 1 .. n : f[i - 1] \in Nat
  BY <1>n
<1>4. f[0] = 0 /\ \A i \in 1 .. n : f[i] = f[i - 1] + p[i]
  BY <1>1, <1>2, <1>3 DEF Run
<1>5. f = Unrolled(f)
  BY <1>4, <1>p
<1>6. c = Unrolled(c)
  BY <1>5
<1>7. \A i : CryptValue(limbs, i) = c[i]
  BY DEF CryptValue, n
<1> HIDE DEF c
<1> DEFINE e == Unrolled(c)
<1>8. e[0] = 0 /\ \A i \in 1 .. n : e[i] = c[i - 1] + p[i]
  <2>1. \A i \in 0 .. n : e[i] = IF i = 0 THEN 0 ELSE c[i - 1] + limbs[i] * CryptWeight(i - 1)
    OBVIOUS
  <2> HIDE DEF e
  <2> QED  BY <1>n, <1>p, <2>1
<1> HIDE DEF e
<1>9. c[0] = 0 /\ \A i \in 1 .. n : c[i] = c[i - 1] + p[i]
  BY <1>6, <1>8 DEF e
<1>10. \A i \in 0 .. n : c[i] \in Nat
  <2>1. c[0] \in Nat /\ Follows(n, Nat, g, c)
    BY <1>n, <1>1, <1>9 DEF Follows
  <2> QED  BY <1>n, <1>1, <2>1, RunTyped
<1> QED  BY <1>7, <1>9, <1>10, <1>p DEF n

\* One limb more.
LEMMA CryptValueStep ==
  ASSUME NEW limbs \in Seq(Nat), NEW i \in 1 .. Len(limbs)
  PROVE  /\ i - 1 \in 0 .. Len(limbs) /\ i - 1 \in Nat /\ limbs[i] \in Nat
         /\ CryptValue(limbs, i) \in Nat /\ CryptValue(limbs, i - 1) \in Nat
         /\ CryptWeight(i - 1) \in Nat /\ CryptWeight(i) = CryptRadix * CryptWeight(i - 1)
         /\ CryptValue(limbs, i) = CryptValue(limbs, i - 1) + limbs[i] * CryptWeight(i - 1)
<1>1. i - 1 \in 0 .. Len(limbs) /\ i \in 0 .. Len(limbs) /\ i - 1 \in Nat /\ (i - 1) + 1 = i /\ limbs[i] \in Nat
  OBVIOUS
<1>2. CryptWeight(i - 1) \in Nat /\ CryptWeight((i - 1) + 1) = CryptRadix * CryptWeight(i - 1)
  BY <1>1, CryptWeightOf
<1> QED  BY <1>1, <1>2, CryptValueOf

\* What digits stand for is less than what the next limb counts.
LEMMA CryptValueBelow ==
  ASSUME NEW limbs \in Seq(CryptLimb), NEW n \in 0 .. Len(limbs)
  PROVE  CryptValue(limbs, n) \in Nat /\ CryptValue(limbs, n) < CryptWeight(n) /\ CryptWeight(n) \in Nat
<1> DEFINE Q == {i \in 0 .. n : CryptValue(limbs, i) < CryptWeight(i)}
<1>0. limbs \in Seq(Nat) /\ \A i \in 1 .. Len(limbs) : limbs[i] \in Nat /\ limbs[i] + 1 <= CryptRadix
  BY CryptRadixOf DEF CryptLimb
<1>1. 0 \in Q
  BY <1>0, CryptValueOf, CryptWeightOf
<1>2. ASSUME NEW i \in 1 .. n, i - 1 \in Q PROVE i \in Q
  <2> DEFINE v == CryptValue(limbs, i - 1)  w == CryptWeight(i - 1)  d == limbs[i]
  <2>1. i \in 1 .. Len(limbs)
    OBVIOUS
  <2>2. v \in Nat /\ w \in Nat /\ d \in Nat /\ v < w /\ d + 1 <= CryptRadix
        /\ CryptValue(limbs, i) = v + d * w /\ CryptWeight(i) = CryptRadix * w
    BY <1>0, <1>2, <2>1, CryptValueStep
  <2> HIDE DEF v, w, d
  <2>3. w * (d + 1) <= w * CryptRadix
    BY <2>2, CryptRadixOf, Products
  <2>4. w * (d + 1) = d * w + w /\ w * CryptRadix = CryptRadix * w /\ d * w \in Nat /\ CryptRadix * w \in Nat
    BY <2>2, CryptRadixOf
  <2>5. CryptValue(limbs, i) < CryptWeight(i)
    BY <2>2, <2>3, <2>4
  <2> QED  BY <2>5
<1> HIDE DEF Q
<1>3. \A i \in 0 .. n : i \in Q
  BY <1>1, <1>2, SetInduction
<1>4. n \in Q /\ n \in Nat
  BY <1>3
<1> QED  BY <1>0, <1>4, CryptValueOf, CryptWeightOf DEF Q

\* Two arrays that agree in limbs m + 1 to n: their values differ as those of the
\* first m limbs do.
LEMMA CryptValueAgrees ==
  ASSUME NEW x \in Seq(Nat), NEW y \in Seq(Nat), NEW m \in Nat, NEW n \in Nat, m <= n,
         n <= Len(x), n <= Len(y), \A i \in m + 1 .. n : x[i] = y[i]
  PROVE  CryptValue(x, n) + CryptValue(y, m) = CryptValue(y, n) + CryptValue(x, m)
<1> DEFINE Q == {i \in 0 .. n : i >= m =>
                   CryptValue(x, i) + CryptValue(y, m) = CryptValue(y, i) + CryptValue(x, m)}
<1>0. m \in 0 .. Len(x) /\ m \in 0 .. Len(y)
      /\ CryptValue(x, m) \in Nat /\ CryptValue(y, m) \in Nat
  BY CryptValueOf
<1>1. 0 \in Q
  BY <1>0
<1>2. ASSUME NEW i \in 1 .. n, i - 1 \in Q PROVE i \in Q
  <2>1. i \in 1 .. Len(x) /\ i \in 1 .. Len(y)
    OBVIOUS
  <2> DEFINE p == x[i] * CryptWeight(i - 1)
  <2>2. CryptValue(x, i) = CryptValue(x, i - 1) + p /\ CryptValue(x, i - 1) \in Nat /\ CryptValue(x, i) \in Nat
    BY <2>1, CryptValueStep
  <2>3. CryptValue(y, i) = CryptValue(y, i - 1) + y[i] * CryptWeight(i - 1) /\ CryptValue(y, i - 1) \in Nat
        /\ CryptValue(y, i) \in Nat
    BY <2>1, CryptValueStep
  <2>4. p \in Nat
    <3> DEFINE a == x[i]  w == CryptWeight(i - 1)
    <3>1. a \in Nat /\ w \in Nat
      BY <2>1, CryptValueStep
    <3> HIDE DEF a, w
    <3>2. a * w \in Nat
      BY <3>1
    <3> QED  BY <3>2 DEF a, w
  <2>5. CASE i > m
    <3>1. x[i] = y[i] /\ i - 1 >= m
      BY <2>5
    <3>2. CryptValue(y, i) = CryptValue(y, i - 1) + p
      BY <2>3, <3>1
    <3>3. CryptValue(x, i - 1) + CryptValue(y, m) = CryptValue(y, i - 1) + CryptValue(x, m)
      BY <1>2, <3>1
    <3> DEFINE a == CryptValue(x, i - 1)  b == CryptValue(y, i - 1)
               c == CryptValue(x, m)  d == CryptValue(y, m)
    <3>4. /\ a \in Nat /\ b \in Nat /\ c \in Nat /\ d \in Nat /\ p \in Nat /\ a + d = b + c
          /\ CryptValue(x, i) = a + p /\ CryptValue(y, i) = b + p
      BY <1>0, <2>2, <2>3, <2>4, <3>2, <3>3
    <3> HIDE DEF p, a, b, c, d
    <3>5. CryptValue(x, i) + d = CryptValue(y, i) + c
      BY <3>4
    <3> QED  BY <3>5 DEF c, d
  <2>6. CASE i = m
    BY <1>0, <2>6
  <2>7. CASE i < m
    BY <2>7
  <2> QED  BY <2>5, <2>6, <2>7
<1> HIDE DEF Q
<1>3. \A i \in 0 .. n : i \in Q
  BY <1>1, <1>2, SetInduction
<1>4. n \in Q
  BY <1>3
<1> QED  BY <1>4 DEF Q

\* Equal limbs, equal values.
LEMMA CryptValueSame ==
  ASSUME NEW x \in Seq(Nat), NEW y \in Seq(Nat), NEW n \in Nat, n <= Len(x), n <= Len(y),
         \A i \in 1 .. n : x[i] = y[i]
  PROVE  CryptValue(x, n) = CryptValue(y, n) /\ CryptValue(x, n) \in Nat
<1>1. /\ CryptValue(x, 0) = 0 /\ CryptValue(y, 0) = 0
      /\ CryptValue(x, n) \in Nat /\ CryptValue(y, n) \in Nat
  BY CryptValueOf
<1>2. CryptValue(x, n) + CryptValue(y, 0) = CryptValue(y, n) + CryptValue(x, 0)
  BY CryptValueAgrees
<1> QED  BY <1>1, <1>2

\* Zeros above do not count.
LEMMA CryptValueZeros ==
  ASSUME NEW x \in Seq(Nat), NEW m \in Nat, NEW n \in Nat, m <= n, n <= Len(x),
         \A i \in m + 1 .. n : x[i] = 0
  PROVE  CryptValue(x, n) = CryptValue(x, m) /\ CryptValue(x, m) \in Nat
<1> DEFINE Q == {i \in 0 .. n : i >= m => CryptValue(x, i) = CryptValue(x, m)}
<1>1. 0 \in Q
  OBVIOUS
<1>2. ASSUME NEW i \in 1 .. n, i - 1 \in Q PROVE i \in Q
  <2>1. CASE i > m
    <3>1. x[i] = 0 /\ i - 1 >= m /\ i \in 1 .. Len(x)
      BY <2>1
    <3>2. /\ CryptValue(x, i) = CryptValue(x, i - 1) + x[i] * CryptWeight(i - 1)
          /\ CryptValue(x, i - 1) \in Nat /\ CryptWeight(i - 1) \in Nat
      BY <3>1, CryptValueStep
    <3>3. CryptValue(x, i) = CryptValue(x, i - 1)
      BY <3>1, <3>2
    <3> QED  BY <1>2, <3>1, <3>3
  <2>2. CASE ~ (i > m)
    BY <2>2
  <2> QED  BY <2>1, <2>2
<1> HIDE DEF Q
<1>3. \A i \in 0 .. n : i \in Q
  BY <1>1, <1>2, SetInduction
<1>4. n \in Q /\ m \in 0 .. Len(x)
  BY <1>3
<1> QED  BY <1>4, CryptValueOf DEF Q

\* A number splits at a limb.
LEMMA CryptValueSplit ==
  ASSUME NEW x \in Seq(Nat), NEW high \in Seq(Nat), NEW k \in Nat, NEW m \in Nat,
         k + m <= Len(x), m <= Len(high), \A i \in 1 .. m : high[i] = x[i + k]
  PROVE  CryptValue(x, k + m) = CryptValue(x, k) + CryptWeight(k) * CryptValue(high, m)
<1> DEFINE w == CryptWeight(k)  low == CryptValue(x, k)
           Q == {i \in 0 .. m : CryptValue(x, k + i) = low + w * CryptValue(high, i)}
<1>0. k \in 0 .. Len(x) /\ w \in Nat /\ low \in Nat /\ CryptValue(high, 0) = 0
  <2>1. k \in 0 .. Len(x)
    OBVIOUS
  <2>2. CryptValue(high, 0) = 0 /\ low \in Nat
    BY <2>1, CryptValueOf
  <2> QED  BY <2>1, <2>2, CryptWeightOf
<1>1. 0 \in Q
  BY <1>0
<1>2. ASSUME NEW i \in 1 .. m, i - 1 \in Q PROVE i \in Q
  <2> DEFINE v == CryptValue(high, i - 1)  u == CryptWeight(i - 1)  d == high[i]
  <2>1. k + i \in 1 .. Len(x) /\ i \in 1 .. Len(high) /\ (k + i) - 1 = k + (i - 1) /\ i - 1 \in Nat /\ x[k + i] = d
    OBVIOUS
  <2>2. v \in Nat /\ u \in Nat /\ d \in Nat /\ CryptValue(high, i) = v + d * u
    BY <2>1, CryptValueStep
  <2>3. CryptValue(x, k + i) = CryptValue(x, (k + i) - 1) + x[k + i] * CryptWeight((k + i) - 1)
    BY <2>1, CryptValueStep
  <2>4. CryptWeight(k + (i - 1)) = w * u
    BY <2>1, CryptWeightAdd
  <2>5. CryptValue(x, k + (i - 1)) = low + w * v
    BY <1>2
  <2>6. CryptValue(x, k + i) = (low + w * v) + d * (w * u)
    BY <2>1, <2>3, <2>4, <2>5
  <2> HIDE DEF v, u, d, w, low
  <2>7. (low + w * v) + d * (w * u) = low + w * (v + d * u)
    BY <1>0, <2>2
  <2>8. CryptValue(x, k + i) = low + w * CryptValue(high, i)
    BY <2>2, <2>6, <2>7
  <2> QED  BY <2>8
<1> HIDE DEF Q
<1>3. \A i \in 0 .. m : i \in Q
  BY <1>1, <1>2, SetInduction
<1>4. m \in Q
  BY <1>3
<1> QED  BY <1>4 DEF Q, w, low

\* A limb is written.
LEMMA CryptValueWrite ==
  ASSUME NEW x \in Seq(Nat), NEW at \in 1 .. Len(x), NEW d \in Nat
  PROVE  LET y == [x EXCEPT ![at] = d]
         IN  /\ y \in Seq(Nat) /\ Len(y) = Len(x)
             /\ CryptValue(y, Len(x)) + x[at] * CryptWeight(at - 1)
                  = CryptValue(x, Len(x)) + d * CryptWeight(at - 1)
<1> DEFINE y == [x EXCEPT ![at] = d]
           n == Len(x)
           w == CryptWeight(at - 1)
<1>1. y \in Seq(Nat) /\ Len(y) = n /\ y[at] = d /\ \A i \in 1 .. n : i # at => y[i] = x[i]
  OBVIOUS
<1> HIDE DEF y
<1>2. n \in Nat /\ at \in Nat /\ at <= n /\ at - 1 \in Nat /\ x[at] \in Nat
  OBVIOUS
<1>3. CryptValue(x, n) + CryptValue(y, at) = CryptValue(y, n) + CryptValue(x, at)
  <2>1. \A i \in at + 1 .. n : x[i] = y[i]
    BY <1>1, <1>2
  <2>2. y \in Seq(Nat) /\ n <= Len(x) /\ n <= Len(y)
    BY <1>1, <1>2
  <2> HIDE DEF n
  <2> QED  BY <1>2, <2>1, <2>2, CryptValueAgrees
<1>4. CryptValue(x, at - 1) = CryptValue(y, at - 1) /\ CryptValue(x, at - 1) \in Nat
  <2>1. \A i \in 1 .. at - 1 : x[i] = y[i]
    BY <1>1, <1>2
  <2>2. y \in Seq(Nat) /\ at - 1 <= Len(x) /\ at - 1 <= Len(y)
    BY <1>1, <1>2
  <2> QED  BY <1>2, <2>1, <2>2, CryptValueSame
<1>5. CryptValue(x, at) = CryptValue(x, at - 1) + x[at] * w /\ CryptValue(x, at) \in Nat /\ w \in Nat
  BY CryptValueStep
<1>6. CryptValue(y, at) = CryptValue(y, at - 1) + d * w /\ CryptValue(y, at) \in Nat
  BY <1>1, CryptValueStep
<1>7. CryptValue(x, n) \in Nat /\ CryptValue(y, n) \in Nat
  BY <1>1, <1>2, CryptValueOf
<1>8. d * w \in Nat /\ x[at] * w \in Nat
  <2> DEFINE a == x[at]
  <2>1. a \in Nat
    BY <1>2
  <2> HIDE DEF a, w
  <2>2. a * w \in Nat /\ d * w \in Nat
    BY <1>5, <2>1
  <2> QED  BY <2>2 DEF a
<1> DEFINE p == d * w  q == x[at] * w
           a == CryptValue(x, at - 1)  b == CryptValue(x, n)  c == CryptValue(y, n)
<1>e. /\ p \in Nat /\ q \in Nat /\ a \in Nat /\ b \in Nat /\ c \in Nat
      /\ CryptValue(x, at) = a + q /\ CryptValue(y, at) = a + p
      /\ b + CryptValue(y, at) = c + CryptValue(x, at)
  BY <1>3, <1>4, <1>5, <1>6, <1>7, <1>8
<1> HIDE DEF p, q, a, b, c
<1>s. c + q = b + p
  BY <1>e
<1>9. CryptValue(y, n) + q = CryptValue(x, n) + p
  BY <1>s DEF b, c
<1> QED  BY <1>1, <1>9 DEF p, q, y

-----------------------------------------------------------------------------
(* Trimming, shifts by limbs, comparison *)

LEMMA LimbArrayOf ==
  ASSUME NEW x \in LimbArrays
  PROVE  x \in Seq(CryptLimb) /\ x \in Seq(Nat) /\ Len(x) \in Nat \ {0} /\ x \in [1 .. Len(x) -> CryptLimb]
<1>1. PICK cap \in 1 .. CryptLimbs : x \in [1 .. cap -> CryptLimb]
  BY DEF LimbArrays, CryptLimb
<1>2. cap \in Nat \ {0}
  BY CryptUtilAssumption
<1>3. x \in Seq(CryptLimb) /\ Len(x) = cap
  BY <1>1, <1>2
<1>4. x \in Seq(Nat)
  BY <1>3, CryptRadixOf DEF CryptLimb
<1> QED  BY <1>1, <1>2, <1>3, <1>4

\* The state s of the trimming when r limbs are left: none above the length so far
\* is not zero, and a length that was found ends with a limb that is not.
Trimming(limbs, n, r, s) ==
  /\ s \in [n : 0 .. n, found : BOOLEAN]
  /\ \A i \in s.n + 1 .. n : limbs[i] = 0
  /\ IF s.found THEN s.n > r /\ limbs[s.n] # 0 ELSE s.n = Smaller(n, r)

LEMMA TrimPassOf ==
  ASSUME NEW limbs \in Seq(Nat), NEW n \in 0 .. Len(limbs), NEW r \in 1 .. Len(limbs),
         NEW s, Trimming(limbs, n, r, s)
  PROVE  Trimming(limbs, n, r - 1, TrimPass(limbs, s, r))
<1> DEFINE A == s.n - (IF r <= s.n /\ limbs[r] = 0 /\ ~ s.found THEN 1 ELSE 0)
           F == s.found \/ (r <= s.n /\ limbs[r] # 0)
           u == [n |-> A, found |-> F]
<1>1. s \in [n : 0 .. n, found : BOOLEAN] /\ \A i \in s.n + 1 .. n : limbs[i] = 0
  BY DEF Trimming
<1>2. TrimPass(limbs, s, r) = u
  BY Zenon DEF TrimPass
<1>3. F \in BOOLEAN /\ u.n = A /\ u.found = F
  OBVIOUS
<1>4. SUFFICES A \in 0 .. n /\ (\A i \in A + 1 .. n : limbs[i] = 0)
               /\ (F => A > r - 1 /\ limbs[A] # 0) /\ (~ F => A = Smaller(n, r - 1))
  <2> HIDE DEF A, F
  <2>1. ASSUME A \in 0 .. n PROVE u \in [n : 0 .. n, found : BOOLEAN]
    BY <1>3, <2>1
  <2> HIDE DEF u
  <2> QED  BY <1>2, <1>3, <2>1 DEF Trimming
<1>5. CASE s.found
  <2>1. s.n > r /\ limbs[s.n] # 0
    BY <1>5 DEF Trimming
  <2>2. A = s.n /\ F
    BY <1>1, <1>5
  <2> HIDE DEF A, F
  <2> QED  BY <1>1, <2>1, <2>2
<1>6. CASE ~ s.found /\ r <= n
  <2>1. s.n = r
    BY <1>6 DEF Trimming, Smaller
  <2>2. CASE limbs[r] = 0
    <3>1. A = r - 1 /\ ~ F
      BY <1>6, <2>1, <2>2
    <3>2. Smaller(n, r - 1) = r - 1
      BY <1>6 DEF Smaller
    <3> HIDE DEF A, F
    <3> QED  BY <1>1, <1>6, <2>1, <2>2, <3>1, <3>2
  <2>3. CASE limbs[r] # 0
    <3>1. A = r /\ F
      BY <1>6, <2>1, <2>3
    <3> HIDE DEF A, F
    <3> QED  BY <1>1, <1>6, <2>1, <2>3, <3>1
  <2> QED  BY <2>2, <2>3
<1>7. CASE ~ s.found /\ ~ (r <= n)
  <2>1. s.n = n
    BY <1>7 DEF Trimming, Smaller
  <2>2. A = n /\ ~ F
    BY <1>7, <2>1
  <2>3. Smaller(n, r - 1) = n
    BY <1>7 DEF Smaller
  <2> HIDE DEF A, F
  <2> QED  BY <1>1, <2>1, <2>2, <2>3
<1> QED  BY <1>5, <1>6, <1>7

\* The trimmed length ends with a limb that is not zero, and only zeros are above.
LEMMA CryptTrimOf ==
  ASSUME NEW limbs \in Seq(Nat), NEW n \in 0 .. Len(limbs)
  PROVE  /\ CryptTrim(limbs, n) \in 0 .. n
         /\ CryptTrim(limbs, n) = 0 \/ limbs[CryptTrim(limbs, n)] # 0
         /\ \A i \in CryptTrim(limbs, n) + 1 .. n : limbs[i] = 0
<1> DEFINE len == Len(limbs)
           first == [n |-> n, found |-> FALSE]
           S == [n : 0 .. n, found : BOOLEAN]
           next(s, k) == TrimPass(limbs, s, len - k + 1)
           Unrolled(r) == [k \in 0 .. len |-> IF k = 0 THEN first ELSE next(r[k - 1], k)]
           c == CHOOSE r : r = Unrolled(r)
           \* What a pass makes of a state that is none of the trimming does not matter.
           step(s, k) == IF Trimming(limbs, n, len - k + 1, s) THEN next(s, k) ELSE first
           g == [k \in 1 .. len |-> [s \in S |-> step(s, k)]]
<1>n. len \in Nat /\ first \in S
  OBVIOUS
<1>0. ASSUME NEW k \in 1 .. len, NEW s, Trimming(limbs, n, len - k + 1, s)
      PROVE  next(s, k) \in S /\ Trimming(limbs, n, len - k, next(s, k)) /\ s \in S
  <2>1. len - k + 1 \in 1 .. Len(limbs) /\ (len - k + 1) - 1 = len - k
    OBVIOUS
  <2>2. Trimming(limbs, n, (len - k + 1) - 1, TrimPass(limbs, s, len - k + 1))
    BY <1>0, <2>1, TrimPassOf
  <2>3. Trimming(limbs, n, len - k, next(s, k))
    BY <2>1, <2>2
  <2> QED  BY <1>0, <2>3 DEF Trimming
<1>b. Trimming(limbs, n, len, first)
  BY DEF Trimming, Smaller
<1> HIDE DEF len, first, next, S
<1>1. \A k \in 1 .. len : \A s \in S : g[k][s] = step(s, k)
  OBVIOUS
<1>2. Fits(len, S, g)
  BY <1>n, <1>0, <1>1 DEF Fits
<1> HIDE DEF g
<1>3. PICK f \in [0 .. len -> S] : Run(len, first, g, f)
  BY <1>n, <1>2, Recursion DEF Runs
<1>4. f[0] = first /\ \A k \in 1 .. len : f[k - 1] \in S /\ f[k] = step(f[k - 1], k)
  <2>1. \A k \in 1 .. len : f[k - 1] \in S
    BY <1>n
  <2> QED  BY <1>1, <1>3, <2>1 DEF Run
<1> DEFINE Q == {k \in 0 .. len : Trimming(limbs, n, len - k, f[k])}
<1>5. \A k \in 0 .. len : k \in Q
  <2>1. 0 \in Q
    BY <1>n, <1>4, <1>b
  <2>2. ASSUME NEW k \in 1 .. len, k - 1 \in Q PROVE k \in Q
    <3>1. len - (k - 1) = len - k + 1
      BY <1>n
    <3>2. Trimming(limbs, n, len - k + 1, f[k - 1])
      BY <2>2, <3>1
    <3>3. f[k] = next(f[k - 1], k)
      BY <1>4, <3>2
    <3> QED  BY <1>0, <3>2, <3>3
  <2> HIDE DEF Q
  <2> QED  BY <1>n, <2>1, <2>2, SetInduction
<1>6. \A k \in 1 .. len : f[k] = next(f[k - 1], k)
  <2> SUFFICES ASSUME NEW k \in 1 .. len PROVE f[k] = next(f[k - 1], k)
    OBVIOUS
  <2>1. k - 1 \in 0 .. len /\ len - (k - 1) = len - k + 1
    BY <1>n
  <2>2. Trimming(limbs, n, len - k + 1, f[k - 1])
    BY <1>5, <2>1
  <2> QED  BY <1>4, <2>2
<1>7. f = Unrolled(f)
  BY <1>4, <1>6
<1>8. c = Unrolled(c)
  BY <1>7
<1>9. CryptTrim(limbs, n) = c[len].n
  BY DEF CryptTrim, len, first, next
<1> HIDE DEF c
<1> DEFINE e == Unrolled(c)
<1>10. e[0] = first /\ \A k \in 1 .. len : e[k] = next(c[k - 1], k)
  <2>1. \A k \in 0 .. len : e[k] = IF k = 0 THEN first ELSE next(c[k - 1], k)
    OBVIOUS
  <2> HIDE DEF e
  <2> QED  BY <1>n, <2>1
<1> HIDE DEF e
<1>11. c[0] = first /\ \A k \in 1 .. len : c[k] = next(c[k - 1], k)
  BY <1>8, <1>10 DEF e
<1> DEFINE P == {k \in 0 .. len : Trimming(limbs, n, len - k, c[k])}
<1>12. len \in P
  <2>1. 0 \in P
    BY <1>n, <1>11, <1>b
  <2>2. ASSUME NEW k \in 1 .. len, k - 1 \in P PROVE k \in P
    <3>1. len - (k - 1) = len - k + 1
      BY <1>n
    <3>2. Trimming(limbs, n, len - k + 1, c[k - 1])
      BY <2>2, <3>1
    <3> QED  BY <1>0, <1>11, <3>2
  <2> HIDE DEF P
  <2>3. \A k \in 0 .. len : k \in P
    BY <1>n, <2>1, <2>2, SetInduction
  <2> QED  BY <1>n, <2>3
<1>13. Trimming(limbs, n, 0, c[len])
  BY <1>n, <1>12
<1>14. Smaller(n, 0) = 0
  BY DEF Smaller
<1> QED  BY <1>9, <1>13, <1>14 DEF Trimming

LEMMA Remainder ==
  ASSUME NEW n \in Nat, NEW w \in Nat \ {0}, NEW q \in Nat, NEW r \in Nat, r < w, n = q * w + r
  PROVE  n % w = r
<1>1. q * w \in Nat /\ q * w <= n /\ n < q * w + w
  OBVIOUS
<1>2. n \div w = q
  BY <1>1, DivisionUnique
<1>3. n = (n \div w) * w + (n % w) /\ (n % w) \in Nat
  OBVIOUS
<1> DEFINE p == q * w  m == n % w
<1>4. n = p + m /\ n = p + r /\ p \in Nat /\ m \in Nat
  BY <1>1, <1>2, <1>3
<1> HIDE DEF p, m
<1>5. m = r
  BY <1>4
<1> QED  BY <1>5 DEF m

\* Down by limbs is the quotient by their weight.
LEMMA CryptShiftDownOf ==
  ASSUME NEW x \in Seq(CryptLimb), NEW n \in 0 .. Len(x), NEW count \in Nat
  PROVE  LET down == CryptShiftDown(x, n, count)
         IN  /\ CryptValue(down.limbs, down.n) = CryptValue(x, n) \div CryptWeight(count)
             /\ \A i \in 1 .. Len(x) : i > down.n => down.limbs[i] = 0
<1> DEFINE y == [i \in DOMAIN x |-> IF i + count <= n THEN x[i + count] ELSE 0]
           m == IF count >= n THEN 0 ELSE n - count
           w == CryptWeight(count)
           v == CryptValue(x, n)
<1>1. CryptShiftDown(x, n, count).limbs = y /\ CryptShiftDown(x, n, count).n = m
  BY DEF CryptShiftDown
<1>2. x \in Seq(Nat)
  BY CryptRadixOf DEF CryptLimb
<1>3. m \in Nat /\ m <= Len(x) /\ (count >= n => m = 0) /\ (count < n => n = count + m)
  OBVIOUS
<1>4. y \in Seq(Nat) /\ Len(y) = Len(x)
      /\ \A i \in 1 .. Len(x) : y[i] = IF i + count <= n THEN x[i + count] ELSE 0
  <2>1. \A i \in 1 .. Len(x) : i + count <= n => i + count \in 1 .. Len(x) /\ x[i + count] \in Nat
    BY <1>2
  <2>2. \A i \in 1 .. Len(x) : (IF i + count <= n THEN x[i + count] ELSE 0) \in Nat
    BY <2>1
  <2>3. DOMAIN x = 1 .. Len(x)
    OBVIOUS
  <2> QED  BY <2>2, <2>3
<1>5. \A i \in 1 .. Len(x) : i > m => y[i] = 0
  BY <1>3, <1>4
<1>6. w \in Nat \ {0} /\ v \in Nat
  <2>1. w \in Nat /\ w >= 1
    BY CryptWeightPositive
  <2>2. v \in Nat
    BY <1>2, CryptValueOf
  <2> HIDE DEF w
  <2> QED  BY <2>1, <2>2
<1> HIDE DEF y, m
<1>7. v \div w = CryptValue(y, m)
  <2>1. CASE count >= n
    <3>1. v < CryptWeight(n) /\ CryptWeight(n) <= w /\ CryptWeight(n) \in Nat
      BY <2>1, CryptValueBelow, CryptWeightMonotone
    <3>2. CryptValue(y, m) = 0
      BY <1>3, <1>4, <2>1, CryptValueOf
    <3> HIDE DEF v, w
    <3>3. 0 * w <= v /\ v < 0 * w + w
      BY <1>6, <3>1
    <3>4. v \div w = 0
      BY <1>6, <3>3, DivisionUnique
    <3> QED  BY <3>2, <3>4
  <2>2. CASE count < n
    <3> DEFINE low == CryptValue(x, count)  high == CryptValue(y, m)
    <3>1. \A i \in 1 .. m : y[i] = x[i + count]
      BY <1>3, <1>4, <2>2
    <3>2. count + m <= Len(x) /\ n = count + m /\ m <= Len(y) /\ count \in 0 .. Len(x) /\ m \in 0 .. Len(y)
      BY <1>3, <1>4, <2>2
    <3>3. CryptValue(x, count + m) = low + w * high
      BY <1>2, <1>3, <1>4, <3>1, <3>2, CryptValueSplit
    <3>4. low \in Nat /\ low < w
      BY <3>2, CryptValueBelow
    <3>5. high \in Nat
      BY <1>4, <3>2, CryptValueOf
    <3>6. v = low + w * high
      BY <3>2, <3>3
    <3> HIDE DEF v, w, low, high
    <3>7. high * w <= v /\ v < high * w + w
      BY <1>6, <3>4, <3>5, <3>6
    <3>8. v \div w = high
      BY <1>6, <3>5, <3>7, DivisionUnique
    <3> QED  BY <3>8 DEF high
  <2> QED  BY <2>1, <2>2
<1> QED  BY <1>1, <1>5, <1>7 DEF v, w

\* Up by limbs is the product with their weight, of which the array keeps its part.
LEMMA CryptShiftUpOf ==
  ASSUME NEW x \in Seq(CryptLimb), NEW n \in 0 .. Len(x), NEW count \in Nat
  PROVE  LET up == CryptShiftUp(x, n, count)
         IN  /\ CryptValue(up.limbs, up.n) = (CryptValue(x, n) * CryptWeight(count)) % CryptWeight(Len(x))
             /\ \A i \in 1 .. Len(x) : i > up.n => up.limbs[i] = 0
<1> DEFINE cap == Len(x)
           y == [i \in DOMAIN x |-> IF i > count /\ i - count <= n THEN x[i - count] ELSE 0]
           m == IF count >= cap THEN 0 ELSE Smaller(n + count, cap)
           w == CryptWeight(count)
           c == CryptWeight(cap)
           v == CryptValue(x, n)
<1>1. CryptShiftUp(x, n, count).limbs = y /\ CryptShiftUp(x, n, count).n = m
  BY DEF CryptShiftUp
<1>2. x \in Seq(Nat) /\ 0 \in CryptLimb
  BY CryptRadixOf DEF CryptLimb
<1>3. /\ m \in Nat /\ m <= cap /\ cap \in Nat /\ (count >= cap => m = 0)
      /\ count < cap => m >= count /\ m - count <= n /\ (m < cap => m - count = n)
  BY DEF Smaller
<1>4. y \in Seq(CryptLimb) /\ y \in Seq(Nat) /\ Len(y) = cap
      /\ \A i \in 1 .. cap : y[i] = IF i > count /\ i - count <= n THEN x[i - count] ELSE 0
  BY <1>2
<1> HIDE DEF y
<1>5. \A i \in 1 .. cap : i > m => y[i] = 0
  <2>1. CASE count >= cap
    BY <1>4, <2>1
  <2>2. CASE count < cap
    BY <1>3, <1>4, <2>2
  <2> QED  BY <2>1, <2>2
<1> HIDE DEF m
<1>6. w \in Nat \ {0} /\ v \in Nat /\ c \in Nat \ {0}
  <2>1. w \in Nat /\ w >= 1 /\ c \in Nat /\ c >= 1
    BY <1>3, CryptWeightPositive
  <2>2. v \in Nat
    BY <1>2, CryptValueOf
  <2> HIDE DEF w, c
  <2> QED  BY <2>1, <2>2
<1>7. (v * w) % c = CryptValue(y, m)
  <2>1. CASE count >= cap
    <3> DEFINE u == CryptWeight(count - cap)
    <3>1. count - cap \in Nat /\ cap + (count - cap) = count
      BY <2>1
    <3>2. w = c * u /\ u \in Nat
      <4> DEFINE d == count - cap
      <4>1. d \in Nat /\ cap \in Nat /\ cap + d = count
        BY <1>3, <3>1
      <4> HIDE DEF d, cap
      <4>2. CryptWeight(cap + d) = CryptWeight(cap) * CryptWeight(d) /\ CryptWeight(d) \in Nat
        BY <4>1, CryptWeightAdd, CryptWeightOf
      <4> QED  BY <4>1, <4>2 DEF d
    <3>3. CryptValue(y, m) = 0
      BY <1>3, <1>4, <2>1, CryptValueOf
    <3> HIDE DEF v, w, c, u
    <3>4. v * w = (v * u) * c + 0 /\ v * u \in Nat /\ v * w \in Nat
      BY <1>6, <3>2
    <3>5. (v * w) % c = 0
      BY <1>6, <3>4, Remainder
    <3> QED  BY <3>3, <3>5
  <2>2. CASE count < cap
    <3> DEFINE kept == m - count
               low == CryptValue(x, kept)
               val == CryptValue(y, m)
    <3>1. kept \in Nat /\ count + kept = m /\ kept <= n /\ kept <= Len(x) /\ m <= Len(y) /\ count <= Len(y)
      BY <1>3, <1>4, <2>2
    <3>2. val = CryptValue(y, count) + w * low
      <4>1. \A i \in 1 .. kept : x[i] = y[i + count]
        <5> SUFFICES ASSUME NEW i \in 1 .. kept PROVE x[i] = y[i + count]
          OBVIOUS
        <5>1. i + count \in 1 .. cap /\ i + count > count /\ (i + count) - count = i /\ i <= n
          BY <1>3, <3>1
        <5> QED  BY <1>4, <5>1
      <4>2. CryptValue(y, count + kept) = CryptValue(y, count) + w * low
        <5> HIDE DEF kept
        <5> QED  BY <1>2, <1>4, <3>1, <4>1, CryptValueSplit
      <4> QED  BY <3>1, <4>2
    <3>3. CryptValue(y, count) = 0
      <4>1. \A i \in 0 + 1 .. count : y[i] = 0
        BY <1>4, <2>2
      <4>2. CryptValue(y, count) = CryptValue(y, 0)
        BY <1>4, <3>1, <4>1, CryptValueZeros
      <4> QED  BY <1>4, <4>2, CryptValueOf
    <3>4. val \in Nat /\ val < c
      <4>1. m \in 0 .. Len(y)
        BY <1>3, <3>1
      <4>2. val \in Nat /\ val < CryptWeight(m) /\ CryptWeight(m) \in Nat
        BY <1>4, <4>1, CryptValueBelow
      <4>3. CryptWeight(m) <= c
        BY <1>3, CryptWeightMonotone
      <4> QED  BY <1>6, <4>2, <4>3
    <3>5. low \in Nat /\ val = w * low
      <4>1. low \in Nat
        BY <1>2, <3>1, CryptValueOf
      <4> DEFINE p == w * low
      <4>2. p \in Nat
        <5> HIDE DEF w, low
        <5> QED  BY <1>6, <4>1
      <4>3. val = 0 + p
        BY <3>2, <3>3
      <4> HIDE DEF p, val
      <4>4. val = p
        BY <4>2, <4>3
      <4> QED  BY <4>1, <4>4 DEF p
    \* What left the array.
    <3>6. \E q \in Nat : v * w = q * c + val
      <4>1. CASE m < cap
        <5>1. kept = n /\ low = v
          BY <1>3, <2>2, <4>1
        <5>2. v * w = 0 * c + val
          <6> HIDE DEF v, w, c, low, val
          <6> QED  BY <1>6, <3>5, <5>1
        <5> QED  BY <5>2
      <4>2. CASE ~ (m < cap)
        <5> DEFINE rest == n - kept
                   high == [i \in 1 .. rest |-> x[i + kept]]
                   h == CryptValue(high, rest)
                   u == CryptWeight(kept)
        <5>1. m = cap /\ rest \in Nat /\ kept + rest = n
          BY <1>3, <3>1, <4>2
        <5>2. high \in Seq(Nat) /\ Len(high) = rest /\ \A i \in 1 .. rest : high[i] = x[i + kept]
          <6>1. \A i \in 1 .. rest : x[i + kept] \in Nat
            BY <1>2, <3>1, <5>1
          <6> HIDE DEF kept, rest
          <6> QED  BY <5>1, <6>1
        <5> HIDE DEF high
        <5>3. CryptValue(x, kept + rest) = low + u * h
          <6>1. kept + rest <= Len(x) /\ rest <= Len(high)
            BY <5>1, <5>2
          <6> HIDE DEF kept, rest
          <6> QED  BY <1>2, <3>1, <5>1, <5>2, <6>1, CryptValueSplit
        <5>4. h \in Nat /\ u \in Nat
          <6>1. rest \in 0 .. Len(high)
            BY <5>1, <5>2
          <6> QED  BY <3>1, <5>2, <6>1, CryptValueOf, CryptWeightOf
        <5>5. c = w * u
          <6>1. count + kept = cap
            BY <3>1, <5>1
          <6> HIDE DEF kept
          <6>2. CryptWeight(count + kept) = w * u
            BY <3>1, CryptWeightAdd
          <6> QED  BY <6>1, <6>2
        <5>6. v = low + u * h
          BY <5>1, <5>3
        <5> HIDE DEF v, w, c, low, val, h, u
        <5>7. v * w = h * c + val
          <6>1. (low + u * h) * w = h * (w * u) + w * low
            BY <1>6, <3>5, <5>4
          <6> QED  BY <3>5, <5>5, <5>6, <6>1
        <5> QED  BY <5>4, <5>7
      <4> QED  BY <4>1, <4>2
    <3>7. PICK q \in Nat : v * w = q * c + val
      BY <3>6
    <3>8. v * w \in Nat
      <4> HIDE DEF v, w
      <4> QED  BY <1>6
    <3> HIDE DEF v, w, c, val
    <3>9. (v * w) % c = val
      BY <1>6, <3>4, <3>7, <3>8, Remainder
    <3> QED  BY <3>9 DEF val
  <2> QED  BY <2>1, <2>2
<1> QED  BY <1>1, <1>5, <1>7 DEF v, w, c

\* The longer of two numbers without leading zeros is the larger.
LEMMA CryptLonger ==
  ASSUME NEW x \in Seq(CryptLimb), NEW y \in Seq(CryptLimb), Len(x) < Len(y), y[Len(y)] # 0
  PROVE  CryptValue(x, Len(x)) < CryptValue(y, Len(y))
<1> DEFINE n == Len(y)
           d == y[n]  w == CryptWeight(n - 1)  low == CryptValue(y, n - 1)  v == CryptValue(x, Len(x))
<1>1. y \in Seq(Nat) /\ n \in 1 .. Len(y) /\ n - 1 \in Nat /\ Len(x) \in Nat /\ Len(x) <= n - 1 /\ Len(x) \in 0 .. Len(x)
      /\ d # 0
  BY CryptRadixOf DEF CryptLimb
<1>2. CryptValue(y, n) = low + d * w /\ low \in Nat /\ w \in Nat /\ d \in Nat
  BY <1>1, CryptValueStep
<1>3. v \in Nat /\ v < CryptWeight(Len(x)) /\ CryptWeight(Len(x)) \in Nat /\ CryptWeight(Len(x)) <= w
  BY <1>1, CryptValueBelow, CryptWeightMonotone
<1>4. v < CryptValue(y, n)
  <2>1. d >= 1
    BY <1>1, <1>2
  <2> HIDE DEF d, w, low, v, n
  <2>2. w * 1 <= w * d
    BY <1>2, <2>1, Products
  <2>3. w * d = d * w /\ d * w \in Nat
    BY <1>2
  <2> QED  BY <1>2, <1>3, <2>2, <2>3
<1> QED  BY <1>4

\* Arrays that agree above limb m and differ there.
LEMMA CryptDiffers ==
  ASSUME NEW x \in Seq(CryptLimb), NEW y \in Seq(CryptLimb), Len(x) = Len(y), NEW m \in 1 .. Len(x),
         \A i \in m + 1 .. Len(x) : x[i] = y[i], x[m] < y[m]
  PROVE  CryptValue(x, Len(x)) < CryptValue(y, Len(y))
<1> DEFINE n == Len(x)  w == CryptWeight(m - 1)  a == x[m]  b == y[m]
           xn == CryptValue(x, n)  yn == CryptValue(y, n)  xm == CryptValue(x, m)  ym == CryptValue(y, m)
           xl == CryptValue(x, m - 1)  yl == CryptValue(y, m - 1)
<1>1. x \in Seq(Nat) /\ y \in Seq(Nat) /\ m \in Nat /\ n \in Nat /\ m <= n /\ m \in 1 .. Len(y)
      /\ m - 1 \in 0 .. Len(x) /\ n <= Len(x) /\ n <= Len(y) /\ n \in 0 .. Len(x) /\ n \in 0 .. Len(y) /\ n = Len(y)
  BY CryptRadixOf DEF CryptLimb
<1>2. xn + ym = yn + xm
  <2> HIDE DEF n
  <2>1. \A i \in m + 1 .. n : x[i] = y[i]
    BY DEF n
  <2> QED  BY <1>1, <2>1, CryptValueAgrees
<1>3. xm = xl + a * w /\ xm \in Nat /\ xl \in Nat /\ a \in Nat /\ w \in Nat
  BY <1>1, CryptValueStep
<1>4. ym = yl + b * w /\ ym \in Nat /\ yl \in Nat /\ b \in Nat
  BY <1>1, CryptValueStep
<1>5. xl < w
  BY <1>1, CryptValueBelow
<1>6. xn \in Nat /\ yn \in Nat
  BY <1>1, CryptValueOf
<1>7. a + 1 <= b
  BY <1>3, <1>4
<1>8. xn < yn
  <2> HIDE DEF n, w, a, b, xn, yn, xm, ym, xl, yl
  <2>1. w * (a + 1) <= w * b
    BY <1>3, <1>4, <1>7, Products
  <2>2. w * (a + 1) = a * w + w /\ w * b = b * w /\ a * w \in Nat /\ b * w \in Nat
    BY <1>3, <1>4
  <2>3. xm < ym
    BY <1>3, <1>4, <1>5, <2>1, <2>2
  <2> QED  BY <1>2, <1>3, <1>4, <1>6, <2>3
<1> QED  BY <1>1, <1>8

LEMMA CryptCompareOf ==
  ASSUME NEW x \in Seq(CryptLimb), NEW y \in Seq(CryptLimb), Len(x) > 0, Len(y) > 0, x[Len(x)] # 0, y[Len(y)] # 0
  PROVE  LET a == CryptValue(x, Len(x))  b == CryptValue(y, Len(y))
         IN  CryptCompare(x, Len(x), y, Len(y)) = IF a > b THEN 1 ELSE IF a < b THEN -1 ELSE 0
<1> DEFINE xn == Len(x)  yn == Len(y)
           a == CryptValue(x, xn)  b == CryptValue(y, yn)
           xl(i) == IF i <= xn THEN x[i] ELSE 0
           yl(i) == IF i <= yn THEN y[i] ELSE 0
           differing == {i \in 1 .. Larger(xn, yn) : xl(i) # yl(i)}
           result == CryptCompare(x, xn, y, yn)
<1>1. xn \in Nat \ {0} /\ yn \in Nat \ {0} /\ x \in Seq(Nat) /\ y \in Seq(Nat)
      /\ (\A i \in 1 .. xn : x[i] \in Int) /\ (\A i \in 1 .. yn : y[i] \in Int)
  BY CryptRadixOf DEF CryptLimb
<1>2. a \in Nat /\ b \in Nat
  <2>1. xn \in 0 .. Len(x) /\ yn \in 0 .. Len(y)
    BY <1>1
  <2> HIDE DEF xn, yn
  <2> QED  BY <1>1, <2>1, CryptValueOf
<1>3. result = IF xn # yn THEN (IF xn > yn THEN 1 ELSE IF xn < yn THEN -1 ELSE 0)
               ELSE IF differing = {} THEN 0
               ELSE (IF xl(Max(differing)) > yl(Max(differing)) THEN 1
                     ELSE IF xl(Max(differing)) < yl(Max(differing)) THEN -1 ELSE 0)
  BY DEF CryptCompare
<1> HIDE DEF result
<1>4. CASE xn > yn
  <2>1. b < a
    BY <1>4, CryptLonger
  <2> HIDE DEF a, b, differing
  <2>2. result = 1
    BY <1>1, <1>3, <1>4
  <2> QED  BY <1>2, <2>1, <2>2 DEF a, b, result
<1>5. CASE xn < yn
  <2>1. a < b
    BY <1>5, CryptLonger
  <2> HIDE DEF a, b, differing
  <2>2. result = -1
    BY <1>1, <1>3, <1>5
  <2> QED  BY <1>2, <2>1, <2>2 DEF a, b, result
<1>6. CASE xn = yn /\ differing = {}
  <2>1. \A i \in 1 .. xn : x[i] = y[i]
    BY <1>1, <1>6 DEF Larger
  <2>2. a = b
    <3>1. xn \in Nat /\ xn <= Len(x) /\ xn <= Len(y)
      BY <1>1, <1>6
    <3>2. CryptValue(x, xn) = CryptValue(y, xn)
      <4> HIDE DEF xn
      <4> QED  BY <1>1, <2>1, <3>1, CryptValueSame
    <3> QED  BY <1>6, <3>2
  <2> HIDE DEF a, b, differing
  <2>3. result = 0
    BY <1>3, <1>6
  <2> QED  BY <1>2, <2>2, <2>3 DEF a, b, result
<1>7. CASE xn = yn /\ differing # {}
  <2> DEFINE m == Max(differing)
  <2>1. differing \subseteq 1 .. xn
    BY <1>1, <1>7 DEF Larger
  <2>2. m \in differing /\ \A i \in differing : m >= i
    <3> DEFINE up == {xn - i : i \in differing}
    <3>1. up \subseteq Nat /\ up # {}
      <4>1. \A i \in 1 .. xn : xn - i \in Nat
        BY <1>1
      <4> HIDE DEF differing, xn
      <4> QED  BY <1>7, <2>1, <4>1
    <3>2. PICK k \in up : \A i \in up : k <= i
      BY <3>1, LeastNumber
    <3>3. PICK t \in differing : k = xn - t
      BY <3>2
    <3>4. \A i \in differing : t >= i
      <4> SUFFICES ASSUME NEW i \in differing PROVE t >= i
        OBVIOUS
      <4>1. xn - t <= xn - i
        BY <3>2, <3>3
      <4>2. t \in 1 .. xn /\ i \in 1 .. xn
        BY <2>1
      <4> HIDE DEF xn
      <4> QED  BY <1>1, <4>1, <4>2
    <3> HIDE DEF differing
    <3>5. \E s \in differing : \A i \in differing : s >= i
      BY <3>4
    <3> QED  BY <3>5 DEF Max
  <2>3. m \in 1 .. xn /\ xl(m) = x[m] /\ yl(m) = y[m] /\ x[m] # y[m]
    BY <1>7, <2>1, <2>2
  <2>4. \A i \in m + 1 .. xn : x[i] = y[i]
    <3> SUFFICES ASSUME NEW i \in m + 1 .. xn, x[i] # y[i] PROVE FALSE
      OBVIOUS
    <3>1. m \in Nat /\ i \in 1 .. xn /\ ~ (m >= i)
      <4>1. m \in 1 .. xn
        BY <2>3
      <4> HIDE DEF m
      <4> QED  BY <4>1
    <3>2. i \in differing
      BY <1>1, <1>7, <3>1 DEF Larger
    <3> QED  BY <2>2, <3>1, <3>2
  <2>5. x[m] \in Int /\ y[m] \in Int
    BY <1>1, <1>7, <2>3
  <2>6. result = IF x[m] > y[m] THEN 1 ELSE IF x[m] < y[m] THEN -1 ELSE 0
    BY <1>3, <1>7, <2>3
  <2> HIDE DEF m
  <2>7. CASE x[m] < y[m]
    <3>1. a < b
      BY <1>7, <2>3, <2>4, <2>7, CryptDiffers
    <3>2. result = -1
      BY <2>5, <2>6, <2>7
    <3> HIDE DEF a, b
    <3> QED  BY <1>2, <3>1, <3>2 DEF a, b, result
  <2>8. CASE y[m] < x[m]
    <3>1. \A i \in m + 1 .. yn : y[i] = x[i]
      BY <1>7, <2>4
    <3>2. b < a
      BY <1>7, <2>3, <2>8, <3>1, CryptDiffers
    <3>3. result = 1
      BY <2>5, <2>6, <2>8
    <3> HIDE DEF a, b
    <3> QED  BY <1>2, <3>2, <3>3 DEF a, b, result
  <2> QED  BY <2>3, <2>5, <2>7, <2>8
<1> QED  BY <1>1, <1>4, <1>5, <1>6, <1>7

-----------------------------------------------------------------------------
(* Products *)

\* The states of a row: the limbs of the product, of which there are total, and
\* the carry.
RowState(total) == [res : [1 .. total -> CryptLimb], carry : CryptLimb]

LEMMA ResultArray ==
  ASSUME NEW total \in Nat, NEW res \in [1 .. total -> CryptLimb]
  PROVE  res \in Seq(CryptLimb) /\ res \in Seq(Nat) /\ Len(res) = total
<1>1. res \in Seq(CryptLimb) /\ Len(res) = total
  OBVIOUS
<1> QED  BY <1>1, CryptRadixOf DEF CryptLimb

\* Quotient and remainder by the radix.
LEMMA RadixDivision ==
  ASSUME NEW n \in Nat
  PROVE  /\ n \div CryptRadix \in Nat /\ (n % CryptRadix) \in CryptLimb
         /\ n = CryptRadix * (n \div CryptRadix) + (n % CryptRadix)
<1> DEFINE b == CryptRadix
<1>1. b \in Nat \ {0}
  BY CryptRadixOf
<1> HIDE DEF b
<1>2. n \div b \in Nat /\ (n % b) \in Nat /\ (n % b) < b /\ n = b * (n \div b) + (n % b)
  BY <1>1
<1>3. (n % b) \in 0 .. b - 1
  BY <1>1, <1>2
<1> QED  BY <1>2, <1>3 DEF b, CryptLimb

\* A sum of two limbs wraps once at most, which shows in either summand.
LEMMA LimbSum ==
  ASSUME NEW a \in CryptLimb, NEW b \in CryptLimb
  PROVE  LET sum == (a + b) % CryptRadix
         IN  /\ sum \in CryptLimb
             /\ a + b = sum + (IF sum < a THEN CryptRadix ELSE 0)
             /\ a + b = sum + (IF sum < b THEN CryptRadix ELSE 0)
<1> DEFINE r == CryptRadix  q == (a + b) \div r  sum == (a + b) % r
<1>1. r \in Nat /\ r >= 2 /\ a \in 0 .. r - 1 /\ b \in 0 .. r - 1
  BY CryptRadixOf DEF CryptLimb
<1>2. q \in Nat /\ sum \in 0 .. r - 1 /\ a + b = r * q + sum
  BY <1>1, RadixDivision DEF CryptLimb
<1> HIDE DEF r, q, sum
<1>3. q = 0 \/ q = 1
  <2>1. ASSUME q >= 2 PROVE FALSE
    <3>1. r * 2 <= r * q
      BY <1>1, <1>2, <2>1, Products
    <3>2. r * q \in Nat
      BY <1>1, <1>2
    <3> DEFINE p == r * q
    <3>3. p \in Nat /\ r * 2 <= p /\ a + b = p + sum
      BY <1>2, <3>1, <3>2
    <3> HIDE DEF p
    <3> QED  BY <1>1, <1>2, <3>3
  <2> QED  BY <1>2, <2>1
<1>4. a + b = sum \/ a + b = r + sum
  BY <1>1, <1>2, <1>3
<1>5. sum \in CryptLimb
  BY <1>2 DEF CryptLimb, r
<1>6. a + b = sum + (IF sum < a THEN r ELSE 0) /\ a + b = sum + (IF sum < b THEN r ELSE 0)
  BY <1>1, <1>2, <1>4
<1> QED  BY <1>5, <1>6 DEF sum, r

\* The high word of a product of limbs leaves room for a carry.
LEMMA LimbProduct ==
  ASSUME NEW a \in CryptLimb, NEW b \in CryptLimb
  PROVE  LET hi == (a * b) \div CryptRadix  lo == (a * b) % CryptRadix
         IN  lo \in CryptLimb /\ hi \in Nat /\ hi + 1 \in CryptLimb /\ a * b = CryptRadix * hi + lo
<1> DEFINE r == CryptRadix  p == a * b  hi == p \div r  lo == p % r
<1>1. r \in Nat /\ r >= 2 /\ a \in Nat /\ b \in Nat /\ a <= r - 1 /\ b <= r - 1 /\ r - 1 \in Nat
  BY CryptRadixOf DEF CryptLimb
<1>2. p \in Nat
  BY <1>1
<1>3. lo \in CryptLimb /\ lo \in Nat /\ hi \in Nat /\ p = r * hi + lo
  <2> HIDE DEF p
  <2> QED  BY <1>2, RadixDivision DEF CryptLimb
<1>4. p <= (r - 1) * (r - 1)
  <2>1. a * b <= a * (r - 1)
    BY <1>1, Products
  <2>2. (r - 1) * a <= (r - 1) * (r - 1)
    BY <1>1, Products
  <2>3. (r - 1) * a = a * (r - 1) /\ a * (r - 1) \in Nat /\ (r - 1) * (r - 1) \in Nat
    BY <1>1
  <2> QED  BY <1>2, <2>1, <2>2, <2>3
<1> HIDE DEF p, hi, lo
<1>5. hi <= r - 2
  <2>1. ASSUME hi >= r - 1 PROVE FALSE
    <3>1. r * (r - 1) <= r * hi
      BY <1>1, <1>3, <2>1, Products
    <3>2. r * (r - 1) = (r - 1) * (r - 1) + (r - 1) /\ (r - 1) * (r - 1) \in Nat /\ r * hi \in Nat
      BY <1>1, <1>3
    <3> DEFINE s == (r - 1) * (r - 1)  t == r * hi
    <3>3. s \in Nat /\ t \in Nat /\ s + (r - 1) <= t /\ p <= s /\ p = t + lo
      BY <1>3, <1>4, <3>1, <3>2
    <3> HIDE DEF s, t
    <3> QED  BY <1>1, <1>3, <3>3
  <2> QED  BY <1>1, <1>3, <2>1
<1>6. hi + 1 \in CryptLimb
  BY <1>1, <1>3, <1>5 DEF CryptLimb
<1> QED  BY <1>3, <1>6 DEF p, hi, lo

\* From s to u limb at is written, and p and the carry are added to it; what goes up
\* may be too little, but not where the limb was zero.
Adds(s, u, at, p) ==
  \E d \in CryptLimb :
    /\ u.res = [s.res EXCEPT ![at] = d]
    /\ d + CryptRadix * u.carry <= s.res[at] + p + s.carry
    /\ s.res[at] = 0 => d + CryptRadix * u.carry = s.res[at] + p + s.carry

\* A pass writes its limb; it adds the product and the carry but for a carry it may
\* lose, which it does not when the limb was zero.
LEMMA ProductPassOf ==
  ASSUME NEW total \in Nat, NEW s \in RowState(total), NEW at \in 1 .. total, NEW a \in CryptLimb, NEW b \in CryptLimb
  PROVE  ProductPass(s, at, a, b) \in RowState(total) /\ Adds(s, ProductPass(s, at, a, b), at, a * b)
<1> DEFINE r == CryptRadix
           old == s.res[at]
           lo == (a * b) % r
           hi == (a * b) \div r
           sum == (old + lo) % r
           sum2 == (sum + s.carry) % r
           carry == hi + (IF sum < lo \/ sum2 < lo THEN 1 ELSE 0)
           u == [res |-> [s.res EXCEPT ![at] = sum2], carry |-> carry]
<1>1. ProductPass(s, at, a, b) = u
  BY DEF ProductPass
<1>2. s.res \in [1 .. total -> CryptLimb] /\ s.carry \in CryptLimb /\ old \in CryptLimb
  BY DEF RowState
<1>3. lo \in CryptLimb /\ hi \in Nat /\ hi + 1 \in CryptLimb /\ a * b = r * hi + lo
  BY LimbProduct
<1> HIDE DEF lo, hi
<1>4. sum \in CryptLimb /\ old + lo = sum + (IF sum < lo THEN r ELSE 0) /\ old + lo = sum + (IF sum < old THEN r ELSE 0)
  BY <1>2, <1>3, LimbSum
<1>5. sum2 \in CryptLimb /\ sum + s.carry = sum2 + (IF sum2 < sum THEN r ELSE 0)
  <2> HIDE DEF sum
  <2> QED  BY <1>2, <1>4, LimbSum
<1> HIDE DEF old, sum, sum2
<1>6. r \in Nat /\ r >= 2 /\ \A i \in CryptLimb : i \in Nat /\ i <= r - 1
  BY CryptRadixOf DEF CryptLimb
<1>7. carry \in CryptLimb /\ (carry = hi \/ carry = hi + 1)
  BY <1>3, <1>6 DEF CryptLimb
<1>8. u \in RowState(total) /\ u.res = [s.res EXCEPT ![at] = sum2] /\ u.carry = carry
  <2> HIDE DEF carry
  <2> QED  BY <1>2, <1>5, <1>7 DEF RowState
<1>9. /\ sum2 + r * carry <= old + a * b + s.carry
      /\ old = 0 => sum2 + r * carry = old + a * b + s.carry
  <2> DEFINE h == r * hi  c == s.carry
  <2>1. h \in Nat /\ c \in Nat /\ lo \in Nat /\ old \in Nat /\ sum \in Nat /\ sum2 \in Nat /\ sum <= r - 1 /\ sum2 <= r - 1
        /\ lo <= r - 1 /\ c <= r - 1
    BY <1>2, <1>3, <1>4, <1>5, <1>6
  <2>2. a * b = h + lo
    BY <1>3
  <2>3. r * carry = h + (IF sum < lo \/ sum2 < lo THEN r ELSE 0)
    <3>1. CASE sum < lo \/ sum2 < lo
      <4>1. carry = hi + 1
        BY <3>1
      <4> HIDE DEF carry
      <4>2. r * (hi + 1) = r * hi + r
        BY <1>3, <1>6
      <4> QED  BY <3>1, <4>1, <4>2
    <3>2. CASE ~ (sum < lo \/ sum2 < lo)
      <4>1. carry = hi
        BY <1>3, <3>2
      <4> HIDE DEF carry
      <4> QED  BY <2>1, <3>2, <4>1
    <3> QED  BY <3>1, <3>2
  <2> DEFINE m == r * carry  p == a * b
  <2>4. m = h + (IF sum < lo \/ sum2 < lo THEN r ELSE 0) /\ p = h + lo
        /\ sum + c = sum2 + (IF sum2 < sum THEN r ELSE 0)
        /\ old + lo = sum + (IF sum < lo THEN r ELSE 0) /\ old + lo = sum + (IF sum < old THEN r ELSE 0)
    BY <1>4, <1>5, <2>2, <2>3
  <2> HIDE DEF m, p, h, c
  <2>5. sum2 + m <= old + p + c
    BY <1>6, <2>1, <2>4
  <2>6. old = 0 => sum2 + m = old + p + c
    BY <1>6, <2>1, <2>4
  <2> QED  BY <2>5, <2>6 DEF m, p, c
<1>10. Adds(s, u, at, a * b)
  <2> HIDE DEF u, carry
  <2> QED  BY <1>5, <1>8, <1>9 DEF Adds, old
<1> QED  BY <1>1, <1>8, <1>10

\* A pass of the carry.
LEMMA RipplePassOf ==
  ASSUME NEW total \in Nat, NEW s \in RowState(total), NEW at \in 1 .. total
  PROVE  LET u == RipplePass(s, at)
         IN  \E d \in CryptLimb :
               /\ u \in RowState(total) /\ u.res = [s.res EXCEPT ![at] = d]
               /\ d + CryptRadix * u.carry = s.res[at] + s.carry
<1> DEFINE old == s.res[at]
           sum == (old + s.carry) % CryptRadix
           carry == IF sum < s.carry THEN 1 ELSE 0
           u == [res |-> [s.res EXCEPT ![at] = sum], carry |-> carry]
<1>1. RipplePass(s, at) = u
  BY DEF RipplePass
<1>2. s.res \in [1 .. total -> CryptLimb] /\ s.carry \in CryptLimb /\ old \in CryptLimb
  BY DEF RowState
<1>3. sum \in CryptLimb /\ old + s.carry = sum + (IF sum < s.carry THEN CryptRadix ELSE 0)
  <2> HIDE DEF old
  <2> QED  BY <1>2, LimbSum
<1> HIDE DEF old, sum
<1>4. carry \in CryptLimb
  BY CryptRadixOf DEF CryptLimb
<1>5. u \in RowState(total) /\ u.res = [s.res EXCEPT ![at] = sum] /\ u.carry = carry
  <2> HIDE DEF carry
  <2> QED  BY <1>2, <1>3, <1>4 DEF RowState
<1>6. CryptRadix * carry = IF sum < s.carry THEN CryptRadix ELSE 0
  BY CryptRadixOf
<1>7. sum + CryptRadix * carry = old + s.carry
  BY <1>3, <1>6
<1> QED  BY <1>1, <1>3, <1>5, <1>7 DEF old

\* What a state of a row is worth before limb at: the limbs and the carry.
RowValue(total, s, at) == CryptValue(s.res, total) + s.carry * CryptWeight(at - 1)

LEMMA RowValueOf ==
  ASSUME NEW total \in Nat, NEW s \in RowState(total), NEW at \in Nat \ {0}
  PROVE  /\ CryptValue(s.res, total) \in Nat /\ s.carry \in Nat /\ CryptWeight(at - 1) \in Nat
         /\ s.carry * CryptWeight(at - 1) \in Nat /\ RowValue(total, s, at) \in Nat
<1>1. s.res \in [1 .. total -> CryptLimb] /\ s.carry \in CryptLimb
  BY DEF RowState
<1>2. s.carry \in Nat /\ at - 1 \in Nat /\ total \in 0 .. total
  BY <1>1, CryptRadixOf DEF CryptLimb
<1>3. CryptValue(s.res, total) \in Nat /\ CryptWeight(at - 1) \in Nat
  BY <1>1, <1>2, ResultArray, CryptValueOf, CryptWeightOf
<1> DEFINE v == CryptValue(s.res, total)  w == CryptWeight(at - 1)  c == s.carry
<1>4. c * w \in Nat /\ v + c * w \in Nat
  <2>1. v \in Nat /\ w \in Nat /\ c \in Nat
    BY <1>2, <1>3
  <2> HIDE DEF v, w, c
  <2> QED  BY <2>1
<1> QED  BY <1>2, <1>3, <1>4 DEF RowValue

\* A limb is written and a carry goes on: how that changes the worth.
LEMMA RowValueStep ==
  ASSUME NEW total \in Nat, NEW s \in RowState(total), NEW at \in 1 .. total, NEW d \in CryptLimb,
         NEW u \in RowState(total), u.res = [s.res EXCEPT ![at] = d], NEW p \in Nat
  PROVE  /\ d + CryptRadix * u.carry <= s.res[at] + p + s.carry =>
              RowValue(total, u, at + 1) <= RowValue(total, s, at) + p * CryptWeight(at - 1)
         /\ d + CryptRadix * u.carry = s.res[at] + p + s.carry =>
              RowValue(total, u, at + 1) = RowValue(total, s, at) + p * CryptWeight(at - 1)
<1> DEFINE w == CryptWeight(at - 1)  x == s.res  old == x[at]  c == s.carry  e == u.carry  r == CryptRadix
           v == CryptValue(x, total)  z == CryptValue(u.res, total)
<1>1. x \in [1 .. total -> CryptLimb] /\ c \in Nat /\ e \in Nat /\ old \in Nat /\ d \in Nat /\ r \in Nat
  BY CryptRadixOf DEF RowState, CryptLimb
<1>2. x \in Seq(Nat) /\ Len(x) = total /\ at \in 1 .. Len(x)
  BY <1>1, ResultArray
<1>3. z + old * w = v + d * w
  <2> HIDE DEF x, w
  <2>1. CryptValue([x EXCEPT ![at] = d], Len(x)) + x[at] * CryptWeight(at - 1)
          = CryptValue(x, Len(x)) + d * CryptWeight(at - 1)
    BY <1>1, <1>2, CryptValueWrite
  <2> QED  BY <1>2, <2>1 DEF w, x
<1>4. at - 1 \in Nat /\ (at - 1) + 1 = at /\ at \in Nat \ {0} /\ at + 1 \in Nat \ {0} /\ (at + 1) - 1 = at
  OBVIOUS
<1>5. w \in Nat /\ CryptWeight(at) = r * w
  BY <1>4, CryptWeightOf
<1>6. v \in Nat /\ z \in Nat
  BY <1>4, RowValueOf
<1>7. RowValue(total, s, at) = v + c * w /\ RowValue(total, u, at + 1) = z + e * (r * w)
  BY <1>4, <1>5 DEF RowValue
<1> HIDE DEF w, x, old, c, e, r, v, z
<1>8. e * (r * w) = w * (r * e) /\ r * e \in Nat
  BY <1>1, <1>5
<1> DEFINE f == r * e  k == w * f  n == w * old  m == w * d  q == w * p  g == w * c
<1>9. /\ old * w = n /\ d * w = m /\ p * w = q /\ c * w = g
      /\ k \in Nat /\ n \in Nat /\ m \in Nat /\ q \in Nat /\ g \in Nat
      /\ w * (d + f) = m + k /\ w * (old + p + c) = n + q + g
  BY <1>1, <1>5, <1>8
<1>10. z + n = v + m /\ RowValue(total, s, at) = v + g /\ RowValue(total, u, at + 1) = z + k
  BY <1>3, <1>7, <1>8, <1>9
<1>11. d + f <= old + p + c => m + k <= n + q + g
  <2>1. d + f \in Nat /\ old + p + c \in Nat
    BY <1>1, <1>8
  <2> HIDE DEF f
  <2>2. d + f <= old + p + c => w * (d + f) <= w * (old + p + c)
    BY <1>5, <2>1, Products
  <2> QED  BY <1>9, <2>2
<1>12. d + f = old + p + c => m + k = n + q + g
  BY <1>9
<1> HIDE DEF f, k, n, m, q, g
<1>13. d + f <= old + p + c => z + k <= (v + g) + q
  BY <1>6, <1>9, <1>10, <1>11
<1>14. d + f = old + p + c => z + k = (v + g) + q
  BY <1>6, <1>9, <1>10, <1>12
<1> QED  BY <1>9, <1>10, <1>13, <1>14 DEF f, w, x, old, c, e, r

\* What that is for a pass, and that it touches no other limb.
Raised(total, s, u, at, p) ==
  /\ RowValue(total, u, at + 1) <= RowValue(total, s, at) + p * CryptWeight(at - 1)
  /\ s.res[at] = 0 => RowValue(total, u, at + 1) = RowValue(total, s, at) + p * CryptWeight(at - 1)
  /\ \A i \in 1 .. total : i # at => u.res[i] = s.res[i]

LEMMA RowAdds ==
  ASSUME NEW total \in Nat, NEW s \in RowState(total), NEW at \in 1 .. total,
         NEW u \in RowState(total), NEW p \in Nat, Adds(s, u, at, p)
  PROVE  Raised(total, s, u, at, p)
<1>1. PICK d \in CryptLimb :
        /\ u.res = [s.res EXCEPT ![at] = d]
        /\ d + CryptRadix * u.carry <= s.res[at] + p + s.carry
        /\ s.res[at] = 0 => d + CryptRadix * u.carry = s.res[at] + p + s.carry
  BY DEF Adds
<1>2. \A i \in 1 .. total : i # at => u.res[i] = s.res[i]
  <2>1. s.res \in [1 .. total -> CryptLimb]
    BY DEF RowState
  <2> QED  BY <1>1, <2>1
<1> QED  BY <1>1, <1>2, RowValueStep DEF Raised

\* The state after one row: the product of the limb a with the number y was added at
\* limb at, but for the carries that are lost; none is where there was nothing before.
RowAdded(total, res, at, a, y, s) ==
  LET n == Len(y)
      added == CryptValue(res, total) + a * CryptWeight(at - 1) * CryptValue(y, n)
  IN  /\ s \in RowState(total) /\ RowValue(total, s, at + n) <= added
      /\ (\A i \in at .. total : res[i] = 0) => RowValue(total, s, at + n) = added

LEMMA ProductRowOf ==
  ASSUME NEW total \in Nat, NEW res \in [1 .. total -> CryptLimb], NEW y \in Seq(CryptLimb), NEW a \in CryptLimb,
         NEW at \in Nat \ {0}, at + Len(y) <= total + 1
  PROVE  RowAdded(total, res, at, a, y, ProductRow(res, at, a, y))
<1> DEFINE n == Len(y)
           S == RowState(total)
           first == [res |-> res, carry |-> 0]
           next(s, j) == ProductPass(s, at + j - 1, a, y[j])
           Unrolled(f) == [j \in 0 .. n |-> IF j = 0 THEN first ELSE next(f[j - 1], j)]
           c == CHOOSE f : f = Unrolled(f)
           g == [j \in 1 .. n |-> [s \in S |-> next(s, j)]]
<1>n. n \in Nat /\ first \in S
  BY CryptRadixOf DEF RowState, CryptLimb
<1>0. ASSUME NEW j \in 1 .. n, NEW s \in S
      PROVE  next(s, j) \in S /\ Adds(s, next(s, j), at + j - 1, a * y[j])
  <2>1. at + j - 1 \in 1 .. total /\ y[j] \in CryptLimb
    OBVIOUS
  <2> QED  BY <2>1, ProductPassOf
<1> HIDE DEF n, S, next
<1>1. \A j \in 1 .. n : \A s \in S : g[j][s] = next(s, j)
  OBVIOUS
<1>2. Fits(n, S, g)
  BY <1>0, <1>1 DEF Fits
<1> HIDE DEF g, first
<1>3. PICK f \in [0 .. n -> S] : Run(n, first, g, f)
  BY <1>n, <1>2, Recursion DEF Runs
<1>4. f[0] = first /\ \A j \in 1 .. n : f[j] = next(f[j - 1], j)
  <2>1. \A j \in 1 .. n : f[j - 1] \in S
    BY <1>n
  <2> QED  BY <1>1, <1>3, <2>1 DEF Run
<1>5. f = Unrolled(f)
  BY <1>4
<1>6. c = Unrolled(c)
  BY <1>5
<1>7. ProductRow(res, at, a, y) = c[n]
  BY DEF ProductRow, n, first, next
<1> HIDE DEF c
<1> DEFINE e == Unrolled(c)
<1>8. e[0] = first /\ \A j \in 1 .. n : e[j] = next(c[j - 1], j)
  <2>1. \A j \in 0 .. n : e[j] = IF j = 0 THEN first ELSE next(c[j - 1], j)
    OBVIOUS
  <2> HIDE DEF e
  <2> QED  BY <1>n, <2>1
<1> HIDE DEF e
<1>9. c[0] = first /\ \A j \in 1 .. n : c[j] = next(c[j - 1], j)
  BY <1>6, <1>8 DEF e
<1>10. \A j \in 0 .. n : c[j] \in S
  <2>1. c[0] \in S /\ Follows(n, S, g, c)
    BY <1>n, <1>1, <1>9 DEF Follows
  <2> QED  BY <1>n, <1>2, <2>1, RunTyped
<1> DEFINE k == a * CryptWeight(at - 1)
           v == CryptValue(res, total)
           Empty == \A i \in at .. total : res[i] = 0
           P(j) == /\ RowValue(total, c[j], at + j) <= v + k * CryptValue(y, j)
                   /\ Empty => /\ RowValue(total, c[j], at + j) = v + k * CryptValue(y, j)
                               /\ \A i \in at + j .. total : c[j].res[i] = 0
           Q == {j \in 0 .. n : P(j)}
<1>11. y \in Seq(Nat) /\ a \in Nat /\ k \in Nat /\ v \in Nat /\ at - 1 \in Nat
  <2>1. y \in Seq(Nat) /\ a \in Nat /\ at - 1 \in Nat
    BY CryptRadixOf DEF CryptLimb
  <2>2. CryptWeight(at - 1) \in Nat
    BY <2>1, CryptWeightOf
  <2> DEFINE w == CryptWeight(at - 1)
  <2>3. a * w \in Nat
    <3>1. w \in Nat
      BY <2>2
    <3> HIDE DEF w
    <3> QED  BY <2>1, <3>1
  <2>4. v \in Nat
    <3>1. total \in 0 .. total
      OBVIOUS
    <3> QED  BY <3>1, ResultArray, CryptValueOf
  <2> QED  BY <2>1, <2>3, <2>4
<1>12. 0 \in Q
  <2>1. CryptValue(y, 0) = 0
    BY <1>11, CryptValueOf
  <2>2. c[0].res = res /\ c[0].carry = 0
    BY <1>9 DEF first
  <2>3. RowValue(total, c[0], at + 0) = v + 0 * CryptWeight(at - 1)
    BY <2>2 DEF RowValue
  <2>4. CryptWeight(at - 1) \in Nat
    BY <1>11, CryptWeightOf
  <2>5. RowValue(total, c[0], at + 0) = v + k * CryptValue(y, 0)
    <3> HIDE DEF k, v
    <3> QED  BY <1>11, <2>1, <2>3, <2>4
  <2>6. \A i \in at + 0 .. total : i \in at .. total
    OBVIOUS
  <2>7. RowValue(total, c[0], at + 0) \in Nat
    <3>1. c[0] \in RowState(total) /\ at + 0 \in Nat \ {0}
      BY <1>9, <1>n DEF S
    <3> QED  BY <3>1, RowValueOf
  <2> HIDE DEF k, v
  <2> QED  BY <1>n, <2>2, <2>5, <2>6, <2>7
<1>13. ASSUME NEW j \in 1 .. n, j - 1 \in Q PROVE j \in Q
  <2> DEFINE s == c[j - 1]  u == c[j]  pos == at + j - 1  b == y[j]  w == CryptWeight(pos - 1)
             low == CryptValue(y, j - 1)
  <2>1. /\ j \in 1 .. Len(y) /\ j - 1 \in 0 .. n /\ j \in 0 .. n /\ pos \in 1 .. total /\ pos \in Nat \ {0}
        /\ pos + 1 = at + j /\ at + (j - 1) = pos /\ pos - 1 = (at - 1) + (j - 1) /\ j - 1 \in Nat
    BY DEF n
  <2>2. s \in S /\ u \in S /\ u = next(s, j)
    BY <1>9, <1>10, <2>1
  <2>3. Adds(s, u, pos, a * b)
    <3>1. Adds(s, next(s, j), at + j - 1, a * y[j])
      BY <1>0, <2>2
    <3> QED  BY <2>2, <3>1
  <2>4. CryptValue(y, j) = low + b * CryptWeight(j - 1) /\ low \in Nat /\ b \in Nat /\ CryptWeight(j - 1) \in Nat
    BY <1>11, <2>1, CryptValueStep
  <2>5. w = CryptWeight(at - 1) * CryptWeight(j - 1) /\ CryptWeight(at - 1) \in Nat
    BY <1>11, <2>1, CryptWeightAdd, CryptWeightOf
  <2>6. k * CryptValue(y, j) = k * low + (a * b) * w /\ k * low \in Nat /\ (a * b) * w \in Nat
    <3> DEFINE h == CryptWeight(at - 1)  q == CryptWeight(j - 1)
    <3>1. h \in Nat /\ q \in Nat
      BY <2>4, <2>5
    <3> HIDE DEF h, q, low, b
    <3>2. (a * h) * (low + b * q) = (a * h) * low + (a * b) * (h * q)
      BY <1>11, <2>4, <3>1
    <3>3. (a * h) * low \in Nat /\ (a * b) * (h * q) \in Nat
      BY <1>11, <2>4, <3>1
    <3> QED  BY <2>4, <2>5, <3>2, <3>3 DEF h, q
  <2> DEFINE p == a * b  z == p * w  sv == RowValue(total, s, pos)  uv == RowValue(total, u, at + j)
  <2>7. p \in Nat
    <3> HIDE DEF b
    <3> QED  BY <1>11, <2>4
  <2>8. /\ uv <= sv + z /\ (s.res[pos] = 0 => uv = sv + z)
        /\ \A i \in 1 .. total : i # pos => u.res[i] = s.res[i]
    <3>1. Adds(s, u, pos, p) /\ s \in RowState(total) /\ u \in RowState(total)
      BY <2>2, <2>3 DEF S
    <3> HIDE DEF pos, s, u, p
    <3>2. Raised(total, s, u, pos, p)
      BY <2>1, <2>7, <3>1, RowAdds
    <3> QED  BY <2>1, <3>2 DEF Raised
  <2>9. sv \in Nat /\ uv \in Nat
    <3>1. at + j \in Nat \ {0}
      OBVIOUS
    <3> HIDE DEF pos, s, u
    <3> QED  BY <2>1, <2>2, <3>1, RowValueOf DEF S
  <2>10. /\ sv <= v + k * low
         /\ Empty => sv = v + k * low /\ \A i \in pos .. total : s.res[i] = 0
    <3>1. P(j - 1)
      BY <1>13
    <3> QED  BY <2>1, <3>1
  <2>11. uv <= sv + z /\ (Empty => uv = sv + z)
    <3>1. Empty => s.res[pos] = 0
      BY <2>1, <2>10
    <3> HIDE DEF uv, sv, z, s, u, pos, b, Empty
    <3> QED  BY <2>8, <3>1
  <2>12. Empty => \A i \in at + j .. total : u.res[i] = 0
    <3> SUFFICES ASSUME Empty, NEW i \in at + j .. total PROVE u.res[i] = 0
      OBVIOUS
    <3>1. i \in 1 .. total /\ i # pos /\ i \in pos .. total
      BY <2>1
    <3> HIDE DEF s, u, pos
    <3>2. u.res[i] = s.res[i]
      BY <2>8, <3>1
    <3> QED  BY <2>10, <3>1, <3>2
  <2> DEFINE t == k * low
  <2>13. /\ k * CryptValue(y, j) = t + z /\ t \in Nat /\ z \in Nat
         /\ sv <= v + t /\ (Empty => sv = v + t)
    BY <2>6, <2>10
  <2> HIDE DEF t, z, sv, uv, v, k, Empty
  <2>14. uv <= v + (t + z) /\ (Empty => uv = v + (t + z))
    BY <1>11, <2>9, <2>11, <2>13
  <2>15. P(j)
    BY <2>12, <2>13, <2>14 DEF uv
  <2> QED  BY <2>1, <2>15
<1> HIDE DEF Q
<1>14. n \in Q
  <2>1. \A j \in 0 .. n : j \in Q
    BY <1>n, <1>12, <1>13, SetInduction
  <2> QED  BY <1>n, <2>1
<1>15. P(n) /\ c[n] \in S
  BY <1>n, <1>10, <1>14 DEF Q
<1> QED  BY <1>7, <1>15 DEF n, S, RowAdded

\* The carry goes up as far as it is let; the worth stays.
LEMMA RippleUpOf ==
  ASSUME NEW total \in Nat, NEW s0 \in RowState(total), NEW at \in Nat \ {0}, NEW above \in Nat,
         at + above <= total + 1
  PROVE  LET s == RippleUp(s0, at, above)
         IN  s \in RowState(total) /\ RowValue(total, s, at + above) = RowValue(total, s0, at)
<1> DEFINE S == RowState(total)
           next(s, j) == RipplePass(s, at + j - 1)
           Unrolled(f) == [j \in 0 .. above |-> IF j = 0 THEN s0 ELSE next(f[j - 1], j)]
           c == CHOOSE f : f = Unrolled(f)
           g == [j \in 1 .. above |-> [s \in S |-> next(s, j)]]
<1>n. s0 \in S
  OBVIOUS
<1>0. ASSUME NEW j \in 1 .. above, NEW s \in S
      PROVE  next(s, j) \in S /\ RowValue(total, next(s, j), at + j) = RowValue(total, s, at + (j - 1))
  <2> DEFINE pos == at + j - 1
             u == RipplePass(s, pos)
             w == CryptWeight(pos - 1)
  <2>1. pos \in 1 .. total /\ pos + 1 = at + j /\ pos = at + (j - 1) /\ pos \in Nat \ {0}
    OBVIOUS
  <2> HIDE DEF pos
  <2>2. PICK d \in CryptLimb :
          /\ u \in RowState(total) /\ u.res = [s.res EXCEPT ![pos] = d]
          /\ d + CryptRadix * u.carry = s.res[pos] + s.carry
    BY <2>1, RipplePassOf
  <2>3. s.res[pos] + 0 + s.carry = s.res[pos] + s.carry
    <3>1. s.res \in [1 .. total -> CryptLimb] /\ s.carry \in CryptLimb
      BY DEF RowState
    <3>2. s.res[pos] \in Nat /\ s.carry \in Nat
      BY <2>1, <3>1, CryptRadixOf DEF CryptLimb
    <3> QED  BY <3>2
  <2> HIDE DEF u
  <2>4. RowValue(total, u, pos + 1) = RowValue(total, s, pos) + 0 * w
    <3>1. 0 \in Nat
      OBVIOUS
    <3> QED  BY <2>1, <2>2, <2>3, <3>1, RowValueStep
  <2>5. RowValue(total, s, pos) \in Nat /\ w \in Nat
    BY <2>1, RowValueOf
  <2> HIDE DEF w
  <2>6. RowValue(total, u, pos + 1) = RowValue(total, s, pos)
    BY <2>4, <2>5
  <2> QED  BY <2>1, <2>2, <2>6 DEF u, pos
<1> HIDE DEF S, next
<1>1. \A j \in 1 .. above : \A s \in S : g[j][s] = next(s, j)
  OBVIOUS
<1>2. Fits(above, S, g)
  BY <1>0, <1>1 DEF Fits
<1> HIDE DEF g
<1>3. PICK f \in [0 .. above -> S] : Run(above, s0, g, f)
  BY <1>n, <1>2, Recursion DEF Runs
<1>4. f[0] = s0 /\ \A j \in 1 .. above : f[j] = next(f[j - 1], j)
  <2>1. \A j \in 1 .. above : f[j - 1] \in S
    BY <1>n
  <2> QED  BY <1>1, <1>3, <2>1 DEF Run
<1>5. f = Unrolled(f)
  BY <1>4
<1>6. c = Unrolled(c)
  BY <1>5
<1>7. RippleUp(s0, at, above) = c[above]
  BY DEF RippleUp, next
<1> HIDE DEF c
<1> DEFINE e == Unrolled(c)
<1>8. e[0] = s0 /\ \A j \in 1 .. above : e[j] = next(c[j - 1], j)
  <2>1. \A j \in 0 .. above : e[j] = IF j = 0 THEN s0 ELSE next(c[j - 1], j)
    OBVIOUS
  <2> HIDE DEF e
  <2> QED  BY <2>1
<1> HIDE DEF e
<1>9. c[0] = s0 /\ \A j \in 1 .. above : c[j] = next(c[j - 1], j)
  BY <1>6, <1>8 DEF e
<1>10. \A j \in 0 .. above : c[j] \in S
  <2>1. c[0] \in S /\ Follows(above, S, g, c)
    BY <1>n, <1>1, <1>9 DEF Follows
  <2> QED  BY <1>n, <1>2, <2>1, RunTyped
<1> DEFINE Q == {j \in 0 .. above : RowValue(total, c[j], at + j) = RowValue(total, s0, at)}
<1>11. 0 \in Q
  <2>1. at + 0 = at
    OBVIOUS
  <2> QED  BY <1>9, <2>1
<1>12. ASSUME NEW j \in 1 .. above, j - 1 \in Q PROVE j \in Q
  <2>1. c[j - 1] \in S /\ RowValue(total, c[j - 1], at + (j - 1)) = RowValue(total, s0, at)
    BY <1>10, <1>12
  <2> QED  BY <1>0, <1>9, <2>1
<1> HIDE DEF Q
<1>13. \A j \in 0 .. above : j \in Q
  BY <1>11, <1>12, SetInduction
<1>14. c[above] \in S /\ RowValue(total, c[above], at + above) = RowValue(total, s0, at)
  BY <1>10, <1>13 DEF Q
<1> QED  BY <1>7, <1>14 DEF S

\* A row with its carry: the limbs of the product after it.
LEMMA WholeRowOf ==
  ASSUME NEW x \in Seq(CryptLimb), NEW y \in Seq(CryptLimb), NEW i \in 1 .. Len(x),
         NEW res \in [1 .. Len(x) + Len(y) -> CryptLimb]
  PROVE  LET total == Len(x) + Len(y)
             after == RippleUp(ProductRow(res, i, x[i], y), i + Len(y), Len(x) - i + 1).res
             added == CryptValue(res, total) + x[i] * CryptWeight(i - 1) * CryptValue(y, Len(y))
         IN  /\ after \in [1 .. total -> CryptLimb] /\ CryptValue(after, total) <= added
             /\ (\A k \in i .. total : res[k] = 0) /\ CryptValue(res, total) = 0 =>
                  CryptValue(after, total) = added
<1> DEFINE total == Len(x) + Len(y)
           row == ProductRow(res, i, x[i], y)
           end == RippleUp(row, i + Len(y), Len(x) - i + 1)
           v == CryptValue(res, total)
           w == CryptWeight(i - 1)
           a == x[i]
           yv == CryptValue(y, Len(y))
           added == v + a * w * yv
           Empty == \A k \in i .. total : res[k] = 0
<1>1. /\ total \in Nat /\ i \in Nat \ {0} /\ a \in CryptLimb /\ i + Len(y) <= total + 1 /\ i + Len(y) \in Nat \ {0}
      /\ Len(x) - i + 1 \in Nat /\ (i + Len(y)) + (Len(x) - i + 1) = total + 1
      /\ total + 1 \in Nat \ {0} /\ (total + 1) - 1 = total /\ Len(y) \in 0 .. Len(y)
      /\ total \in 0 .. total /\ i - 1 \in Nat /\ (i - 1) + 1 = i
  OBVIOUS
<1>2. /\ row \in RowState(total) /\ RowValue(total, row, i + Len(y)) <= added
      /\ Empty => RowValue(total, row, i + Len(y)) = added
  <2>1. /\ total \in Nat /\ res \in [1 .. total -> CryptLimb] /\ x[i] \in CryptLimb /\ i \in Nat \ {0}
        /\ i + Len(y) <= total + 1
    BY <1>1
  <2> HIDE DEF total
  <2>2. RowAdded(total, res, i, x[i], y, ProductRow(res, i, x[i], y))
    BY <2>1, ProductRowOf
  <2> QED  BY <2>2 DEF RowAdded
<1>3. end \in RowState(total) /\ RowValue(total, end, total + 1) = RowValue(total, row, i + Len(y))
  <2> DEFINE at == i + Len(y)  above == Len(x) - i + 1
  <2>1. total \in Nat /\ row \in RowState(total) /\ at \in Nat \ {0} /\ above \in Nat /\ at + above = total + 1 /\ at + above <= total + 1
    BY <1>1, <1>2
  <2> HIDE DEF row, total, at, above
  <2>2. /\ RippleUp(row, at, above) \in RowState(total)
        /\ RowValue(total, RippleUp(row, at, above), at + above) = RowValue(total, row, at)
    BY <2>1, RippleUpOf
  <2> QED  BY <2>1, <2>2 DEF at, above
<1> DEFINE ev == CryptValue(end.res, total)  c == end.carry  h == CryptWeight(total)
<1>4. RowValue(total, end, total + 1) = ev + c * h /\ ev \in Nat /\ c \in Nat /\ h \in Nat
  <2>1. ev \in Nat /\ c \in Nat /\ CryptWeight((total + 1) - 1) \in Nat
    BY <1>1, <1>3, RowValueOf
  <2>2. RowValue(total, end, total + 1) = ev + c * CryptWeight((total + 1) - 1)
    BY DEF RowValue
  <2> QED  BY <1>1, <2>1, <2>2
<1>5. a \in Nat /\ w \in Nat /\ yv \in Nat /\ v \in Nat /\ h >= 1
  <2>1. a \in Nat /\ y \in Seq(Nat)
    BY <1>1, CryptRadixOf DEF CryptLimb
  <2>2. w \in Nat /\ h >= 1
    BY <1>1, CryptWeightOf, CryptWeightPositive
  <2>3. v \in Nat
    BY <1>1, ResultArray, CryptValueOf
  <2> QED  BY <1>1, <2>1, <2>2, <2>3, CryptValueOf
<1>6. end.res \in [1 .. total -> CryptLimb]
  BY <1>3 DEF RowState
\* The carry that leaves the array is none where the row is all there is.
<1>7. ASSUME v = 0 PROVE added < h
  <2>1. a + 1 <= CryptRadix
    BY <1>1, <1>5, CryptRadixOf DEF CryptLimb
  <2>2. yv < CryptWeight(Len(y)) /\ CryptWeight(Len(y)) \in Nat
    BY <1>1, CryptValueBelow
  <2>3. CryptWeight(i) = CryptRadix * w
    BY <1>1, CryptWeightOf
  <2>4. CryptWeight(i) * CryptWeight(Len(y)) <= h
    <3>1. i + Len(y) <= total /\ i \in Nat /\ Len(y) \in Nat /\ i + Len(y) \in Nat
      BY <1>1
    <3>2. CryptWeight(i + Len(y)) <= h
      BY <1>1, <3>1, CryptWeightMonotone
    <3> QED  BY <3>1, <3>2, CryptWeightAdd
  <2> DEFINE r == CryptRadix  u == CryptWeight(Len(y))  p == a * w  q == r * w
  <2>5. r \in Nat /\ u \in Nat /\ p \in Nat /\ q \in Nat /\ w >= 1
    <3>1. r \in Nat /\ u \in Nat /\ w >= 1 /\ w \in Nat /\ a \in Nat
      BY <1>1, <1>5, <2>2, CryptRadixOf, CryptWeightPositive
    <3> HIDE DEF r, w, a
    <3>2. p \in Nat /\ q \in Nat
      BY <3>1
    <3> QED  BY <3>1, <3>2
  <2>6. p + w <= q
    <3> HIDE DEF w, a, r
    <3>1. w * (a + 1) <= w * r
      BY <1>5, <2>1, <2>5, Products DEF r
    <3>2. w * (a + 1) = a * w + w /\ w * r = r * w
      BY <1>5, <2>5
    <3> QED  BY <3>1, <3>2
  <2>7. q * u <= h
    BY <2>3, <2>4
  <2> HIDE DEF r, u, p, q, w, yv, h, v
  <2>8. p * yv <= p * u /\ u * p <= u * q /\ p * u = u * p /\ u * q = q * u
        /\ p * yv \in Nat /\ p * u \in Nat /\ q * u \in Nat
    <3>1. yv <= u /\ p <= q
      BY <1>5, <2>2, <2>5, <2>6 DEF u
    <3> QED  BY <1>5, <2>5, <3>1, Products
  <2>9. p * yv < h
    <3>1. CASE p = 0
      <4>1. p * yv = 0
        BY <1>5, <3>1
      <4> QED  BY <1>4, <1>5, <4>1
    <3>2. CASE p >= 1
      <4>1. p * (yv + 1) <= p * u
        <5>1. yv + 1 \in Nat /\ yv + 1 <= u
          BY <1>5, <2>2, <2>5 DEF u
        <5> QED  BY <2>5, <5>1, Products
      <4>2. p * (yv + 1) = p * yv + p
        BY <1>5, <2>5
      <4> DEFINE m == p * yv  n == p * u  k == q * u
      <4>3. m \in Nat /\ n \in Nat /\ k \in Nat /\ m + p <= n /\ n <= k /\ k <= h
        BY <2>7, <2>8, <4>1, <4>2
      <4> HIDE DEF m, n, k
      <4>4. m < h
        BY <1>4, <2>5, <3>2, <4>3
      <4> QED  BY <4>4 DEF m
    <3> QED  BY <2>5, <3>1, <3>2
  <2> DEFINE m == p * yv
  <2>10. added = v + m
    BY DEF p
  <2>11. m \in Nat /\ m < h
    BY <2>8, <2>9
  <2> HIDE DEF m, added
  <2> QED  BY <1>7, <2>10, <2>11
<1>8. ASSUME Empty, v = 0 PROVE ev = added
  <2>1. ev + c * h = added /\ added < h
    BY <1>2, <1>3, <1>4, <1>7, <1>8
  <2> HIDE DEF ev, c, h, added
  <2>2. CASE c = 0
    BY <1>4, <2>1, <2>2
  <2>3. CASE c >= 1
    <3>1. h * 1 <= h * c
      BY <1>4, <2>3, Products
    <3>2. h * c = c * h /\ c * h \in Nat
      BY <1>4
    <3> DEFINE m == c * h
    <3>3. m \in Nat /\ h <= m /\ ev + m < h
      BY <1>4, <2>1, <3>1, <3>2
    <3> HIDE DEF m
    <3> QED  BY <1>4, <3>3
  <2> QED  BY <1>4, <2>2, <2>3
<1>9. ev <= added
  <2> DEFINE m == c * h
  <2>1. m \in Nat
    <3> HIDE DEF c, h
    <3> QED  BY <1>4
  <2>2. ev + m <= added
    BY <1>2, <1>3, <1>4
  <2>3. added \in Nat
    <3> HIDE DEF a, w, yv, v
    <3>1. a * w * yv \in Nat
      BY <1>5
    <3> QED  BY <1>5, <3>1
  <2> HIDE DEF m, ev, added
  <2> QED  BY <1>4, <2>1, <2>2, <2>3
<1> QED  BY <1>6, <1>8, <1>9

\* A product is not too large, and exact when its first factor has one limb.
LEMMA CryptProductOf ==
  ASSUME NEW x \in Seq(CryptLimb), NEW y \in Seq(CryptLimb), Len(x) > 0
  PROVE  LET p == CryptProduct(x, y)
             a == CryptValue(x, Len(x))  b == CryptValue(y, Len(y))
             v == CryptValue(p, Len(p))
         IN  Len(p) = Len(x) + Len(y) /\ v <= a * b /\ (Len(x) = 1 => v = a * b)
<1> DEFINE n == Len(x)
           total == Len(x) + Len(y)
           S == [1 .. total -> CryptLimb]
           first == [k \in 1 .. total |-> 0]
           next(r, i) == RippleUp(ProductRow(r, i, x[i], y), i + Len(y), n - i + 1).res
           Unrolled(f) == [i \in 0 .. n |-> IF i = 0 THEN first ELSE next(f[i - 1], i)]
           c == CHOOSE f : f = Unrolled(f)
           g == [i \in 1 .. n |-> [r \in S |-> next(r, i)]]
           yv == CryptValue(y, Len(y))
<1>n. n \in Nat /\ total \in Nat /\ first \in S /\ x \in Seq(Nat) /\ y \in Seq(Nat) /\ yv \in Nat
  <2>1. n \in Nat /\ total \in Nat /\ Len(y) \in 0 .. Len(y)
    OBVIOUS
  <2>2. first \in S
    BY CryptRadixOf DEF CryptLimb
  <2>3. x \in Seq(Nat) /\ y \in Seq(Nat)
    BY CryptRadixOf DEF CryptLimb
  <2> QED  BY <2>1, <2>2, <2>3, CryptValueOf
<1>0. ASSUME NEW i \in 1 .. n, NEW r \in S
      PROVE  LET added == CryptValue(r, total) + x[i] * CryptWeight(i - 1) * yv
             IN  /\ next(r, i) \in S /\ CryptValue(next(r, i), total) <= added
                 /\ (\A k \in i .. total : r[k] = 0) /\ CryptValue(r, total) = 0 =>
                      CryptValue(next(r, i), total) = added
  BY WholeRowOf
<1> HIDE DEF next, yv
<1>z. CryptValue(first, total) = 0
  <2>1. first \in Seq(Nat) /\ Len(first) = total
    BY <1>n, ResultArray
  <2>2. \A k \in 0 + 1 .. total : first[k] = 0
    OBVIOUS
  <2> HIDE DEF first, total
  <2>3. CryptValue(first, total) = CryptValue(first, 0)
    BY <1>n, <2>1, <2>2, CryptValueZeros
  <2> QED  BY <2>1, <2>3, CryptValueOf
<1>f. \A k \in 1 .. total : first[k] = 0
  OBVIOUS
<1> HIDE DEF first, S
<1>1. \A i \in 1 .. n : \A r \in S : g[i][r] = next(r, i)
  OBVIOUS
<1>2. Fits(n, S, g)
  BY <1>0, <1>1 DEF Fits
<1> HIDE DEF g
<1>3. PICK f \in [0 .. n -> S] : Run(n, first, g, f)
  BY <1>n, <1>2, Recursion DEF Runs
<1>4. f[0] = first /\ \A i \in 1 .. n : f[i] = next(f[i - 1], i)
  <2>1. \A i \in 1 .. n : f[i - 1] \in S
    <3>1. \A i \in 1 .. n : i - 1 \in 0 .. n
      BY <1>n
    <3> QED  BY <3>1
  <2> HIDE DEF n
  <2> QED  BY <1>1, <1>3, <2>1 DEF Run
<1>5. f = Unrolled(f)
  BY <1>4
<1>6. c = Unrolled(c)
  BY <1>5
<1>7. CryptProduct(x, y) = c[n]
  BY DEF CryptProduct, first, next
<1> HIDE DEF c
<1> DEFINE e == Unrolled(c)
<1>8. e[0] = first /\ \A i \in 1 .. n : e[i] = next(c[i - 1], i)
  <2>1. \A i \in 0 .. n : e[i] = IF i = 0 THEN first ELSE next(c[i - 1], i)
    OBVIOUS
  <2> HIDE DEF e, n
  <2> QED  BY <1>n, <2>1
<1> HIDE DEF e
<1>9. c[0] = first /\ \A i \in 1 .. n : c[i] = next(c[i - 1], i)
  BY <1>6, <1>8 DEF e
<1>10. \A i \in 0 .. n : c[i] \in S
  <2>1. c[0] \in S /\ Follows(n, S, g, c)
    BY <1>n, <1>1, <1>9 DEF Follows
  <2> QED  BY <1>n, <1>2, <2>1, RunTyped
<1>v. \A i \in 0 .. n : CryptValue(c[i], total) \in Nat
  <2> SUFFICES ASSUME NEW i \in 0 .. n PROVE CryptValue(c[i], total) \in Nat
    OBVIOUS
  <2>1. c[i] \in [1 .. total -> CryptLimb] /\ total \in 0 .. total
    BY <1>n, <1>10 DEF S
  <2> HIDE DEF total
  <2> QED  BY <1>n, <2>1, ResultArray, CryptValueOf
\* Each row adds at most its part.
<1>11. ASSUME NEW i \in 1 .. n
       PROVE  /\ CryptValue(x, i) * yv = CryptValue(x, i - 1) * yv + x[i] * CryptWeight(i - 1) * yv
              /\ CryptValue(x, i - 1) * yv \in Nat /\ x[i] * CryptWeight(i - 1) * yv \in Nat
  <2> DEFINE low == CryptValue(x, i - 1)  a == x[i]  w == CryptWeight(i - 1)
  <2>1. CryptValue(x, i) = low + a * w /\ low \in Nat /\ a \in Nat /\ w \in Nat
    BY <1>n, CryptValueStep
  <2> HIDE DEF low, a, w
  <2>2. (low + a * w) * yv = low * yv + a * w * yv /\ low * yv \in Nat /\ a * w * yv \in Nat
    BY <1>n, <2>1
  <2> QED  BY <2>1, <2>2 DEF low, a, w
<1> DEFINE Q == {i \in 0 .. n : CryptValue(c[i], total) <= CryptValue(x, i) * yv}
<1>12. 0 \in Q
  <2>1. CryptValue(x, 0) = 0
    BY <1>n, CryptValueOf
  <2>2. 0 * yv = 0
    BY <1>n
  <2> HIDE DEF n
  <2> QED  BY <1>n, <1>9, <1>z, <2>1, <2>2
<1>13. ASSUME NEW i \in 1 .. n, i - 1 \in Q PROVE i \in Q
  <2> DEFINE before == CryptValue(c[i - 1], total)
             after == CryptValue(c[i], total)
             part == x[i] * CryptWeight(i - 1) * yv
             low == CryptValue(x, i - 1) * yv
  <2>1. i - 1 \in 0 .. n /\ i \in 0 .. n /\ c[i - 1] \in S
    BY <1>10
  <2>2. after <= before + part
    BY <1>0, <1>9, <2>1
  <2>3. before <= low
    BY <1>13
  <2>4. CryptValue(x, i) * yv = low + part /\ low \in Nat /\ part \in Nat
    BY <1>11
  <2>5. before \in Nat /\ after \in Nat
    BY <1>v, <2>1
  <2> HIDE DEF before, after, part, low
  <2>6. after <= low + part
    BY <2>2, <2>3, <2>4, <2>5
  <2> QED  BY <2>1, <2>4, <2>6 DEF after
<1> HIDE DEF Q
<1>14. CryptValue(c[n], total) <= CryptValue(x, n) * yv
  <2>1. \A i \in 0 .. n : i \in Q
    <3> HIDE DEF n
    <3> QED  BY <1>n, <1>12, <1>13, SetInduction
  <2>2. n \in 0 .. n
    BY <1>n
  <2> QED  BY <2>1, <2>2 DEF Q
\* One row alone adds all of it.
<1>15. ASSUME n = 1 PROVE CryptValue(c[n], total) = CryptValue(x, n) * yv
  <2>1. 1 \in 1 .. n /\ c[1] = next(first, 1) /\ first \in S
    <3>1. 1 \in 1 .. n /\ 1 - 1 = 0
      BY <1>15
    <3> QED  BY <1>n, <1>9, <3>1
  <2>2. (\A k \in 1 .. total : first[k] = 0) /\ CryptValue(first, total) = 0
    BY <1>f, <1>z
  <2> DEFINE part == x[1] * CryptWeight(1 - 1) * yv
  <2>3. CryptValue(c[1], total) = 0 + part
    BY <1>0, <2>1, <2>2
  <2>4. CryptValue(x, 1) * yv = CryptValue(x, 1 - 1) * yv + part /\ part \in Nat
    BY <1>11, <2>1
  <2>5. CryptValue(x, 1 - 1) * yv = 0
    <3>1. CryptValue(x, 0) = 0 /\ 1 - 1 = 0
      BY <1>n, CryptValueOf
    <3> QED  BY <1>n, <3>1
  <2> HIDE DEF part
  <2>6. CryptValue(c[1], total) = CryptValue(x, 1) * yv
    BY <2>3, <2>4, <2>5
  <2> QED  BY <1>15, <2>6
<1>16. Len(c[n]) = total
  <2>1. c[n] \in [1 .. total -> CryptLimb]
    <3>1. n \in 0 .. n
      BY <1>n
    <3> QED  BY <1>10, <3>1 DEF S
  <2> HIDE DEF total, n
  <2> QED  BY <1>n, <2>1, ResultArray
<1> QED  BY <1>7, <1>14, <1>15, <1>16 DEF yv

-----------------------------------------------------------------------------
(* Moves and ranges *)

\* The bytes that are moved stay within the array on both sides.
LEMMA WithinOf ==
  ASSUME NEW cap \in Nat, NEW to \in Nat, NEW from \in Nat, NEW len \in Nat
  PROVE  LET moved == Within(from, cap, Within(to, cap, len))
         IN  /\ moved \in Nat
             /\ \A i \in 1 .. cap :
                  i - 1 \in to .. to + moved - 1 <=> i > to /\ i <= to + len /\ i - to + from <= cap
<1> DEFINE moved == Within(from, cap, Within(to, cap, len))
<1>1. moved = Smaller(IF from < cap THEN cap - from ELSE 0, Smaller(IF to < cap THEN cap - to ELSE 0, len))
  BY DEF Within
<1>2. /\ moved \in Nat /\ moved <= len /\ (from < cap => moved <= cap - from) /\ (from >= cap => moved = 0)
      /\ (to < cap => moved <= cap - to)
      /\ (from < cap /\ to < cap => moved = cap - from \/ moved = cap - to \/ moved = len)
  BY <1>1 DEF Smaller
<1> HIDE DEF moved
<1>3. ASSUME NEW i \in 1 .. cap
      PROVE  i - 1 \in to .. to + moved - 1 <=> i > to /\ i <= to + len /\ i - to + from <= cap
  <2>1. CASE from < cap /\ to < cap
    BY <1>2, <2>1
  <2>2. CASE from >= cap
    BY <1>2, <2>2
  <2>3. CASE to >= cap
    BY <1>2, <2>3
  <2> QED  BY <2>1, <2>2, <2>3
<1> QED  BY <1>2, <1>3 DEF moved

\* An array moved is the array whose bytes of the target came from their source.
MovedRight(cap, bytes, to, from, len, moved) ==
  \A i \in 1 .. cap :
    moved[i] = IF i > to /\ i <= to + len /\ i - to + from <= cap THEN bytes[i - to + from] ELSE bytes[i]

\* However target and source overlap, the order of the passes reads every byte before
\* it is written.
LEMMA CryptMoveOf ==
  ASSUME NEW cap \in Nat, NEW bytes \in [1 .. cap -> Nat], NEW to \in Nat, NEW from \in Nat, NEW len \in Nat
  PROVE  MovedRight(cap, bytes, to, from, len, CryptMove(bytes, to, from, len))
<1> DEFINE S == [1 .. cap -> Nat]
           moved == Within(from, cap, Within(to, cap, len))
           order == MoveOrder(cap, to, from)
           target(i) == i - 1 \in to .. to + moved - 1
           next(b, k) ==
             IF order[k] \in to .. to + moved - 1
             THEN [b EXCEPT ![order[k] + 1] = b[order[k] - to + from + 1]] ELSE b
           Unrolled(f) == [k \in 0 .. cap |-> IF k = 0 THEN bytes ELSE next(f[k - 1], k)]
           c == CHOOSE f : f = Unrolled(f)
           g == [k \in 1 .. cap |-> [b \in S |-> next(b, k)]]
           Written(i, k) == IF to < from THEN i <= k ELSE i > cap - k
<1>1. /\ moved \in Nat
      /\ \A i \in 1 .. cap : target(i) <=> i > to /\ i <= to + len /\ i - to + from <= cap
  BY WithinOf
<1> HIDE DEF moved
<1>2. \A k \in 1 .. cap : order[k] = IF to < from THEN k - 1 ELSE cap - k
  BY DEF MoveOrder
<1> HIDE DEF order
\* One pass: it writes position p, from a position that was not written.
<1>3. ASSUME NEW k \in 1 .. cap, NEW b \in S
      PROVE  \E p \in 1 .. cap :
               /\ next(b, k) \in S
               /\ \A i \in 1 .. cap : i # p => next(b, k)[i] = b[i] /\ (Written(i, k) <=> Written(i, k - 1))
               /\ Written(p, k) /\ ~ Written(p, k - 1)
               /\ ~ target(p) => next(b, k)[p] = b[p]
               /\ target(p) => /\ p - to + from \in 1 .. cap /\ next(b, k)[p] = b[p - to + from]
                               /\ ~ Written(p - to + from, k - 1)
  <2> DEFINE p == order[k] + 1  q == p - to + from
  <2>1. p \in 1 .. cap /\ (to < from => p = k) /\ (~ (to < from) => p = cap - k + 1)
    BY <1>2
  <2>2. order[k] \in Int /\ order[k] = p - 1
    BY <1>2
  <2>3. order[k] - to + from + 1 = q
    BY <2>2
  <2>4. target(p) <=> order[k] \in to .. to + moved - 1
    BY <2>2
  <2> DEFINE u == next(b, k)
  <2>5. u = IF target(p) THEN [b EXCEPT ![p] = b[q]] ELSE b
    BY <2>3, <2>4
  <2> HIDE DEF p, u
  <2>6. target(p) => q \in 1 .. cap /\ ~ Written(q, k - 1)
    <3>1. target(p) => p > to /\ q <= cap
      BY <1>1, <2>1
    <3> HIDE DEF target
    <3> QED  BY <2>1, <3>1
  <2> HIDE DEF q
  <2>7. u \in S
    BY <2>1, <2>5, <2>6
  <2>8. \A i \in 1 .. cap : i # p => u[i] = b[i]
    BY <2>1, <2>5
  <2>9. (~ target(p) => u[p] = b[p]) /\ (target(p) => u[p] = b[q])
    BY <2>1, <2>5
  <2>10. \A i \in 1 .. cap : i # p => (Written(i, k) <=> Written(i, k - 1))
    BY <2>1
  <2>11. Written(p, k) /\ ~ Written(p, k - 1)
    BY <2>1
  <2> HIDE DEF target, Written
  <2>12. /\ u \in S
         /\ \A i \in 1 .. cap : i # p => u[i] = b[i] /\ (Written(i, k) <=> Written(i, k - 1))
         /\ Written(p, k) /\ ~ Written(p, k - 1)
         /\ ~ target(p) => u[p] = b[p]
         /\ target(p) => p - to + from \in 1 .. cap /\ u[p] = b[p - to + from] /\ ~ Written(p - to + from, k - 1)
    BY <2>6, <2>7, <2>8, <2>9, <2>10, <2>11 DEF q
  <2> QED  BY <2>1, <2>12 DEF u
<1>4. \A i \in 1 .. cap : ~ Written(i, 0) /\ Written(i, cap)
  OBVIOUS
<1> HIDE DEF S, next, Written, target
<1>n. bytes \in S
  BY DEF S
<1>5. \A k \in 1 .. cap : \A b \in S : g[k][b] = next(b, k)
  OBVIOUS
<1>6. Fits(cap, S, g)
  <2>1. \A k \in 1 .. cap : \A b \in S : next(b, k) \in S
    BY <1>3
  <2> QED  BY <1>5, <2>1 DEF Fits
<1> HIDE DEF g
<1>7. PICK f \in [0 .. cap -> S] : Run(cap, bytes, g, f)
  BY <1>n, <1>6, Recursion DEF Runs
<1>8. f[0] = bytes /\ \A k \in 1 .. cap : f[k] = next(f[k - 1], k)
  <2>1. \A k \in 1 .. cap : f[k - 1] \in S
    OBVIOUS
  <2> QED  BY <1>5, <1>7, <2>1 DEF Run
<1>9. f = Unrolled(f)
  BY <1>8
<1>10. c = Unrolled(c)
  BY <1>9
<1>11. CryptMove(bytes, to, from, len) = c[cap]
  <2>1. Len(bytes) = cap
    OBVIOUS
  <2> QED  BY <2>1 DEF CryptMove, next, order, moved
<1> HIDE DEF c
<1> DEFINE e == Unrolled(c)
<1>12. e[0] = bytes /\ \A k \in 1 .. cap : e[k] = next(c[k - 1], k)
  <2>1. \A k \in 0 .. cap : e[k] = IF k = 0 THEN bytes ELSE next(c[k - 1], k)
    OBVIOUS
  <2> HIDE DEF e
  <2> QED  BY <2>1
<1> HIDE DEF e
<1>13. c[0] = bytes /\ \A k \in 1 .. cap : c[k] = next(c[k - 1], k)
  BY <1>10, <1>12 DEF e
<1>14. \A k \in 0 .. cap : c[k] \in S
  <2>1. c[0] \in S /\ Follows(cap, S, g, c)
    BY <1>n, <1>5, <1>13 DEF Follows
  <2> QED  BY <1>n, <1>6, <2>1, RunTyped
<1> DEFINE goal(i) == IF target(i) THEN bytes[i - to + from] ELSE bytes[i]
           P(k) == \A i \in 1 .. cap : c[k][i] = IF Written(i, k) THEN goal(i) ELSE bytes[i]
           Q == {k \in 0 .. cap : P(k)}
<1>15. 0 \in Q
  BY <1>4, <1>13
<1>16. ASSUME NEW k \in 1 .. cap, k - 1 \in Q PROVE k \in Q
  <2> DEFINE b == c[k - 1]  u == c[k]
  <2>1. b \in S /\ u = next(b, k) /\ k \in 0 .. cap
    <3>1. k - 1 \in 0 .. cap
      OBVIOUS
    <3> QED  BY <1>13, <1>14, <3>1
  <2>2. \A i \in 1 .. cap : b[i] = IF Written(i, k - 1) THEN goal(i) ELSE bytes[i]
    BY <1>16
  <2> HIDE DEF b, u, goal
  <2>3. PICK p \in 1 .. cap :
          /\ \A i \in 1 .. cap : i # p => u[i] = b[i] /\ (Written(i, k) <=> Written(i, k - 1))
          /\ Written(p, k) /\ ~ Written(p, k - 1)
          /\ ~ target(p) => u[p] = b[p]
          /\ target(p) => /\ p - to + from \in 1 .. cap /\ u[p] = b[p - to + from]
                          /\ ~ Written(p - to + from, k - 1)
    BY <1>3, <2>1
  <2>4. u[p] = goal(p)
    <3>1. CASE target(p)
      BY <2>2, <2>3, <3>1 DEF goal
    <3>2. CASE ~ target(p)
      BY <2>2, <2>3, <3>2 DEF goal
    <3> QED  BY <3>1, <3>2
  <2>5. \A i \in 1 .. cap : u[i] = IF Written(i, k) THEN goal(i) ELSE bytes[i]
    BY <2>2, <2>3, <2>4
  <2> QED  BY <2>1, <2>5 DEF u
<1> HIDE DEF Q
<1>17. P(cap)
  <2>1. \A k \in 0 .. cap : k \in Q
    BY <1>15, <1>16, SetInduction
  <2>2. cap \in Q
    BY <2>1
  <2> QED  BY <2>2 DEF Q
<1>18. \A i \in 1 .. cap : c[cap][i] = goal(i)
  BY <1>4, <1>17
<1> QED  BY <1>1, <1>11, <1>18 DEF MovedRight

\* The bytes that a range of limbs covers.
LEMMA RangeOf ==
  ASSUME NEW start \in 0 .. CryptLimbs - 1, NEW end \in 0 .. CryptLimbs - 1, NEW i \in Nat \ {0}
  PROVE  LET limb == (i - 1) \div CryptBytes
         IN  /\ limb \in start .. end => i - 1 \in FirstByte(start) .. LastByte(end)
             /\ i - 1 \in FirstByte(start) .. LastByte(end) =>
                  limb \in start .. end \/ (end = 0 /\ i = CryptBytes + 1)
<1> DEFINE b == CryptBytes  z == CryptSizes  m == CryptLimbs  q == (i - 1) \div b
<1>1. b \in Nat \ {0} /\ m \in Nat \ {0} /\ z \in Nat /\ z > b * (m + 2) /\ start \in Nat /\ end \in Nat
      /\ start <= m - 1 /\ end <= m - 1 /\ i - 1 \in Nat
  BY CryptUtilAssumption
<1>2. q \in Nat /\ q * b <= i - 1 /\ i - 1 < q * b + b
  BY <1>1, Division
<1> DEFINE s == start * b  t == end * b
<1>3. s \in Nat /\ t \in Nat /\ s + b < z /\ t + b < z
  <2> HIDE DEF b, z, m
  <2>1. b * start <= b * m /\ b * end <= b * m
    BY <1>1, Products
  <2>2. b * (m + 2) = b * m + b + b /\ b * start = s /\ b * end = t /\ s \in Nat /\ t \in Nat /\ b * m \in Nat
    BY <1>1
  <2> QED  BY <1>1, <2>1, <2>2
<1> HIDE DEF s, t, q
<1>4. \A k \in Nat : k < z => k % z = k
  <2> HIDE DEF z
  <2> QED  BY <1>1
<1>5. FirstByte(start) = s
  <2>1. s < z
    BY <1>1, <1>3
  <2> QED  BY <1>3, <1>4, <2>1 DEF FirstByte, s
<1>6. LastByte(end) = IF end < 1 THEN b ELSE t + b - 1
  <2>1. t + b - 1 \in Nat /\ t + b - 1 < z
    BY <1>1, <1>3
  <2>2. (t + b - 1) % z = t + b - 1
    BY <1>4, <2>1
  <2> QED  BY <2>2 DEF LastByte, t
<1>7. end < 1 => t = 0
  <2>1. end < 1 => end = 0
    BY <1>1
  <2> HIDE DEF b
  <2> QED  BY <1>1, <2>1 DEF t
<1> DEFINE w == q * b
<1>8. w \in Nat
  <2> HIDE DEF b
  <2> QED  BY <1>1, <1>2
<1>9. (q >= start => w >= s) /\ (q < start => w + b <= s) /\ (q <= end => w <= t) /\ (q > end => w >= t + b)
  <2> HIDE DEF b
  <2>1. q >= start => b * start <= b * q
    BY <1>1, <1>2, Products
  <2>2. q < start => b * (q + 1) <= b * start
    BY <1>1, <1>2, Products
  <2>3. q <= end => b * q <= b * end
    BY <1>1, <1>2, Products
  <2>4. q > end => b * (end + 1) <= b * q
    BY <1>1, <1>2, Products
  <2>5. /\ b * start = s /\ b * q = w /\ b * end = t /\ b * (q + 1) = w + b /\ b * (end + 1) = t + b
    BY <1>1, <1>2 DEF s, t
  <2> QED  BY <2>1, <2>2, <2>3, <2>4, <2>5
<1>10. w <= i - 1 /\ i - 1 < w + b
  BY <1>2
<1> HIDE DEF w, b, z, m
<1>11. q \in start .. end => i - 1 \in s .. (IF end < 1 THEN b ELSE t + b - 1)
  BY <1>1, <1>2, <1>3, <1>7, <1>8, <1>9, <1>10
<1>12. i - 1 \in s .. (IF end < 1 THEN b ELSE t + b - 1) => q \in start .. end \/ (end = 0 /\ i = b + 1)
  <2> SUFFICES ASSUME i - 1 \in s .. (IF end < 1 THEN b ELSE t + b - 1) PROVE q \in start .. end \/ (end = 0 /\ i = b + 1)
    OBVIOUS
  <2>1. q >= start
    BY <1>1, <1>2, <1>3, <1>8, <1>9, <1>10
  <2>2. CASE end < 1
    <3>1. q <= end \/ i - 1 >= b
      BY <1>1, <1>2, <1>3, <1>7, <1>8, <1>9, <1>10, <2>2
    <3> QED  BY <1>1, <1>2, <2>1, <2>2, <3>1
  <2>3. CASE ~ (end < 1)
    <3>1. q <= end
      BY <1>1, <1>2, <1>3, <1>8, <1>9, <1>10, <2>3
    <3> QED  BY <1>1, <1>2, <2>1, <3>1
  <2> QED  BY <2>2, <2>3
<1> QED  BY <1>5, <1>6, <1>11, <1>12 DEF q, b

-----------------------------------------------------------------------------
(* The helpers of cryptInt: the invariant and the theorem *)

\* A call keeps its arguments and what the function made of them.
HelperInv(t) ==
  /\ t.op = "range" =>
       /\ t.dst \in Seq(Int) /\ t.src \in Seq(Int)
       /\ t.start \in 0 .. CryptLimbs - 1 /\ t.end \in 0 .. CryptLimbs - 1
       /\ t.wiped = CryptWipe(t.dst, t.start, t.end) /\ t.copied = CryptCopy(t.dst, t.src, t.start, t.end)
  /\ t.op = "move" =>
       /\ t.bytes \in Seq(Nat) /\ t.to \in Nat /\ t.from \in Nat /\ t.len \in Nat
       /\ t.moved = CryptMove(t.bytes, t.to, t.from, t.len)
  /\ t.op = "limbs" =>
       /\ t.limbs \in LimbArrays /\ t.n \in 0 .. Len(t.limbs) /\ t.count \in Nat
       /\ t.trimmed = CryptTrim(t.limbs, t.n)
       /\ t.down = CryptShiftDown(t.limbs, t.n, t.count) /\ t.up = CryptShiftUp(t.limbs, t.n, t.count)
  /\ t.op = "pair" =>
       /\ t.x \in LimbArrays /\ t.y \in LimbArrays
       /\ t.order = CryptCompare(t.x, Len(t.x), t.y, Len(t.y)) /\ t.product = CryptProduct(t.x, t.y)

HIInv == HelperInv(task)

LEMMA DistinctOf ==
  ASSUME NEW count \in Nat, NEW from \in Nat
  PROVE  Distinct(count, from) \in Seq(Nat)
BY DEF Distinct

LEMMA HelperBegins ==
  ASSUME CryptUtilBegins
  PROVE  HelperInv(task')
<1>0. CryptBytes \in Nat /\ CryptLimbs \in Nat
  BY CryptUtilAssumption
<1>1. CASE CallRange
  <2>1. PICK cap \in 1 .. CryptLimbs, srccap \in 1 .. CryptLimbs,
             start \in 0 .. CryptLimbs - 1, end \in 0 .. CryptLimbs - 1 :
          LET dst == Distinct(cap * CryptBytes, 0)
              src == Distinct(srccap * CryptBytes, 100)
          IN  Enter([op |-> "range", status |-> "ok", dst |-> dst, src |-> src, start |-> start, end |-> end,
                     wiped |-> CryptWipe(dst, start, end), copied |-> CryptCopy(dst, src, start, end)])
    BY <1>1 DEF CallRange
  <2> DEFINE dst == Distinct(cap * CryptBytes, 0)
             src == Distinct(srccap * CryptBytes, 100)
  <2>2. dst \in Seq(Int) /\ src \in Seq(Int)
    <3>1. cap * CryptBytes \in Nat /\ srccap * CryptBytes \in Nat
      BY <1>0
    <3>2. dst \in Seq(Nat) /\ src \in Seq(Nat)
      BY <3>1, DistinctOf
    <3> HIDE DEF dst, src
    <3> QED  BY <3>2
  <2>3. task' = [op |-> "range", status |-> "ok", dst |-> dst, src |-> src, start |-> start, end |-> end,
                 wiped |-> CryptWipe(dst, start, end), copied |-> CryptCopy(dst, src, start, end)]
    BY <2>1 DEF Enter
  <2> HIDE DEF dst, src
  <2> QED  BY <2>2, <2>3 DEF HelperInv
<1>2. CASE CallMove
  <2>1. PICK cap \in 1 .. CryptLimbs * CryptBytes, to \in 0 .. CryptLimbs * CryptBytes,
             from \in 0 .. CryptLimbs * CryptBytes, len \in 0 .. CryptLimbs * CryptBytes :
          task' = [op |-> "move", status |-> "ok", bytes |-> Distinct(cap, 0), to |-> to, from |-> from,
                   len |-> len, moved |-> CryptMove(Distinct(cap, 0), to, from, len)]
    BY <1>2 DEF CallMove, Enter
  <2>2. Distinct(cap, 0) \in Seq(Nat) /\ to \in Nat /\ from \in Nat /\ len \in Nat
    BY <1>0, DistinctOf
  <2> QED  BY <2>1, <2>2 DEF HelperInv
<1>3. CASE CallLimbs
  <2>1. PICK limbs \in LimbArrays : \E n \in 0 .. Len(limbs), count \in 0 .. CryptLimbs :
          task' = [op |-> "limbs", status |-> "ok", limbs |-> limbs, n |-> n, count |-> count,
                   trimmed |-> CryptTrim(limbs, n), down |-> CryptShiftDown(limbs, n, count),
                   up |-> CryptShiftUp(limbs, n, count)]
    BY <1>3 DEF CallLimbs, Enter
  <2> QED  BY <1>0, <2>1 DEF HelperInv
<1>4. CASE CallPair
  <2>1. PICK x \in LimbArrays, y \in LimbArrays :
          task' = [op |-> "pair", status |-> "ok", x |-> x, y |-> y,
                   order |-> CryptCompare(x, Len(x), y, Len(y)), product |-> CryptProduct(x, y)]
    BY <1>4 DEF CallPair, Enter
  <2> QED  BY <2>1 DEF HelperInv
<1> QED  BY <1>1, <1>2, <1>3, <1>4 DEF CryptUtilBegins

LEMMA NoHelper == ASSUME NEW t, t.op \notin UtilOps PROVE HelperInv(t)
BY DEF HelperInv, UtilOps

LEMMA HelperNext == IInv /\ HIInv /\ [Next]_task => HIInv'
<1> SUFFICES ASSUME CallInv(task), HelperInv(task), [Next]_task PROVE HelperInv(task')
  BY DEF IInv, HIInv
<1>0. "op" \in DOMAIN task
  BY DEF CallInv
<1>1. CASE EntropyBegins \/ EntropySteps
  <2>1. task'.op \in EntropyOps
    BY <1>1, EntropyBegun, EntropyContinues
  <2> QED  BY <2>1, NoHelper DEF EntropyOps, Fillers, Sources, UtilOps
<1>2. CASE ArithBegins \/ RootBegins \/ PrimeBegins \/ CryptBegins
  <2>1. task'.op \in ArithOps \cup {"root", "prime", "crypt"}
    BY <1>2, ArithBegun, RootBegun, PrimeBegun, CryptBegun DEF Plain
  <2> QED  BY <2>1, NoHelper DEF ArithOps, UtilOps
<1>3. CASE ArithSteps \/ RootSteps \/ PrimeSteps \/ CryptSteps
  <2>1. task'.op \in ArithOps \cup {"root", "prime", "crypt"}
    BY <1>0, <1>3, ArithContinues, RootContinues, PrimeContinues, CryptContinues DEF Continues
  <2> QED  BY <2>1, NoHelper DEF ArithOps, UtilOps
<1>4. CASE CryptUtilBegins
  BY <1>4, HelperBegins
<1>5. CASE Leave
  BY <1>5, NoHelper DEF Leave, Idle, UtilOps
<1>6. CASE UNCHANGED task
  BY <1>6
<1> QED  BY <1>1, <1>2, <1>3, <1>4, <1>5, <1>6 DEF Next, Begin, Step

LEMMA HelperInit == Init => HIInv
BY NoHelper DEF Init, Idle, HIInv, UtilOps

\* What a call of a helper keeps true.
THEOREM CryptHelperInvariant == Spec => []HIInv
BY EntropyInvariant, HelperInit, HelperNext, PTL DEF Spec

LEMMA InvRanges == HIInv => RangesWhole
<1> SUFFICES ASSUME HelperInv(task), task.op = "range", NEW i \in DOMAIN task.dst
             PROVE  LET limb  == (i - 1) \div CryptBytes
                        spill == task.end = 0 /\ i = CryptBytes + 1
                    IN  IF limb \in task.start .. task.end
                        THEN /\ task.wiped[i] = 0
                             /\ i <= Len(task.src) => task.copied[i] = task.src[i]
                        ELSE spill \/ (task.wiped[i] = task.dst[i] /\ task.copied[i] = task.dst[i])
  BY DEF HIInv, RangesWhole
<1> DEFINE dst == task.dst  src == task.src  start == task.start  end == task.end
           inside == i - 1 \in FirstByte(start) .. LastByte(end)
           limb == (i - 1) \div CryptBytes
<1>1. /\ dst \in Seq(Int) /\ src \in Seq(Int) /\ start \in 0 .. CryptLimbs - 1 /\ end \in 0 .. CryptLimbs - 1
      /\ task.wiped = CryptWipe(dst, start, end) /\ task.copied = CryptCopy(dst, src, start, end)
  BY DEF HelperInv
<1>2. i \in Nat \ {0} /\ i \in DOMAIN dst /\ (i <= Len(src) <=> i \in DOMAIN src)
  BY <1>1
<1>3. (limb \in start .. end => inside) /\ (inside => limb \in start .. end \/ (end = 0 /\ i = CryptBytes + 1))
  <2> HIDE DEF start, end
  <2> QED  BY <1>1, <1>2, RangeOf
<1>4. task.wiped[i] = IF inside THEN 0 ELSE dst[i]
  BY <1>1, <1>2 DEF CryptWipe, CryptSet
<1>5. task.copied[i] = IF i \in DOMAIN src /\ inside THEN src[i] ELSE dst[i]
  BY <1>1, <1>2 DEF CryptCopy
<1> HIDE DEF inside, limb
<1>6. IF limb \in start .. end
      THEN task.wiped[i] = 0 /\ (i <= Len(src) => task.copied[i] = src[i])
      ELSE (end = 0 /\ i = CryptBytes + 1) \/ (task.wiped[i] = dst[i] /\ task.copied[i] = dst[i])
  BY <1>2, <1>3, <1>4, <1>5
<1> QED  BY <1>6 DEF limb

LEMMA InvMoves == HIInv => MovesWhole
<1> SUFFICES ASSUME HelperInv(task), task.op = "move", NEW i \in DOMAIN task.bytes
             PROVE  task.moved[i] =
                      IF i > task.to /\ i <= task.to + task.len /\ i - task.to + task.from <= Len(task.bytes)
                      THEN task.bytes[i - task.to + task.from] ELSE task.bytes[i]
  BY DEF HIInv, MovesWhole
<1>1. /\ task.bytes \in Seq(Nat) /\ task.to \in Nat /\ task.from \in Nat /\ task.len \in Nat
      /\ task.moved = CryptMove(task.bytes, task.to, task.from, task.len)
  BY DEF HelperInv
<1> DEFINE bytes == task.bytes  to == task.to  from == task.from  len == task.len  cap == Len(bytes)
<1>2. /\ cap \in Nat /\ bytes \in [1 .. cap -> Nat] /\ i \in 1 .. cap
      /\ to \in Nat /\ from \in Nat /\ len \in Nat
  BY <1>1
<1>3. task.moved = CryptMove(bytes, to, from, len)
  BY <1>1
<1> HIDE DEF bytes, to, from, len, cap
<1>4. MovedRight(cap, bytes, to, from, len, CryptMove(bytes, to, from, len))
  BY <1>2, CryptMoveOf
<1>5. task.moved[i] = IF i > to /\ i <= to + len /\ i - to + from <= cap THEN bytes[i - to + from] ELSE bytes[i]
  BY <1>2, <1>3, <1>4 DEF MovedRight
<1> QED  BY <1>5 DEF bytes, to, from, len, cap

LEMMA InvLimbs == HIInv => LimbsExact
<1> SUFFICES ASSUME HelperInv(task), task.op = "limbs"
             PROVE  LET v == CryptValue(task.limbs, task.n)  cap == Len(task.limbs)
                    IN  /\ CryptValue(task.limbs, task.trimmed) = v
                        /\ task.trimmed = 0 \/ task.limbs[task.trimmed] # 0
                        /\ CryptValue(task.down.limbs, task.down.n) = v \div CryptWeight(task.count)
                        /\ CryptValue(task.up.limbs, task.up.n) = (v * CryptWeight(task.count)) % CryptWeight(cap)
                        /\ \A i \in 1 .. cap : (i > task.down.n => task.down.limbs[i] = 0)
                                              /\ (i > task.up.n => task.up.limbs[i] = 0)
  BY DEF HIInv, LimbsExact
<1> DEFINE x == task.limbs  n == task.n  t == task.trimmed  k == task.count
<1>1. /\ x \in LimbArrays /\ n \in 0 .. Len(x) /\ k \in Nat /\ t = CryptTrim(x, n)
      /\ task.down = CryptShiftDown(x, n, k) /\ task.up = CryptShiftUp(x, n, k)
  BY DEF HelperInv
<1> HIDE DEF x, n, t, k
<1>2. x \in Seq(CryptLimb) /\ x \in Seq(Nat) /\ Len(x) \in Nat
  BY <1>1, LimbArrayOf
<1>3. t \in 0 .. n /\ (t = 0 \/ x[t] # 0) /\ \A i \in t + 1 .. n : x[i] = 0
  BY <1>1, <1>2, CryptTrimOf
<1>4. CryptValue(x, n) = CryptValue(x, t)
  <2>1. t \in Nat /\ n \in Nat /\ t <= n /\ n <= Len(x)
    BY <1>1, <1>2, <1>3
  <2> QED  BY <1>2, <1>3, <2>1, CryptValueZeros
<1>5. /\ CryptValue(task.down.limbs, task.down.n) = CryptValue(x, n) \div CryptWeight(k)
      /\ \A i \in 1 .. Len(x) : i > task.down.n => task.down.limbs[i] = 0
  BY <1>1, <1>2, CryptShiftDownOf
<1>6. /\ CryptValue(task.up.limbs, task.up.n) = (CryptValue(x, n) * CryptWeight(k)) % CryptWeight(Len(x))
      /\ \A i \in 1 .. Len(x) : i > task.up.n => task.up.limbs[i] = 0
  BY <1>1, <1>2, CryptShiftUpOf
<1> QED  BY <1>3, <1>4, <1>5, <1>6 DEF x, n, t, k

LEMMA InvPairs == HIInv => PairsCompareMultiply
<1> SUFFICES ASSUME HelperInv(task), task.op = "pair"
             PROVE  LET a == CryptValue(task.x, Len(task.x))  b == CryptValue(task.y, Len(task.y))
                        p == CryptValue(task.product, Len(task.product))
                    IN  /\ Last(task.x) # 0 /\ Last(task.y) # 0 =>
                             task.order = IF a > b THEN 1 ELSE IF a < b THEN -1 ELSE 0
                        /\ IF Len(task.x) = 1 THEN p = a * b ELSE p <= a * b
  BY DEF HIInv, PairsCompareMultiply
<1> DEFINE x == task.x  y == task.y
           a == CryptValue(x, Len(x))  b == CryptValue(y, Len(y))
<1>1. /\ x \in LimbArrays /\ y \in LimbArrays
      /\ task.order = CryptCompare(x, Len(x), y, Len(y)) /\ task.product = CryptProduct(x, y)
  BY DEF HelperInv
<1> HIDE DEF x, y
<1>2. x \in Seq(CryptLimb) /\ y \in Seq(CryptLimb) /\ Len(x) > 0 /\ Len(y) > 0
  BY <1>1, LimbArrayOf
<1>3. ASSUME Last(x) # 0, Last(y) # 0
      PROVE  task.order = IF a > b THEN 1 ELSE IF a < b THEN -1 ELSE 0
  <2>1. x[Len(x)] # 0 /\ y[Len(y)] # 0
    BY <1>3 DEF Last
  <2> QED  BY <1>1, <1>2, <2>1, CryptCompareOf
<1>4. /\ CryptValue(task.product, Len(task.product)) <= a * b
      /\ Len(x) = 1 => CryptValue(task.product, Len(task.product)) = a * b
  BY <1>1, <1>2, CryptProductOf
<1> QED  BY <1>3, <1>4 DEF x, y

\* The constant-time helpers compute what their names say: a range of limbs is wiped
\* and copied whole, a move is right however the two overlap, trimming and shifting by
\* limbs keep the value they should, numbers compare as their values do, and a product
\* is exact for one limb and never too large; for every limb size, radix, array length
\* and value (crt_misc_util.c:31-119, crt_bnum_util.c:50-124, crt_mul.c:42-62).
THEOREM CryptHelpersSound == Spec => []CryptHelpersExact
<1>1. HIInv => CryptHelpersExact
  BY InvRanges, InvMoves, InvLimbs, InvPairs DEF CryptHelpersExact
<1> QED  BY <1>1, CryptHelperInvariant, PTL
=============================================================================
