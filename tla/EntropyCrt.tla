------------------------------- MODULE EntropyCrt -------------------------------
(***************************************************************************)
(* The random bytes that take the same time whatever arrives                *)
(* (intrinsics/crt_intrin.c): a fixed number of passes, results taken over  *)
(* by masks.  The source marks most of it as unfinished; it is modelled as  *)
(* it stands, with the comparisons of WordArith, which answer 0 or 1.       *)
(***************************************************************************)
EXTENDS Entropy

-----------------------------------------------------------------------------
(* __internal_write_seed *)

\* sum is global_status.  room: the bytes of the block that buf points into.
CrtSeedTask(len, max, room, fitted) ==
  With([op |-> "crtseed", status |-> IF fitted THEN "running" ELSE "failed", room |-> room,
        passes |-> 0, place |-> 0, sum |-> 0], Filling("crtseed", len, max))

CallCrtSeed ==
  \E len \in 1 .. MaxBytes, max \in 0 .. MaxRetries, fitted \in BOOLEAN :
    Enter(CrtSeedTask(len, max, len, fitted))

CrtSeedPasses(t) == (t.len + WordBytes - 1) \div WordBytes + t.max

\* The masks are 0 or 1 where all ones are meant: sum & ~1 for a dead
\* generator, sum + ((-1 - sum) & 1) when the retries ran out, and rem & 1 & 1
\* for a write.  Every pass writes a whole word, of a buffer never filled.
CrtSeedPass ==
  /\ During("crtseed") /\ task.passes < CrtSeedPasses(task)
  /\ \E err \in {0, 1, 2} :
       LET retries == task.retries + (IF err = 1 THEN 1 ELSE 0)
           sum     == IF retries > task.max THEN 1 ELSE IF err = 2 THEN 0 ELSE task.sum
           counts  == err = 0 /\ sum = 0 /\ Rem(task) % 2 = 1
           n       == IF counts THEN Smaller(WordBytes, Rem(task)) ELSE 0
           place   == task.place + WordBytes
       IN  task' = [task EXCEPT !.passes = @ + 1, !.retries = retries, !.sum = sum,
                      !.done = @ + n, !.written = @ + n, !.place = place,
                      !.status = IF place > task.room THEN "undefined" ELSE "running"]

CrtSeedEnds ==
  /\ During("crtseed") /\ task.passes = CrtSeedPasses(task)
  /\ task' = Stop(task, IF task.sum = 0 THEN "ok" ELSE "one")

-----------------------------------------------------------------------------
(* ___ENTROPY_CSURANDOM, which nothing calls yet *)

CallCrtUrandom ==
  \E len \in 0 .. MaxBytes, max \in 0 .. MaxRetries, opened \in BOOLEAN :
    Enter(With([op |-> "crturandom", status |-> "running", passes |-> 0,
                sum |-> IF opened THEN 0 ELSE -1], Filling("crturandom", len, max)))

\* Mutant: the signals that are forgiven have no pass of their own.
CrtUrandomPassesShort(t) == t.len

CrtUrandomPasses(t) == t.len + t.max

\* A pass reads into the buffer while it should, and nothing into a word of
\* its own otherwise.
CrtUrandomPass ==
  LET reads == task.sum = 0 /\ Rem(task) > 0
      next  == [task EXCEPT !.passes = @ + 1]
  IN  /\ During("crturandom") /\ task.passes < CrtUrandomPasses(task)
      /\ \/ reads /\ \E n \in 1 .. Rem(task) : task' = [Advance(next, n, n) EXCEPT !.status = "running"]
         \/ reads /\ task' = [next EXCEPT !.retries = @ + 1,
                                !.sum = IF task.retries + 1 > task.max THEN -1 ELSE 0]
         \/ reads /\ task' = [next EXCEPT !.sum = -1]
         \/ ~reads /\ task' = next

CrtUrandomEnds ==
  /\ During("crturandom") /\ task.passes = CrtUrandomPasses(task)
  /\ task' = Stop(task, IF task.sum = 0 THEN "ok" ELSE "failed")

-----------------------------------------------------------------------------
(* __GET_ENTROPY_PQC: a pool from the processor, one from the system, mixed *)

PqcRetries == PoolBytes

CallPqc ==
  \E len \in 1 .. MaxBytes, system \in Systems, trng, drbg \in BOOLEAN :
    Enter([op |-> "pqc", status |-> "running", len |-> len, system |-> system,
           trng |-> trng, drbg |-> drbg, processed |-> 0, bare |-> 0])

Chunk(pqc) == Smaller(PoolBytes, pqc.len - pqc.processed)

\* A chunk begins with the processor: the true generator, and the other one
\* when the table has none.
PqcHardware ==
  /\ During("pqc")
  /\ task' = With([outer |-> task], CrtSeedTask(Chunk(task), PqcRetries, PoolBytes, task.trng \/ task.drbg))

\* ___ENTROPY_CSDARWIN tries as often as there are bytes and retries, and
\* always reports success.
DarwinPasses(t) == t.len + t.max
DarwinPass ==
  /\ During("crtdarwin") /\ task.passes < DarwinPasses(task)
  /\ LET next == [task EXCEPT !.passes = @ + 1]
         n    == Smaller(ChunkBytes, Rem(task))
     IN  task' = next \/ task' = [Advance(next, n, n) EXCEPT !.status = "running"]
DarwinEnds ==
  /\ During("crtdarwin") /\ task.passes = DarwinPasses(task)
  /\ task' = Stop(task, "ok")

\* __GET_ENTROPY_CSUNBL; the others are those of Entropy.
CrtSystemTask(system, len, max) ==
  IF system # "bsd" THEN SystemTask(system, len, max)
  ELSE With([op |-> "crtdarwin", system |-> system, passes |-> 0], Filling("crtdarwin", len, max))

\* The processor had nothing to give (the clock fills whole words), or it
\* wrote past the pool; then the system is asked.
PqcSystem ==
  /\ Nested /\ Stopped /\ task.outer.op = "pqc" /\ task.op = "crtseed"
  /\ task' = IF task.status = "undefined" THEN Stop(task.outer, "undefined")
             ELSE With([outer |-> task.outer], CrtSystemTask(task.outer.system, task.len, PqcRetries))

\* The bytes of pool_os: what the system gave, and whole words of the clock.
Pooled(t) == IF t.status = "ok" THEN t.done ELSE t.written + WholeWords(t.len - t.written)

\* The pools are mixed into the buffer, and the next chunk begins.
PqcMix ==
  /\ Nested /\ Stopped /\ task.outer.op = "pqc" /\ task.op # "crtseed"
  /\ LET pqc  == task.outer
         held == Larger(WholeWords(task.len), Pooled(task))
         next == [pqc EXCEPT !.processed = @ + task.len, !.bare = @ + task.len - held]
     IN  task' = CASE task.status = "crash" -> Stop(pqc, "crash")
                   [] task.status # "crash" /\ next.processed = pqc.len -> Stop(next, "ok")
                   [] OTHER -> next

-----------------------------------------------------------------------------
(* Properties *)

EntropyBegins == CallSeed \/ CallFast \/ CallCrtSeed \/ CallCrtUrandom \/ CallPqc
EntropySteps  == Draw \/ ReadUrandom \/ Getrandom \/ Getentropy \/ Bcrypt \/ FastResumes
                 \/ CrtSeedPass \/ CrtSeedEnds \/ CrtUrandomPass \/ CrtUrandomEnds
                 \/ PqcHardware \/ DarwinPass \/ DarwinEnds \/ PqcSystem \/ PqcMix

Sources == {"seed", "urandom", "getrandom", "getentropy", "bcrypt"}

\* A source that reports success has filled the buffer and counted it, across
\* short reads, signals and the switch to the device; one that reports failure
\* has not.  Two exceptions: the last bytes of a secure draw are counted and
\* not copied (intrinsics.c:208, 238), and a switch after some chunks counts
\* them twice (intrinsics.c:329).
FilledWhenOk ==
  Stopped /\ task.op \in Sources /\ task.len > 0 =>
    IF task.status = "ok"
      THEN /\ task.stored = (IF task.op = "seed" /\ task.crypt THEN WholeWords(task.len) ELSE task.len)
           /\ IF task.op = "urandom" THEN task.written >= task.len ELSE task.written = task.len
      ELSE task.done < task.len

\* The device is closed on every way out but one: when the signals outlast the
\* retries it stays open (intrinsics.c:274).
DeviceClosed ==
  Stopped /\ task.op = "urandom" /\ task.status # "crash" =>
    task.fd = "closed" \/ task.retries > task.max

\* __GET_ENTROPY_FAST reports nothing: its callers rely on whole words being
\* random whatever failed (prime_test.c:223-224); only a last part of a word
\* can be left, and only when processor and system both refused.
FastFills ==
  Ended /\ task.op = "fast" /\ task.status = "ok" => task.len - task.stored < WordBytes

\* The passes of ___ENTROPY_CSURANDOM are just enough: one byte at a time and
\* as many signals as are forgiven, and still it succeeds exactly when the
\* buffer is full (crt_intrin.c:292-293).
PassesSuffice ==
  Ended /\ task.op = "crturandom" /\ task.len > 0 => (task.status = "ok" <=> task.done = task.len)

\* A chunk of __GET_ENTROPY_PQC has in one pool or the other a source for all
\* bytes but a last part of a word (crt_intrin.c:433-486), unless the
\* processor's generator wrote past its pool.
PqcCovers ==
  Ended /\ task.op = "pqc" /\ task.status = "ok" =>
    task.bare <= (task.len \div PoolBytes + 1) * (WordBytes - 1)

\* The retries are those of the caller, and the buffer is never exceeded.
EntropyTypeOK ==
  task.op \in Sources \cup {"crtdarwin", "crturandom"} =>
    /\ task.done \in 0 .. task.len /\ task.stored \in 0 .. task.len
    /\ task.retries \in 0 .. task.max + 1

\* Every source of random numbers delivers what it reports and stays inside the
\* buffer, through signals, short reads, refusals and the switch to another source.
SourcesSound ==
  /\ EntropyTypeOK /\ FilledWhenOk /\ DeviceClosed
  /\ FastFills /\ PassesSuffice /\ PqcCovers
=============================================================================
