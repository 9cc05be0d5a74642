-------------------------------- MODULE Entropy --------------------------------
(***************************************************************************)
(* The random bytes of intrinsics/intrinsics.c and crt_intrin.c: the        *)
(* processor's generator, the system's calls, and what falls back on what.  *)
(* A generator that is empty, a signal, a short read, a missing call and a  *)
(* device that cannot be opened are outcomes of each step.                  *)
(*                                                                         *)
(* Of the buffer the model keeps how many of its first bytes hold what a    *)
(* source produced (stored), beside what the code counts (done, written).   *)
(* Statuses: "ok" is 0, "failed" -1, "fatal" -2 and "one" 1.                *)
(***************************************************************************)
EXTENDS CallState

CONSTANTS
  WordBytes,   \* bytes of one draw: 8 in the code
  ChunkBytes,  \* most bytes getentropy gives: 256 in the code
  PoolBytes,   \* bytes of a pool of __GET_ENTROPY_PQC, and its retries: 512 in the code
  FastRetries, \* retries of __GET_ENTROPY_FAST: 32 draws, 3 system calls in the code
  MaxBytes,    \* bound on the bytes asked for
  MaxRetries   \* bound on the retries asked for

ASSUME EntropyAssumption ==
  /\ {WordBytes, ChunkBytes, PoolBytes} \subseteq Nat \ {0}
  /\ {FastRetries, MaxBytes, MaxRetries} \subseteq Nat

\* The system the library is built for.
Systems == {"linux", "bsd", "ios", "windows", "other"}

\* A call that fills a buffer of len bytes; t holds what is its own.
Filling(op, len, max) ==
  [op |-> op, status |-> IF len = 0 THEN "ok" ELSE "running", len |-> len, max |-> max,
   done |-> 0, stored |-> 0, written |-> 0, retries |-> 0]

\* t, and what only more has.
With(t, more) ==
  [f \in DOMAIN t \cup DOMAIN more |-> IF f \in DOMAIN t THEN t[f] ELSE more[f]]

\* Mutant: what is left is not counted down.
RemWhole(t) == t.len

Rem(t) == t.len - t.done

\* Mutant: a short read passes for the whole one.
AdvanceShort(t, n, kept) ==
  [t EXCEPT !.done = @ + n, !.written = @ + n, !.stored = Larger(@, t.done + kept), !.status = "ok"]

\* n bytes arrived; the loop ends when none is left.
Advance(t, n, kept) ==
  [t EXCEPT !.done = @ + n, !.written = @ + n, !.stored = Larger(@, t.done + kept),
            !.status = IF n = Rem(t) THEN "ok" ELSE "running"]

Stop(t, status) == [t EXCEPT !.status = status]

\* Mutant: the retries are counted by a flag, which the second one clears.
AgainFlag(t) == [t EXCEPT !.retries = (@ + 1) % 2]

Again(t) == [t EXCEPT !.retries = @ + 1]

-----------------------------------------------------------------------------
(* The processor's generator: __CPU_DBRG_SEED__, __CPU_TRNG_SEED__ *)

\* fitted: the dispatch table has a generator, not _cintrin_shallow_rng.
SeedTask(len, max, crypt, fitted) ==
  With(IF fitted THEN Filling("seed", len, max) ELSE Stop(Filling("seed", len, max), "failed"),
       [crypt |-> crypt])

CallSeed ==
  \E len \in 0 .. MaxBytes, max \in 0 .. MaxRetries, crypt, fitted \in BOOLEAN :
    Enter(SeedTask(len, max, crypt, fitted))

\* The strict copy of the last bytes has no body.
Copied(t, n) == IF t.crypt /\ n < WordBytes THEN 0 ELSE n

\* One draw: err is 0, 1 (empty) or 2 (dead).
Draw ==
  /\ During("seed")
  /\ \/ task' = Stop(task, "fatal")
     \/ /\ task.retries > task.max
        /\ task' = Stop(task, "failed")
     \/ /\ task.retries <= task.max
        /\ LET n == Smaller(WordBytes, Rem(task)) IN task' = Advance(task, n, Copied(task, n))
     \/ /\ task.retries <= task.max
        /\ task' = Again(task)

-----------------------------------------------------------------------------
(* The system's calls *)

\* Mutant: the device stays open when a read fails.
ClosedOnEnd(t) == IF t.status = "ok" THEN [t EXCEPT !.fd = "closed"] ELSE t

\* Every way out but one closes the device.
ClosedOn(t) == IF t.status # "running" THEN [t EXCEPT !.fd = "closed"] ELSE t

\* ___ENTROPY_URANDOM on the buffer of t, from its start.  wild: the address
\* of the count is made of the count, and the first bytes are counted there.
Urandom(t, opened, wild) ==
  With([op |-> "urandom", status |-> IF opened THEN "running" ELSE "failed", done |-> 0,
        retries |-> 0, fd |-> IF opened THEN "open" ELSE "closed", wild |-> wild], t)

ReadUrandom ==
  /\ During("urandom")
  /\ \/ \E n \in 1 .. Rem(task) :
          task' = IF task.wild THEN Stop(task, "crash") ELSE ClosedOn(Advance(task, n, n))
     \/ task' = ClosedOn(Stop(task, "failed"))
     \/ /\ task.retries > task.max
        /\ task' = Stop(task, "failed")
     \/ /\ task.retries <= task.max
        /\ task' = Again(task)

\* ___ENTROPY_LINUX: a kernel that does not know the call says so at once.
Getrandom ==
  /\ During("getrandom")
  /\ \/ \E n \in 1 .. Rem(task) : task' = Advance(task, n, n)
     \/ task' = Stop(task, "failed")
     \/ /\ task.done = 0 /\ task.retries = 0
        /\ \E opened \in BOOLEAN : task' = Urandom(task, opened, TRUE)
     \/ /\ task.retries <= task.max
        /\ task' = Again(task)

\* ___ENTROPY_DARWIN and ___ENTROPY_IOS, by chunks; the first falls back on
\* the device when the call is missing or not allowed.
Getentropy ==
  /\ During("getentropy")
  /\ \/ LET n == Smaller(ChunkBytes, Rem(task)) IN task' = Advance(task, n, n)
     \/ task' = Stop(task, "failed")
     \/ /\ task.system = "bsd"
        /\ \E opened \in BOOLEAN : task' = Urandom(task, opened, FALSE)

\* ___ENTROPY_WIN64: a provider, all bytes at once, the provider closed.
Bcrypt ==
  /\ During("bcrypt")
  /\ task' = Advance(task, task.len, task.len) \/ task' = Stop(task, "failed")

\* __GET_ENTROPY_UNBL.
SystemTask(system, len, max) ==
  LET call == CASE system = "linux" -> "getrandom" [] system \in {"bsd", "ios"} -> "getentropy"
                [] system = "windows" -> "bcrypt" [] OTHER -> "none"
      t    == With([system |-> system], Filling(call, len, max))
  IN  IF system = "other" THEN Stop(t, "one") ELSE t

-----------------------------------------------------------------------------
(* __GET_ENTROPY_FAST: the processor, the system, the clock *)

CallFast ==
  \E len \in 0 .. MaxBytes, system \in Systems, fitted \in BOOLEAN :
    LET fast == [op |-> "fast", status |-> "running", len |-> len, system |-> system, stored |-> 0]
    IN  task = Idle /\ task' = With([outer |-> fast], SeedTask(len, FastRetries, FALSE, fitted))

\* Mutant: a remainder makes the last whole word a part of it.
WholeWordsShort(n) == IF n % WordBytes = 0 THEN n ELSE ((n \div WordBytes) * WordBytes) - WordBytes

\* The bytes of the whole words of n, which __jitter_harvest fills.
WholeWords(n) == (n \div WordBytes) * WordBytes

\* A source of the fast call ended.
FastResumes ==
  /\ Nested /\ Stopped /\ task.outer.op = "fast"
  /\ LET fast == [task.outer EXCEPT !.stored = Larger(@, task.stored)]
     IN  task' = CASE task.status \in {"ok", "crash"} -> Stop(fast, task.status)
                   [] task.status \notin {"ok", "crash"} /\ task.op = "seed" ->
                        With([outer |-> fast], SystemTask(fast.system, fast.len, FastRetries))
                   [] OTHER -> Stop([fast EXCEPT !.stored = Larger(@, WholeWords(fast.len))], "ok")
=============================================================================
