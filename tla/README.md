# libdnml in TLA+

Specifications, model checks and machine-checked proofs for libdnml (`dynamol`), an
arbitrary-precision integer library in C. Every definition is translated from the source at
the lines `PROJECT.json` gives for it; where a comment or a document disagrees with the code,
the model follows the code, and the disagreement is reported below.

To check: `tlc -config X.cfg M` for the runs of `PROJECT.json`, `tlapm M.tla` for the modules
whose name ends in `Proofs`.

Contents: [1 the system](#1-the-system) · [2 the modules](#2-the-modules) ·
[3 the runs](#3-the-runs) · [4 the proofs](#4-the-proofs) ·
[5 where the code and its texts disagree](#5-where-the-code-and-its-texts-disagree) ·
[6 what is not modelled](#6-what-is-not-modelled) · [7 the plan](#7-the-plan)

## 1 The system

A number (`bigInt`) is a header: an array of 64-bit limbs, `n` limbs in use, the capacity
`cap` and a sign. A call of the API validates its header arguments, ensures capacity, runs a
magnitude kernel that checks nothing, trims leading zeros and sets the sign. Kernels that need
temporaries take them from one of two thread-local **arenas** in a frame opened by
`arena_mark` and closed by `arena_rewind`; a caller sizes the arena beforehand by a workspace
function, so that the recursion below it never has to grow it. (gcd and lcm by a word and the text calls
instead open the frame and grow the arena inside it.) Single-limb primitives are
reached through **dispatch tables** of function pointers, which `_libdnml_init` fills after it
has detected the processor.

There are no locks and no threads of the library's own. What threads share is the process-wide
tables, filled by the constructor of every translation unit; what they do not share are the
arenas (one pair per thread) and the flag `_libinit` (one per translation unit, for it is
`static` in a header).

### Components

| Component | State | Operations | Interacts with | Hard part | What makes it correct | Modelled |
|---|---|---|---|---|---|---|
| Scratch arena, `include/_libdnml_mem/arena.h`, `_ctx.h` | `base`, `cap`, `offset`, `poisoined` | init, grow, alloc, galloc, mark, rewind, clear, destruct | every kernel with temporaries | growth moves the buffer, also inside a frame; growth fails; nested frames rewind in any order; a frame is forgotten | no two holders of a limb, frames nest; no block outside the buffer, which fails | yes |
| Arena accessors, `dynamol/_dynamol_arena.c` | the two arenas of a thread | lazy use, init, clean-up | arena, lifecycle | any order of the three, half-failed init | the pair is there after a success; every buffer has an owner | yes |
| Multiplication dispatcher and frames, `calc_algo/perf_based/mul.c` | the C stack and the arena below it | schoolbook, Karatsuba, Toom-3, workspace functions | arena, API | workspace formula in another function than the use; thresholds compared differently; overflow deep in the recursion | workspace suffices, offset restored on every return, results fit | yes, FFT as a consumer of its workspace |
| Karatsuba and Toom-3, same file, `algo_base/add_sub.c`, `util/perf_util/bigNum_utils.c` | the temporaries of one frame | evaluate, multiply, interpolate, recompose | limb kernels | signs ignored by some kernels and followed by others; exact division; stored lengths with leading zeros | the result is the product; no temporary overflows | yes |
| bigInt arithmetic, `dynamol/bigint/bigInt.c` | the header | add, sub, mul, div/mod by a word, copies, storage, comparisons, conversions | limb kernels, arena, heap | carries, signs, fast paths for 0 and 1, capacity ensured elsewhere, aliasing | the header contract after every sequence of calls; exact results | calls in place and functional, comparisons, conversions |
| bigInt bitwise, same file | the header and the limbs above `n` | not, shifts, six operations in five families | – | limbs above `n` brought back into use, shifts across limbs, operands of unequal length | bit for bit the operation named | yes |
| Library lifecycle, `libdnml_base.h`, `intrinsics/intrin_base.c`, `include/dnml_sys/__hwcaps.c` | flags per unit, tables per process, arenas per thread | init, constructor, clean-up | everything that calls through a table | units and threads inside init at once, half-failed init, init after clean-up | success means filled tables and both arenas | yes |
| Division, Newton, modulo, `perf_based/div*.c`, `mod.c`, heap twins | temporaries | short division, Burnikel-Ziegler, Newton reciprocal | multiplication, arena | which kernel a length is sent to; debugging output to a NULL file in the recursion | `a = qb + r`, `r < b` | a one-word divisor, a shorter dividend, the dispatch and how the general case ends |
| Modular multiplication and exponentiation, `mod_mulexp.c` | temporaries, window table | Montgomery, Barrett, window loop | division | reduction bounds | result reduced and congruent | one word only |
| gcd, `gcd*.c`, heap twin | temporaries | Stein, Lehmer, subquadratic | division, arena | shifts of a number that ends in a zero limb; arena grown while a frame is open | divides, is greatest | Stein |
| Powers and roots, `pow_root.c`, heap twin | temporaries | squaring, windows, Newton's iteration | multiplication, division | start of the iteration; powers through `double` | exact power; greatest root not above | squaring; roots of a word, and the short cuts |
| Primality, `prime_test.c`, `ptest_bpsw.c`, heap twin | temporaries | wheel, Miller-Rabin, Baillie-PSW | modular power, roots | skipped residues, bases that are multiples, which test a length is sent to | a prime is accepted, a composite refused | one word, and the entry of the others |
| FFT and Toom-4/5, `mul_fft.c`, `mul_toom_*.c`, `mv_matmul/` | temporaries | butterflies, pointwise products | multiplication | thresholds of thousands of limbs | convolution | no |
| Heap mirror, `calc_algo/heap_based/` | malloc'ed temporaries | the same algorithms | heap | every path frees every temporary | no leak, no double free | where a call's outcome differs from the arena's |
| Text and binary I/O, `bigInt_io.c`, `str_parse.c`, `tables.c` | the number, the I/O arena, the stream | construct, assign, print, scan; binary forms unwritten | arena, heap, C streams | base prefixes, cut lines, growth in the middle of a line, every exit gives its blocks back | what is read and shown is what the line means; a refusal keeps the number; the next line is kept | every call |
| Single-limb intrinsics, `intrinsics/` | – | sum, difference, products, quotient, inverse, scans, in three kits | tables | carry and borrow flags, the bit that leaves a shift, tables written by hand | each kit computes the same, and the right, word | the C forms |
| Random bytes, `intrinsics.c`, `crt_intrin.c` | the device's descriptor, two pools | processor's seed, system calls, device, fast, secure, mixed | the system | short reads, signals, a source that fails half-way, loops with a fixed number of passes | success means filled; the device is closed; it ends | yes |
| cryptInt, `src/drypto/`, `util/crt_util/`, `crt_based/` | owned buffers of the heap | storage, words, copies, arithmetic without branches | heap, tables | ownership over failing and moving reallocations; wiping; both arms of every choice are computed | each buffer has one owner; no old limb stays; validation tells good from bad | storage, words, helpers; the rest refuses every operand |
| Random numbers, small helpers | – | – | prime tests of many limbs | – | – | the helpers |
| Build files, benchmarks, tests, documents | – | – | – | – | – | no behaviour |

## 2 The modules

    ScratchPool ◄── Arena                      what an arena promises ◄── the bump allocator
                    MulFrames                  the recursion of multiplication on an arena
    MulAlgebra  ◄── MulTemps                   one frame's arithmetic ◄── the same on limb headers
                    LibLifecycle               init and clean-up of units and threads
                    BigIntBits                 bitwise calls, limbs as sets of bits

    LimbKernels ─► BigIntMut ─► BigIntCompare ─► BigIntFunc
         magnitude kernels, calls in place, calls that only read, calls that make a number
    StrParse ─► BigIntText ─► BigIntPrint ─► BigIntScan ─► BigIntIO
         scanners, text to number, number to text, number from a stream, one client
    CallState ─► WordArith
              ─► Entropy ─► EntropyCrt
              ─► BigIntRoots
              ─► PrimeTests
              ─► CryptUtil ─► CryptInt
         and all of them ─► WordCalls         calls that keep nothing between them

`◄──` is refinement (INSTANCE … WITH), `─►` EXTENDS. `MC…` modules give the constants their
small values; `…Proofs` modules hold the theorems. `LimbProofs` is about `LimbKernels`, `MutProofs`
(which extends it) about the three modules above it, `MulProofs` about `MulFrames` and `MulAlgebra`,
`RuntimeProofs` about `Arena`, `LibLifecycle` and `MulTemps`, `WordProofs` about the random bytes and
cryptInt, `ArithProofs` (which extends it) about `WordArith`.

**Arena / ScratchPool.** `base` is the identity of a buffer (0 is NULL); a moving `realloc`
gives a new one, so a dangling block is one whose `base` is not the arena's. The marks and
blocks the callers hold are the only state added. One action per function: `InitArena`,
`ArenaGrow` (in `Presize`, in place, moved or failed), `ArenaMark`, `ArenaAlloc`, `ArenaGalloc`,
`ArenaRewind` to *any* open mark, `Cleanup`, the accessors `UseArena` and `InitDynamol`.
There are three kinds of callers. One sizes the arena before it opens a frame (`Presize`, as the
multiplication does). A kernel marks, allocates and rewinds. And gcd and lcm by a word, and every text call that
converts digits, open a frame and take one growing block of it (`GrowingCall`): the arena may then be reallocated,
moved or poisoned with the frame open. `arena_galloc` returns a place one limb above the room it
made (the block's `past` is 1), so nobody may take anything on top of its block: `GallocHeld` keeps the other callers out, as
the calls of today do (the block is the first and only one of its frame). An lcm that runs
out of heap returns without its rewind (`ForgetFrame`). `GrowDepth` is the deepest frame in which
a caller grows: 1 today; the theorems, and the run, allow more.
`ScratchPool` says what is promised: frames of limbs, none granted
twice while held. `ImplementsPool` maps the blocks of each frame to sets of limbs.

**MulFrames.** `stack` is the C stack of Karatsuba and Toom-3 calls with operand lengths, the
room of the result, the mark and the next recursive call. Values are abstracted; a computed
temporary may lose any of `Trims` leading zero limbs, so lengths in the recursion are not
determined by the operands. `MagMul` is a caller that sizes the arena first, `KernelMul` one
that already holds limbs. The workspace functions are recursive in the code; they are CONSTANT
functions constrained by their own recursion (an ASSUME that the runs evaluate), so that the
proofs can use the equation without a recursive definition.

**MulAlgebra / MulTemps.** The same statements twice, one action per statement of the two
algorithms. In `MulAlgebra` a temporary is an integer and each kernel does to it what its code
does to a number (drop the sign, follow it, halve the magnitude). In `MulTemps` a temporary is
a header: value, stored length *with* possible leading zeros, sign, and `hi`, the number of limbs
ever written. `ImplementsAlgebra` maps headers to integers.

**LimbKernels / BigIntMut / BigIntCompare.** Magnitudes are sequences of limbs over a small
radix; `LimbKernels` has the kernels loop by loop, as functions of the limb defined by recursion
or by index, the sum and the difference without the carry the code drops. `BigIntMut` is one number under any sequence of
in-place calls, with every allocation that may fail. `call` records the last call for the action properties; no action
reads it. `BigIntCompare` adds the calls that read only, as operators judged in every state
`BigIntMut` reaches. `BigIntFunc` adds the functional calls, whose result the client keeps in
`x`, and the rest of the arithmetic: quotients and remainders by a number, Euclidean remainders,
squares, powers, gcd, lcm, modular addition. A limb has an even number of bytes over an even radix of
bytes, two halves of a word: `HalfMax` is the `UINT32_MAX` of the squares. Under the default strategy a general case runs its
arena kernel and then, because that branch runs into the label of the next, its heap kernel: both
are in the action, in that order, and a kernel that leaves the array made for it ends the call
with `"OVERRUN"`.

**BigIntBits.** A limb is a set of bits and a number includes the *whole* array, because
several calls bring limbs above `n` back into use: what an earlier call left there is explicit,
what `realloc` adds is any limb. An operator gives the result, or the set of results, of each call. A shift down
by limbs calls `memcpy` on ranges that overlap when fewer than half of the limbs go (`bigNum_utils.c:223`):
`Sources` are the limbs it may have read, before or after they were written, and `RLShift` a set.

**StrParse / BigIntText / BigIntPrint / BigIntScan / BigIntIO.** A text is a sequence of
characters, a scanner gives its code and the position it leaves. A number is its value, length,
capacity and sign; limbs a call brings into use without writing are an unset value of their own.
Each family of calls (terminated or counted, with a prefix in the text or a base of the caller's)
is one operator that gives the *set* of its outcomes: one for each allocation, growth or read
that may fail. `BigIntIO` is the client: one number, the I/O arena and a stream, call after call.
A line is known by its parts, so that what it means is known without reading it, and the
properties compare the two.

**CallState / WordCalls.** A call of the functions that keep nothing between calls is the record
`task`: its arguments and locals. It begins, takes one step per pass of its loop, and ends with a
status; a call inside another keeps its caller in `outer`. `"crash"` and `"undefined"` are ends.

**WordArith.** The primitives of the three kits (compiler, portable, constant-time) over words of
`W` bits; the bit scans over 64, as sets of bits, with the code's own constants and tables.

**Entropy / EntropyCrt.** The processor's generator, `getrandom`, `getentropy`, BCrypt and the
device as environments that may be empty, interrupted, short, absent or closed at each step;
`done` and `written` are what the code counts, `stored` what is really there.

**BigIntRoots / PrimeTests.** One step is a pass of Newton's iteration, a divisor of the wheel, or
a base of Miller-Rabin. The dispatchers are part of the model, with the cases they leave out.

**CryptUtil / CryptInt.** The helpers on arrays of bytes and limbs, then two cryptInts over a heap
whose `realloc` fails, keeps the place or moves. `spoiled` records a call after which pointers and
buffers no longer belong together.

**LibLifecycle.** Each thread is before some statement of `_libdnml_init` or
`_libdnml_cleanup`; `libinit` is per translation unit, `table` per process, the arenas per
thread. A table entry is `"null"`, `"portable"` (chosen before the processor was detected) or
`"probed"`. `ctors` says whether the compiler knows constructors: if so the main thread runs
the init of every unit before anything else happens.

### Choices that matter

* **Release build.** With `_DNML_DEBUG_MODE` a failed assertion leaves the process; the models
  are of the other build, where it returns a status. The allocation strategy is the default.
* **Undefined contents.** `malloc` and `realloc` leave any limbs. In `BigIntBits` they are
  explicit. In `BigIntMut` the two places that read above `n` are nondeterministic.
* **Aliasing** of operands is forbidden by rule 8 of `BIGNUM_CONTRACT.txt`; operands are other
  numbers.
* **A header that breaks rules 1–4** is followed no further.
* Where a call goes wrong the model does what the code does. The property then names the
  exception, in its formula and its comment; nothing in the model is repaired.

## 3 The runs

| Run | What it checks | Bounds |
|---|---|---|
| `scratch` | of the arena `FramesNested`, `BlocksDisjoint`, `PoisonSticky`, `ImplementsPool`; of one frame's kernels `WithinCapacity`, `ImplementsAlgebra` | 2 limbs growing to 4, requests of 1 to 3 limbs, 3 nested frames, growth in the first two, 2 buffers; 2-bit limbs, operands of 2 to 6 limbs |
| `mul` | of the recursion `ResultFits`, `Balanced`, `WorkspaceSuffices`, `MagMulFits`; of the algebra `ResultIsProduct`, `DivisionsExact`, `MagnitudesSuffice` | thresholds 4 and 8, operands of 4 to 16 limbs; parts 0, 1, 2, 7, weights 8, 16 |
| `lifecycle` | `ReadyMeansDispatched`, `SuccessHasArenas`, `BuffersOwned` | 2 threads, 2 units, with and without constructors |
| `bigint_mut` | `CoreContract`; `ArithmeticExact`: every calculation, in place and functional; `CopiesExact`; `ContractKept`: what a call leaves the next one accepts, and no kernel leaves its array; `ReadersExact`: comparisons, conversions, Euclidean remainders in every state reached | limbs of four values, up to 4 limbs, capacity up to 5, 15 operands, exponents up to 3, doubles of one bit |
| `bigint_bits` | `BitwiseExact`: six operations in five families, and the shifts; `StaysNormal` | limbs of two one-bit bytes, arrays of up to 4 limbs, shifts by up to 6 |
| `bigint_text` | `ArenaBalanced`, `NumberKept`, `TextReads`, `StreamReads`, `ShowsNumber` | limbs of 7 bits, chunks of 2 characters, lines of up to 5 digits with every kind of prefix, 5 numbers to write to, 18 to print |
| `word_calls` | `WordsExact`, `SourcesSound`, `RootsExact`, `PrimesDecided`; of cryptInt `CryptHelpersExact`, `CryptBuffersOwned`, `CryptWordsClean`; and `CallsEnd` | see below |
| `arena_in_frame` | refutes `BlocksInBuffer` | as `scratch`, growth in the outermost frame only, as today |
| `mul_temps_sparse` | refutes `EvaluatedAtNeg2` | as `scratch`, any parts |
| `lifecycle_reinit` | refutes `SuccessMeansDispatched` | as `lifecycle` |
| `bigint_add_carry` | refutes `CarryStored` | limbs of four values, up to 3 limbs, capacity up to 4 |
| `crypt_validation` | refutes `SoundAccepted` | as `word_calls` |

`scratch` and `mul` each hold two machines that share no variable: `machine` says which of them a
behaviour moves, and the other stays in one initial state, so that the states are the sum of the
two and not the product.

Where a property is a conjunction, its parts have names and comments of their own in the module
(`TextReads` is `InitReadsExact`, `TextMemory`, `WrongRefused` and `ScannersAgree`), and
`PROJECT.json` has a mutant for each part that a plausible slip could break.

**Why the bounds are enough.** In the arena, a capacity of two limbs that doubles once makes every
request either fit, fill exactly, or overflow; three frames are the least where a rewind can skip
one (outermost, skipped, innermost); growth in the second frame is one more than the code does, so that blocks of
an enclosing frame are held when the buffer moves. In `mul` the thresholds are scaled (16 limbs stand for
a little over twice the larger threshold), so three levels of recursion, both algorithms and both
sides of each threshold occur; `InitCap` is small enough for an unsized arena to overflow and
large enough for some operands to fit. In the kernels of `scratch` a limb of two bits makes every carry, borrow
and leading zero occur within two limbs, and the lengths give Toom-3 parts of 0, 1 and 2 limbs and
Karatsuba parts of 0 to 3. In the bigInt runs, a carry or a shift crosses two limb
boundaries and `n = cap` is reached before the bound stops a call. Shifts by 0 to 6 bits of
2-bit limbs include zero, part of a limb, whole limbs, and more than the array holds; explicit
widths are 0 to the array bound. `lifecycle` needs two units, since the flag is per unit, and two
threads, since the tables are shared.

In `bigint_text` a limb of 7 bits is more than any digit (base 64 is the largest) and less than
the values on the lines, so that a number of two and of three limbs is read, printed and scanned;
the I/O arena asks for words where the calls mean bytes, hence a word of two bytes; a chunk of two
characters makes a line end before, at and behind a chunk. The lines have each prefix the code
knows, each way to break one, zeros before the digits, both cases of a letter, and digits that
equal the base. In `word_calls` words of 4 bits enter every pair, quotient and modular product;
inverses have 8 bits, population counts 16, scans 64; draws are of at most 5 bytes with words of
two, chunks of three and pools of four, so that a part of a word, of a chunk and of a pool is left
over; roots are of limbs of 8 bits (and one word of 16, doubles of 11 bits, so that a power rounds
and overflows), around every square and cube where the guess changes its length; prime tests see
every lowest limb below 400 and the odd ones below 700, the published bases and divisors up to 400
(the composites the wheel lets pass occur below). Two cryptInts of at most 2 limbs of 2 bytes take
four calls: enough to build both, move one, change it and use what is left; their helpers run over
every array of at most 3 limbs of 4 values, and every range, move and shift within.

The bounds in the guards and the sets of inputs are `MaxCap`, `MaxDepth`, `GrowDepth`, `MaxBases` (Arena), `MaxLen`,
`MaxDoublings` (MulFrames), `MaxLimbs`, `MaxCap` (BigIntMut), `MaxCap`, `MaxShift`
(BigIntBits), `MaxExp` (BigIntFunc), `Lines`, `Streams`, `Tails`, `Objects`, `Printees`,
`BufLens` (BigIntIO), `MaxValue` (the powers of two an estimate of digits knows, BigIntText), `MaxBytes`, `MaxRetries` (Entropy), `RootValues`, `PowValues`, `LowLimbs`
(roots and primes), `CryptLimbs`, `CryptUses`, `CryptCap`, `CryptWords` (cryptInt). A call that would exceed one is not followed.

`MCSymmetry` permutes translation units only (no property tells units apart, and no liveness
is checked there). `MCView` in `bigint_mut` drops `call` from the fingerprint but for whether it was
`shrink` and whether it broke off, the two cases read in the current state: but for these no action reads `call`, so states
that differ there have the same successors, and TLC checks an action property on every step it
generates, also on those to a state it has seen.

**Liveness.** The library has no scheduler, no queue and no lock; a call runs on the thread of
its caller and waits for nobody. So `WordCalls` assumes weak fairness of the steps of a call, and
of nothing else: no client has to begin a call, and the environments of the random bytes may
refuse or interrupt for as long as the code lets them. `CallsEnd` says that a call begun ends:
through retry counts, fixed passes, a guess that comes down, a divisor that goes up. For the other
modules there is nothing to assume: each action is a whole call, or the end of a call is the end
of the algorithm. `CHECK_DEADLOCK FALSE` is set in `mul_temps_sparse`, where
the algorithm ends; in `scratch` and `mul` a product that is done stays done.

## 4 The proofs

All for every value of the constants that satisfies the module's ASSUME.

| Theorem | Says |
|---|---|
| `RuntimeProofs!ArenaTypeOK`, `ArenaFramesNested`, `ArenaBlocksDisjoint`, `ArenaPoisonSticky` | the properties of the arena, wherever its callers grow it (any `GrowDepth`) and whichever frames they forget |
| `RuntimeProofs!ArenaImplementsPool` | the bump allocator implements the pool, step by step |
| `MulProofs!MulTypeOK`, `MulResultFits`, `MulBalanced`, `MulWorkspaceSuffices`, `MulMagMulFits` | the properties of the recursion in `mul` |
| `MulProofs!AlgebraResultIsProduct`, `AlgebraDivisionsExact`, `AlgebraMagnitudesSuffice` | both algorithms return the product, for all parts and weights |
| `RuntimeProofs!TempsWithinCapacity`, `TempsImplementsAlgebra` | the properties of the kernels in `scratch`: no kernel writes beyond a temporary, and what the headers stand for is the algebra above, for every radix from 4 on, operands of any length, and parts that are dense (below) |
| `RuntimeProofs!TempsEvaluatedAtNeg2` | for such parts p(-2) is what the comment says; `mul_temps_sparse` refutes it for others |
| `RuntimeProofs!LifecycleTypeCorrect`, `SuccessFillsTables`, `SuccessIsAllOrNothing`, `EveryBufferOwned` | the properties of `lifecycle`, for any finite set of threads and units |
| `WordProofs!EntropySound` | `SourcesSound`: a source of random bytes delivers what it reports, within its buffer and its retries |
| `WordProofs!CryptOwned`, `CryptClean` | `CryptBuffersOwned`, `CryptWordsClean`: one owner for each buffer of two cryptInts, and nothing left above a word, whatever calls follow each other |
| `WordProofs!CryptHelpersSound` | `CryptHelpersExact`: ranges, moves, trimming, shifts, comparison and product of the constant-time helpers, for every limb size, radix, length and value |
| `ArithProofs!WordsSound` | `WordsExact`: the arithmetic, comparisons and scans of single words in every kit, for every even width of a word and all words |
| `MutProofs!MutCoreContract`, `MutCopiesExact` | `CoreContract`, `CopiesExact` of all arithmetic calls, in place and functional, for limbs of any width and numbers of any length |
| `MutProofs!MutContractKept` | `ContractKept`: what a call leaves the next one accepts, and no kernel leaves its array, given operands the contract allows |
| `MutProofs!MutReadersExact` | `ReadersExact`: comparisons, conversions and Euclidean remainders by a word, in every state that calls reach |
| `MutProofs!MutArithmeticExact` | `ArithmeticExact`: products, quotients, remainders, sums and differences, greatest common divisors, squares and powers, in place and functional, with a word or a number, for limbs of any width and numbers of any length |
| `MutProofs!InPlaceCalls` | `Spec`, the calls in place, implements `FuncSpec`, so that all of this holds of both |
| `BitsProofs!BitsStayNormal` | `StaysNormal`: the array's contract, and what each bitwise call leaves, for limbs of any width |
| `BitsProofs!BitsExact` | `BitwiseExact`: six operations in five families and the shifts, bit for bit, for limbs of any width and any operands |
| `IOProofs!IOArenaBalanced`, `IONumberKept` | the properties of `bigint_text` about what a call leaves of the arena and of the number, for any lines, streams, numbers and bases |

Each rests on an inductive invariant, stated in the model or at the head of the proofs, checked
with TLC on the constants of its run (of `MulTemps` with operands of 2 and 5 limbs: it takes TLC much longer
than the properties do), and proved with one lemma per action (`ArenaInvariant`, `MulInvariant`,
`AlgebraInvariant`, `TempsInvariant`, `LifecycleInvariant`, `EntropyInvariant`, `CryptInvariant`,
`CryptHelperInvariant`, `WordInvariant`, `MutInvariant`, `SoundInvariant`, `IOInvariant`).

* **Arena.** `BlocksDisjoint` alone is not inductive: an allocation bumps the offset, and
  nothing says the offset is beyond the blocks. `FramesNested` says it is (but for the one limb of
  a growing block, which only the innermost frame holds), and that the blocks of
  a frame lie between its mark and the next, so that a rewind releases whole frames (`EndFrames`, which a forgotten
  frame uses too);
  `OffsetInCap` bounds the offset and `NullIsEmpty` says that an arena without a buffer has no open frame.
  Both properties of blocks are about limbs by their place in the arena: a growth
  that moves the buffer takes the limbs with it, and a pointer into the old buffer is what
  `BlocksInBuffer` is about. It is not a theorem; `arena_in_frame` refutes it. That blocks do not meet although
  `arena_galloc` returns a place one too far rests on its callers, who take nothing else in that frame (`GrowingCall`).
* **MulFrames.** `WorkspaceSuffices` speaks of the outermost call; `Covered` says that *every*
  call on the stack has its workspace left at its own mark, which `Contiguous` (frames tile the
  arena) turns into "the next frame fits". Assumed of the workspace functions: only that they
  satisfy the recursion in `mul.c` on lengths up to `MaxLen`. That the estimate does not shrink
  when an operand grows (a temporary that loses leading zeros needs no more) is proved, for all
  thresholds, from a least counterexample (`LeastElement`, `KWSMonotone`, `TWSMonotone`): the high
  half of a shorter operand may be *longer*, and only the sum of all temporaries is monotone.
  `MagMulFits` is about the two thresholds, which `mag_mul` and the workspace function compare
  differently: it needs Toom-3's estimate to be no less than Karatsuba's (`KWSBelowTWS`), by the
  same least counterexample with Karatsuba's recursion taken twice (`TwoHalvings`), a half of a half
  being no longer than a third; `Presized`, that a sized caller has room for its outermost call, is
  invariant beside `IInv`.
* **MulAlgebra.** The invariant gives every temporary at every statement as a combination of
  the coefficients of the product polynomial; the interpolation divides exactly because the
  numerator is three (or two) times a named integer.
* **MulTemps.** Neither property is inductive. A write stays within its temporary because the number
  written is small, and it is small because it is a combination of the coefficients of the product
  polynomial, which `MulAlgebra`'s invariant gives at every statement; and the kernels compute that
  combination only from headers without leading zeros (`TempsDense`, `PartsKept`), for the
  comparison is by stored length and a difference drops its borrow. So `TempsIInv` has all three, and each step
  proves at once that it is the algebra's step, that it fits and that it leaves its result dense (`Core' /\ Algebra!...`).
  Each kernel has a lemma that says so of one call (`AddWCOf`, `SubWBOf`, `SignedSumOf`, `AddShiftOf`, ...), over
  a small theory of the powers of the radix (`WeightAdd`, `LimbsNeeded`, `LimbsSum`). `Unsigned` is there because
  a product leaves the sign of the header it writes to as it was. Assumed: a radix of at least 4, so that a
  sum of three parts fits one limb more than a part (a limb has 64 bits), and operands of two
  limbs or more (the dispatcher sends shorter ones elsewhere). The theorems have one hypothesis, `PartsDense`: no part
  of an operand of *Toom-3* has a zero top limb. Nothing in the code ensures it, and without it the
  properties fail (section 5, finding 1); Karatsuba needs nothing of its parts but that they fit. The values
  the run gives the parts satisfy it (`MCPartsDense`, an ASSUME that TLC evaluates).
* **LibLifecycle.** `StepsDone` and `FilledSoFar` say what a thread's position in
  `_libdnml_init` implies of the shared state. It is inductive because detection comes first in
  every thread and the capabilities never go away: a second thread that fills a table again writes
  what is there already. `BuffersOwned` needs the cardinality of the live arenas before and after
  a step, `LiveAfter`.

* **Entropy.** The calls are loops over chunks, nested (a pool calls the sources, a source falls
  back on the device), so the invariant `CallInv` describes a call and, in `outer`, the caller that
  waits for it, and says of each source what it has counted (`done`, `written`), what is stored and
  how many retries are left. `SourcesSound` alone says nothing between two chunks. It is an
  invariant of all of `WordCalls`: the other families of calls are shown not to touch it. The whole
  words of a draw use the division with remainder, and that it is unique.
* **CryptInt.** `CryptBuffersOwned` looks at each cryptInt; that an allocation gives a new place
  needs the heap: finite, with nothing at NULL (`HeapOK`), so that `FreshIsNew` finds a place above
  all of them. `CIInv` has one alternative for a history with a wrong call in it (`spoiled`), and
  otherwise: both numbers typed, each buffer with one owner and as long as the capacity says, and zeros
  above the word in a number that was built or given a word. Assumed: sizes do not wrap
  below the capacities of the run (`CryptSizes`).
* **WordArith.** Bits are remainders of halvings, and a word is what its bits stand for (`FromBitsOf`, `BitsOfNumber`, `BitOfFromBits`);
  a word of `W` bits wraps at a power of two (`PowerOf2Add`), and its top bit says which half of the numbers it
  is in (`MsbOf`), which is all the comparisons without a branch look at. The wide product is
  four products of halves, each of its two carries shown to be one or none (`WideMulOf`). The loops
  need an invariant (`WordInv`), for the properties are about the end: of a quotient, that the low word holds
  the bits not taken in yet *above zeros* (`Dividing`), so that its top bit is the next bit of the dividend, and that the
  lost top bit of the remainder decides a pass (`DivPassOf`); of an inverse, how many low bits are
  right (`Inverts`), which each step doubles because the error is squared (`StepInverts`); of a modular
  product, the part of the low word taken in, lowest bit first (`TakenIn`). The scans rest on two facts about
  the code's constants: that the index the magic word gives is a different one for each bit and the tables
  undo it (`TablesUndo`, 64 cases), and that six halvings leave the top bit on top. The count of ones takes a
  byte at a time (`CountedByte`): sums in pairs, nibbles and bytes do not cross a byte, and the product adds the
  bytes up in the top one (`TopByteOf`). Assumed of the widths: `W` is even, the inverse and the count have
  whole bytes, and the count fits a byte (`SwarBits` below 256; 64 in the code). The magic word and the tables are those of
  64 bits, so the scans are proved at that width, over all sets of bits.
* **CryptUtil.** A helper is one call, so the invariant `HIInv` only says that the call keeps its arguments and
  what the function made of them; the work is in the functions, whose loops are recursive functions
  (`SetInduction`, `Recursion`). *Moves*: in each pass the byte read was not written by an earlier one,
  because the order of the passes follows the direction of the move (`CryptMoveOf`). *Values*: the
  weights of the limbs multiply (`CryptWeightAdd`), a value splits at any limb (`CryptValueSplit`), and from
  these trimming (`CryptTrimOf`), the shifts and the comparison, limb by limb from the top. *Product*: the loop
  keeps one bit of two carries, so a pass may lose a carry, and loses none where the limb it
  adds to was zero (`Adds`); a row therefore adds its product or less (`RowAdded`), exactly so
  onto an empty array. That is why the product is never too large and why, for a first factor of
  one limb, it is exact; nothing more is claimed. As above, sizes do not wrap.
* **BigIntMut.** The kernels come first (`LimbProofs`). A loop over the limbs is a function defined by recursion on
  the limb; that it exists, and what it computes, is an induction over `0 .. n`, stated with a *set*
  (`SetInduction`, `Recursion`), for the library's theorems take an operator. From them: the integer a
  magnitude stands for splits at any limb; carry, remainder and row are those of the integers, by the
  uniqueness of the division; so `MulWord`, `DivModWord`, `Schoolbook` and the comparison are exact at every
  length and width. The sum and the difference are exact when no limb carries: what is left of
  `AddSubExact` when the code loses its carries. Then one lemma for each call says that it keeps `IInv`
  (the type of `x`, and `CoreContract`) and that its result is right. `CoreContract` alone is not
  inductive: the room of a product is counted in limbs of `Radix` values, so the limbs must be such.
* **BigIntCompare.** A comparison is of the signs, then of the lengths, then of the limbs from the top: that
  the longer number is the larger one needs the top limb to be nonzero (`ArithValid`), and that the
  order of the limbs is that of the integers is an induction on the lowest limb looked at. That the radix
  is even is used for the two words of one limb, an int64_t and a uint64_t, that share their width.
* **BigIntFunc.** The theorems are of `FuncSpec`, the calls in place with the functional ones. One lemma
  for each call says `Kept`: the invariant, what the calls in place promise, that an acceptable number
  gives an acceptable one, and that no kernel wrote beyond its array. The invariant is the one of
  `BigIntMut`. The cores are the kernels' lengths: a quotient is no longer than the dividend,
  a product no longer than both operands (`ProductRoom`), a number below `Radix^n` has at most `n` limbs
  (`LimbsOf`, `MagnitudeBelow`), a pass of Stein's loop stays below the larger operand and ends with an odd
  number, and a power by squaring keeps every partial product within the array it was multiplied into.
  `OperandsValid` is rule 1 to 5 of the contract for what the client passes; the proof of
  `ResultsAcceptable` fails for one number, the square of `UINT32_MAX` (section 5).
  That the results are right (`Answering`, one lemma for each call) rests on the kernels' lemmas above and
  on two theories, stated over all numbers. *Divisors*: a pair is `Balanced` when both are odd and their
  common odd divisors are those of the two odd parts the loop began with. Each pass of Stein's loop keeps
  the pair balanced (`SteinPassBalanced`) and it ends with two equal numbers (`SteinEnds`), so what is
  left is the greatest common odd divisor, and the power of two that both operands share is put back
  (`SteinExact`). The gcd of two words comes back only when one odd part divides the other, and never puts
  the power of two back: `BinaryGcdExact` needs one operand odd, which is the exception `evenWords` of
  `GcdExact`. That a number is the one `GcdOf` chooses is `GcdIs`. *Powers*: in the loop over the bits of
  the exponent, the product so far, times the current square raised to the bits that are left, is constant
  (`BinaryExpValue`, from `ExponentBits` and `ExpBitValue`). A double is exact up to `2^MantissaBits`
  (`RoundedExact`, `PowDoubleExact`), which is where `rounds` of `PowerExact` begins.
* **BigIntBits.** `Sound`: an array of limbs, no longer than `MaxCap`, and a length within it. Each
  call is an operator, and its lemma says that it leaves a sound number *and*, of a
  normalised one, a normalised one. That trimming finds the top limb (a CHOOSE) is `TopLimb`, from the
  least number of limbs that may be dropped. The exceptions of `StaysNormal` are where that
  proof fails, and TLC refutes the property without them. `BitsExact` needs no more of the state than `Sound`:
  it is about what each operator returns, with any limbs above the length. Bit b of limb i has the
  *place* `(i - 1) * Bits + b`; every natural number is one place (`PlaceOf`, `PlaceUnique`), so two sets of
  bits are equal when they agree on places (`SameBits`), and a number's bits are those of its limbs
  (`NumberBits`). An operation is then exact when it is so limb by limb (`Operates`, `OperationExact`, and
  `OperationStays` for the limbs above an explicit width), and a shift when every limb has the bits of its two
  sources (`Lifts`, `Lowers`): the loops read limbs that were moved already, or those of the operand, and
  `LimbsUp` and `LimbsDown` say which. A shift down by limbs is exact where the ranges of its `memcpy` are apart: each
  limb then has one source (`Sources`). In place a left shift keeps its length only because the top limb
  was not zero (`LLShiftWhole`).
* **BigIntIO.** A call is a set of outcomes: a status, a number, an arena, a stream. Each lemma says of one
  family of calls that every outcome in the set is good: its arena holds nothing, and its number is
  the one that was, unless the status allows another. `ArenaBalanced` alone is not inductive: an
  allocation that is given back rewinds to a mark, and the mark is 0 only because the arena was free
  before the call (`GallocGivesBack`); a poisoned arena is refused at the head of the calls that
  take from it. The assumption on the inputs is that they are what their types say; that a line has a
  meaning, or a fitting length, is not assumed. Nothing is used of the estimates of digits but
  that they are counts of limbs, or undefined, so both theorems hold of estimates
  that are too small: a call then leaves its blocks and ends as `"UNDEFINED"`, which `TextMemory` is about.

Only model-checked, and why:

* Liveness and ENABLED are out of the prover's reach (`CallsEnd`), and so are the library's
  induction theorems, which take an operator; `LeastElement` stands in for them where the induction
  is over lengths.
* What a fold, a sum over a set or a loop computes for every input, where no set stands in for the
  induction: `RootsExact` and `PrimesDecided` (the value a loop ends with; powers with a
  symbolic exponent), `TextReads`, `StreamReads`, `ShowsNumber` (what a line means).

## 5 Where the code and its texts disagree

Five have a run (`PROJECT.json`, "findings"):

1. `MulTemps`, `mul.c:198`: Toom-3 compares slices by stored length; a slice with leading zeros
   is taken for the larger one, and p(-2) is wrong.
2. `LibLifecycle`, `libdnml_base.h:49`: clean-up leaves `_libinit` set, so a later init reports
   success over null tables.
3. `BigIntMut`, `bigInt.c:1644`: the carry out of a limb is lost in the addition.
4. `Arena`, `arena.h:80`: `arena_galloc` returns a place one limb above the room it made, so a block that fills
   the buffer ends outside it: a gcd or lcm by a word of a number of 128 limbs on a fresh arena
   (`bigInt.c:2357`, `:2379`, `:2423`, `:2445`), or a scan that may not grow its number (`bigInt_io.c:2547`); the text calls that
   construct or print ask for eight times what they use and stay inside. All of them grow the arena (`realloc`, `arena.h:59`)
   inside the frame they have opened, against `doc/CODE-STANDARDS.md:144-145`. A block of an *enclosing* frame would
   dangle after a growth that moves the buffer; no call of today holds one while it grows.
5. `CryptInt`, `crint_core.c:1732`, `:1747`: the validation looks at a zero stand-in instead of the top
   limb of a sound number, and refuses it.

The others were met while modelling. The models do what the code does, and the properties name
each as an exception, or hand it out as a status (`"OVERRUN"`, `"UNDEFINED"`, `"crash"`).

**bigInt in place.** `:2048`: a product takes the sign of the second factor alone, because the
arena branch runs on into the heap branch. `:3046`: `bigInt_mut_copy` counts bytes where it means
limbs. `:2012`: a difference is not normalised, and the next call refuses it; `:1937` leaves a
negative zero after `modu64`. `:3270`: `shrink` tests length against capacity the wrong way
round. `more_i64` of numbers longer than a limb ignores the sign; `lequal_i64` and `mequal_i64`
deny equality; `seti64_safe` has a path without a return value; `divu64` and `divi64` of a number
of one limb equal to the divisor give 0.

**bigInt functional.** Quotients by a word, sums and differences get an array of one limb
whatever the operands (`:2117`). A product by a word adds its carry twice (`:1705`). `fmul`
moves its second result into the header of `y` and frees it (`:2269`); on a poisoned arena its
result is zero and a success (`:2264`). The binary gcd of two words exchanges wrongly
(`gcd.c:76`); Stein's shifts have no meaning when a number ends in a zero limb (`:92`); the copies
for the gcd and lcm of a number and a word are never filled (`:2357`). A general division crashes
or runs out of memory. `mut_pow` above 2 leaves `x`; a power of a word goes through `double`
(`:2735`); `mut_emod` by a word writes the lowest limb and keeps `n` (`:2520`). The square of `UINT32_MAX` takes the path of two limbs
(`:2704`, `:2815`), though it fits one: n is 2 over a zero limb, and the next call refuses it. The proof found
this one; the halves of the run's limbs hold one value, 1, whose square has a case of its own.

**Bitwise.** `mut_rshift` subtracts the limb shift twice; functional `rshift` and `lshift` take the
crossing bits from the unshifted operand; `mut_lshift` loses limbs and then moves bits into a limb
it trimmed; `RLSHIFT` copies overlapping ranges by `memcpy` (`bigNum_utils.c:223`), so that a right shift by fewer than
half of its limbs may repeat some; `mut_lshiftg` brings stale limbs in; the `memset` of the `nand` family counts bytes,
and onto zero it writes nothing; `oru64` never sets `n`; `mut_or` onto zero uses the byte-counting
copy; in-place `and` with an explicit width clears the limbs above it.

**Text.** `scan` and `fscan` copy their temporary into a number they have not grown
(`bigInt_io.c:2456`; the comment at 1812-1820 promises growth), and lose it when the growth fails
(`:2448`). The loops of the counted calls over zeros
run past the length given; the digits of `get_*` are read from the last to the first, `tget_*`
reads one character again and again, `sget_*` adds up onto limbs nobody set; `to_*` of several
digits never end for a positive number; `to_strn`, `tto_strf` and `sputf` report "out of memory"
always, and `from_*` refuse always; `putb` looks up its digits in the table of the bases up to 16.
A comma is missing in `tables.c`, so small letters above base 16 count one too many.

**Words, roots, primes.** Without a 128-bit type `__mod_mul` takes the low word from its lowest bit
(`intrinsics.c:105`). In the x86 table `clz64` is assigned `ctz`, and `is_neg` and `is_pos`
change places. The guess of the square root is shifted modulo 63; the heap's by 6 too many; the
weight of an n-th root is lost when the index is no power of two; the power of a guess goes
through `double` (the 8th root of 191^8 comes out as 190), and an index of 64 divides by zero for
words near 2^64; in place, a root on a poisoned arena returns success and changes nothing
(`bigInt.c:2768`). The wheel of trial division is a step ahead of its residues
(`prime_test.c:100`); the base 1794265022 is published as 1795265022; a prime that divides a base
(407521 divides 9780504) is called composite. `is_prime` sends numbers of one limb, and those of
several, to the wrong tests (`bigInt.c:2486`): every prime of one limb above 5 is refused, zero and
the longer numbers are judged by their lowest limb.

**Random bytes.** The device stays open when the signals outlast the retries (`intrinsics.c:274`).
A switch to it after some chunks starts the buffer again and keeps the count (`:329`); the one from
`getrandom` passes the count where its address is expected (`:297`). The last bytes of a secure
draw are copied by a function with an empty body, and counted (`:238`). The masks of
`crt_intrin.c:199` have one bit, where the comment says "permanently latch"; the lane of eight
bytes advances on every pass and may leave the pool (`:234`). On Linux `crt_intrin.c` calls
`___ENTROPY_URANDOM`, which it does not declare; the Windows source takes one argument too many
(`intrinsics.c:388`).

**cryptInt.** With the validation (finding 5) every arithmetic call refuses its operands.
`canonicalize` has its arguments in another order than the selection it calls. `normalize` makes a
non-zero number negative. The copies of a word store zero; those that resize point the number at a
variable of the function that returns. `reserve` and `shrink` assign the new buffer in the case in
which they free it (`:1637` says "ASSIGN NEW IF NEEDED (ACTUALLY NEW CAPACITY)"). `free` does not
wipe (`drypto/CRYPT-API-DESIGN.md:132`: "Every deallocation path **must** zeroize"). The product
keeps one of two carries (`crt_mul.c:48`); a range that ends with the first limb takes one byte
more (`crt_misc_util.c:106`).

## 6 What is not modelled

* Inline assembly and the processor-specific `fill_*` branches: straight-line code without state.
  A table entry counts as right when it was chosen after detection.
* FFT, Toom-4 and Toom-5, `mv_matmul/`; Lehmer and the subquadratic gcd; Newton's reciprocal:
  they start at hundreds or thousands of limbs, beyond an instance TLC can enumerate.
* Division by two limbs or more beyond its dispatch: the default path prints its trace to a NULL
  stream, so it does not return.
* Powers by windows and Montgomery's form; roots above the third of several limbs; Miller-Rabin
  of several limbs, which no call reaches, and the Lucas part, which no number reaches.
* The bodies of `from_*`, `fwrite` to `deserialize` and the dumps of `bigInt_io.c`: unreachable,
  unwritten, or output only.
* cryptInt behind its validation (`crint_arith.c`, `crint_bitops.c` and the rest of `crint_core.c`),
  which no sound number passes, and its poisoned numbers.
* The debug build; formatting; the build files, benchmarks and tests.
* In the calls that are modelled: aliased operands; arrays near 2^64 limbs, where sizes wrap; the
  `mul` paths after the second allocation has failed, where the call does not return; the numbers
  `mut_rshift` makes when its length wraps below zero; a thread that ends without its clean-up,
  which loses its two buffers (no document says who frees them).

## 7 The plan

Modelled in this order: arena and multiplication, lifecycle, `bigInt` in place, bitwise, functional,
text, then the calls that keep nothing. What is left, in order:

1. **Proofs** of what is only model-checked, where an induction over a set will do: the square root of
   `RootsExact`, then the passes of the wheel in `PrimesDecided`.
2. **`HeapTemps`**: every path of the heap mirror frees what it took.
3. **The butterflies of the FFT** over a small ring, and Toom-4 on the model of `MulAlgebra`.
