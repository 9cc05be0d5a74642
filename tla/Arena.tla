------------------------------- MODULE Arena -------------------------------
(***************************************************************************)
(* One thread-local limb arena of libdnml: the bump allocator of           *)
(* include/_libdnml_mem/arena.h together with the accessors of             *)
(* dynamol/_dynamol_arena.c that create and destroy it.                    *)
(*                                                                         *)
(* base, cap, offset and poisoined are the four fields of dnml_arena.  A   *)
(* base is an identity, 0 for NULL; "bases" counts the buffers ever        *)
(* obtained, so that a realloc that moves the buffer gives it a new        *)
(* identity.  marks and blocks are what the callers hold: the offsets      *)
(* returned by arena_mark, innermost last, and the blocks returned by      *)
(* arena_alloc and arena_galloc that have not been rewound.                *)
(*                                                                         *)
(* There are three kinds of callers.  An API function sizes the arena and  *)
(* then opens a frame; a kernel marks, allocates and rewinds; and the gcd  *)
(* and lcm by a word and the text calls open a frame and take one block of *)
(* it by arena_galloc, which grows the arena inside that frame.            *)
(***************************************************************************)
EXTENDS Naturals, Sequences

CONSTANTS
  InitCap,    \* limbs of a fresh arena (128 in _dynamol_arena.c)
  Requests,   \* limb counts the callers ask for
  MaxCap,     \* bound: largest capacity a realloc grants
  MaxDepth,   \* bound: nested frames
  GrowDepth,  \* the deepest frame in which a caller grows: 1 in the calls of today
  MaxBases    \* bound: buffers obtained from the heap

ASSUME ArenaAssumption ==
  /\ InitCap \in Nat \ {0}
  /\ Requests \subseteq Nat
  /\ MaxCap \in Nat /\ InitCap <= MaxCap
  /\ MaxDepth \in Nat /\ GrowDepth \in Nat /\ MaxBases \in Nat

NULL == 0

VARIABLES
  base, cap, offset, poisoined,
  status,     \* the dnml_status of the last call
  bases,      \* buffers obtained so far
  marks,      \* marks the callers hold, innermost last
  blocks      \* blocks the callers hold

arena  == <<base, cap, offset, poisoined>>
client == <<marks, blocks>>
vars   == <<base, cap, offset, poisoined, status, bases, marks, blocks>>

Statuses == {"DARENA_SUCCESS", "DARENA_OVERFLOW", "DARENA_POISON", "DNML_ALLOC_OOM"}
\* A block: its buffer, its limbs lo .. hi - 1, by how many limbs it ends above
\* the room made for it, and the frame it belongs to.
Block == [base : Nat, lo : Nat, hi : Nat, past : 0 .. 1, depth : Nat]

-----------------------------------------------------------------------------
\* A heap buffer never obtained before.
FreshBase == bases + 1

\* init_arena: a no-op on a live arena; a failed calloc poisons it.
InitArena ==
  \/ /\ base # NULL
     /\ status' = "DARENA_SUCCESS"
     /\ UNCHANGED <<arena, bases, client>>
  \/ /\ base = NULL
     /\ bases < MaxBases
     /\ base' = FreshBase /\ bases' = FreshBase
     /\ cap' = InitCap /\ offset' = 0 /\ poisoined' = FALSE
     /\ status' = "DARENA_SUCCESS"
     /\ UNCHANGED client
  \/ /\ base = NULL
     /\ poisoined' = TRUE
     /\ status' = "DNML_ALLOC_OOM"
     /\ UNCHANGED <<base, cap, offset, bases, client>>

\* _USE_ARENA and _USE_IO_ARENA: the lazy initialisation, which a poisoned
\* arena does not retry.
UseArena == base = NULL /\ ~poisoined /\ InitArena

\* _init_dynamol_bigint calls init_arena whatever the poison flag says.
InitDynamol == InitArena

\* Mutant: the loop doubles once more after the capacity suffices.
GrownCapsTwice(min_cap) == {2 * n : n \in {m \in min_cap .. MaxCap : m % 2 = 0}}

\* The capacities the doubling loop of arena_grow can end with.
GrownCaps(min_cap) ==
  { n \in min_cap .. MaxCap :
      \E k \in 0 .. MaxCap :
        LET seed == IF cap = 0 THEN 1 ELSE cap
        IN  n = seed * 2^k /\ (k = 0 \/ seed * 2^(k-1) < min_cap) }

\* realloc: NULL, the same buffer enlarged in place, or a moved one.
Reallocated(min_cap) ==
  \/ /\ poisoined' = TRUE
     /\ status' = "DNML_ALLOC_OOM"
     /\ UNCHANGED <<base, cap, bases>>
  \/ \E new_cap \in GrownCaps(min_cap) :
       /\ cap' = new_cap
       /\ \/ base # NULL /\ UNCHANGED <<base, bases>>
          \/ bases < MaxBases /\ base' = FreshBase /\ bases' = FreshBase
       /\ status' = "DARENA_SUCCESS"
       /\ UNCHANGED poisoined

\* Mutant: a poisoned arena is grown again.
ArenaGrowPoisoned(min_cap) ==
  \/ cap >= min_cap /\ status' = "DARENA_SUCCESS" /\ UNCHANGED <<base, cap, poisoined, bases>>
  \/ cap < min_cap /\ Reallocated(min_cap)

\* arena_grow: the offset, and what the callers hold, stay as they are.
ArenaGrow(min_cap) ==
  \/ /\ poisoined
     /\ status' = "DARENA_POISON"
     /\ UNCHANGED <<base, cap, poisoined, bases>>
  \/ /\ ~poisoined /\ cap >= min_cap
     /\ status' = "DARENA_SUCCESS"
     /\ UNCHANGED <<base, cap, poisoined, bases>>
  \/ /\ ~poisoined /\ cap < min_cap
     /\ Reallocated(min_cap)

\* arena_alloc: bump the offset, or refuse and leave the arena alone.
ArenaAlloc(space) ==
  /\ base # NULL \/ poisoined
  /\ LET new_offset == offset + space IN
       \/ /\ poisoined
          /\ status' = "DARENA_POISON"
          /\ UNCHANGED <<offset, blocks>>
       \/ /\ ~poisoined /\ new_offset > cap
          /\ status' = "DARENA_OVERFLOW"
          /\ UNCHANGED <<offset, blocks>>
       \/ /\ ~poisoined /\ new_offset <= cap
          /\ offset' = new_offset
          /\ blocks' = blocks \cup
               {[base |-> base, lo |-> offset, hi |-> new_offset, past |-> 0,
                 depth |-> Len(marks)]}
          /\ status' = "DARENA_SUCCESS"
  /\ UNCHANGED <<base, cap, poisoined, bases, marks>>

\* arena_galloc: grow the arena where the request does not fit, then bump the
\* offset.  The place returned is one limb above the old offset, so that the
\* block ends one limb above the new one.
ArenaGalloc(space) ==
  /\ ArenaGrow(offset + space)
  /\ \/ /\ status' = "DARENA_SUCCESS"
        /\ offset' = offset + space
        /\ blocks' = blocks \cup
             {[base |-> base', lo |-> offset + 1, hi |-> offset + space + 1, past |-> 1,
               depth |-> Len(marks)]}
     \/ status' # "DARENA_SUCCESS" /\ UNCHANGED <<offset, blocks>>
  /\ UNCHANGED marks

\* Mutant: the mark is the start of the buffer, not the offset.
ArenaMarkStart ==
  /\ base # NULL
  /\ Len(marks) < MaxDepth
  /\ marks' = Append(marks, 0)
  /\ UNCHANGED <<arena, status, bases, blocks>>

\* arena_mark: a caller remembers the offset and opens a frame.
ArenaMark ==
  /\ base # NULL
  /\ Len(marks) < MaxDepth
  /\ marks' = Append(marks, offset)
  /\ UNCHANGED <<arena, status, bases, blocks>>

\* Mutant: arena_clear where arena_rewind is meant.
ArenaRewindClears(i) ==
  /\ offset' = 0
  /\ marks' = SubSeq(marks, 1, i - 1)
  /\ blocks' = {b \in blocks : b.depth < i}
  /\ UNCHANGED <<base, cap, poisoined, status, bases>>

\* Mutant: the rewind goes to the outermost mark.
ArenaRewindOutermost(i) ==
  /\ offset' = marks[1]
  /\ marks' = SubSeq(marks, 1, i - 1)
  /\ blocks' = {b \in blocks : b.depth < i}
  /\ UNCHANGED <<base, cap, poisoined, status, bases>>

\* arena_rewind with the i-th mark: frame i and the frames left open inside it end.
ArenaRewind(i) ==
  /\ offset' = IF marks[i] <= offset THEN marks[i] ELSE offset
  /\ marks' = SubSeq(marks, 1, i - 1)
  /\ blocks' = {b \in blocks : b.depth < i}
  /\ UNCHANGED <<base, cap, poisoined, status, bases>>

\* _cleanup_dynamol: arena_clear, then arena_destruct; every caller is gone.
Cleanup ==
  /\ base' = NULL /\ cap' = 0 /\ offset' = 0 /\ poisoined' = FALSE
  /\ marks' = <<>> /\ blocks' = {}
  /\ UNCHANGED <<status, bases>>

-----------------------------------------------------------------------------
Init ==
  /\ base = NULL /\ cap = 0 /\ offset = 0 /\ poisoined = FALSE
  /\ status = "DARENA_SUCCESS" /\ bases = 0
  /\ marks = <<>> /\ blocks = {}

\* The API functions that size the arena they got from _USE_ARENA do so before
\* they open a frame.
Presize ==
  /\ base # NULL \/ poisoined
  /\ marks = <<>>
  /\ \E min_cap \in Requests : ArenaGrow(min_cap)
  /\ UNCHANGED <<offset, client>>

\* A caller holds a block of arena_galloc.
GallocHeld == \E b \in blocks : b.past > 0

\* gcd and lcm by a word, and every text call: the growing block is the first
\* and the only one of its frame.
GrowingCall ==
  /\ Len(marks) \in 1 .. GrowDepth
  /\ ~GallocHeld
  /\ \A b \in blocks : b.depth < Len(marks)
  /\ \E space \in Requests : ArenaGalloc(space)

\* The lcm by a word returns without a rewind when the heap has no room for the
\* result: its frame is forgotten, and its limbs stay taken.
ForgetFrame ==
  /\ GallocHeld
  /\ marks' = SubSeq(marks, 1, Len(marks) - 1)
  /\ blocks' = {b \in blocks : b.depth < Len(marks)}
  /\ UNCHANGED <<arena, status, bases>>

\* The kernels and the calls above only mark, allocate and rewind; nobody but
\* its holder runs while a growing block is held, and the holder only rewinds.
KernelMark == ~GallocHeld /\ ArenaMark
KernelAlloc == ~GallocHeld /\ marks # <<>> /\ \E space \in Requests : ArenaAlloc(space)
KernelRewind == \E i \in 1 .. Len(marks) : ArenaRewind(i)
Kernel == KernelMark \/ KernelAlloc \/ KernelRewind

Next == UseArena \/ InitDynamol \/ Presize \/ GrowingCall \/ ForgetFrame \/ Kernel \/ Cleanup

Spec == Init /\ [][Next]_vars

-----------------------------------------------------------------------------
(* Properties *)

\* The fields of dnml_arena and what the callers hold have their types.
TypeOK ==
  /\ base \in Nat /\ cap \in 0 .. MaxCap /\ offset \in Nat /\ poisoined \in BOOLEAN
  /\ status \in Statuses
  /\ bases \in Nat
  /\ marks \in Seq(Nat)
  /\ blocks \subseteq Block

Depth == Len(marks)
Disjoint(b, c) == b.hi <= c.lo \/ c.hi <= b.lo

\* Frames nest: marks never decrease towards the inside, and the blocks of a
\* frame lie between its mark and the mark of the frame inside it, so that
\* arena_rewind releases the blocks of the frames it ends and no other.  Only
\* a block of arena_galloc may end above the offset, by its one limb, and only
\* in the innermost frame.
FramesNested ==
  /\ \A i, j \in 1 .. Depth : i <= j => marks[i] <= marks[j]
  /\ \A i \in 1 .. Depth : marks[i] <= offset
  /\ \A b \in blocks :
       /\ b.depth \in 1 .. Depth
       /\ marks[b.depth] <= b.lo /\ b.lo <= b.hi /\ b.hi <= offset + b.past
       /\ b.depth < Depth => b.hi <= marks[b.depth + 1]

\* No two callers hold the same limb: blocks handed out by arena_alloc and
\* arena_galloc and not yet rewound never overlap, whatever marks, rewinds,
\* growths, forgotten frames and failed allocations happened in between.
BlocksDisjoint == \A b, c \in blocks : b # c => Disjoint(b, c)

\* Every block a caller holds lies inside the buffer the arena has now: it was
\* neither left behind in a buffer that realloc moved or arena_destruct freed,
\* nor does it end beyond the capacity.  CODE-STANDARDS.md:144-145 promises it
\* (the arena is sized beforehand and does not grow while an algorithm runs);
\* the block of arena_galloc ends one limb outside when it fills the buffer.
BlocksInBuffer == \A b \in blocks : b.base = base /\ b.hi <= cap

\* A poisoned arena hands out nothing and keeps its buffer, and only a
\* destruct, or an init that got a new buffer, lifts the poison.
PoisonSticky ==
  [][ poisoined =>
        /\ blocks' \subseteq blocks
        /\ ~poisoined' => base = NULL \/ base' = NULL
        /\ poisoined' => base' = base /\ cap' = cap ]_vars

\* The inductive invariant: what keeps the two invariants about blocks true.
OffsetInCap == offset <= cap
NullIsEmpty == base = NULL => marks = <<>>
IInv == TypeOK /\ OffsetInCap /\ NullIsEmpty /\ FramesNested /\ BlocksDisjoint

-----------------------------------------------------------------------------
(* Refinement: the blocks of a frame, as a set of limbs. *)

LimbsOf(b) == b.lo .. (b.hi - 1)
FrameLimbs(i) == UNION {LimbsOf(b) : b \in {c \in blocks : c.depth = i}}

PoolFrames == [i \in 1 .. Depth |-> FrameLimbs(i)]

\* A full arena grants by arena_galloc the limb that follows its buffer, too.
Pool == INSTANCE ScratchPool WITH
  Limb <- 0 .. MaxCap,
  frames <- PoolFrames

\* arena_alloc, arena_galloc, arena_mark and arena_rewind implement a pool of scratch limbs
\* in which no limb is granted while somebody holds it.
ImplementsPool == Pool!Spec
=============================================================================
