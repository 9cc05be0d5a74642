--------------------------- MODULE RuntimeProofs ---------------------------
(***************************************************************************)
(* Proofs about the run-time that the algorithms stand on.                 *)
(*                                                                         *)
(* Arena, for every initial capacity, set of requests and bound, and for   *)
(* callers that grow it in any frame: type correctness, that frames nest,  *)
(* that no two callers hold a limb, and that the arena implements the      *)
(* abstract pool of scratch limbs.  That a caller's limbs lie inside the   *)
(* buffer is not so: arena_galloc leaves one outside.                      *)
(*                                                                         *)
(* LibLifecycle, for every set of threads and translation units and for    *)
(* compilers with and without constructors: type correctness, that a       *)
(* success before the first clean-up means filled tables, that it means    *)
(* both arenas, and that every buffer has an owner.                        *)
(*                                                                         *)
(* MulTemps, for every radix from 4 on and operands of any length: the limb *)
(* kernels of one frame of Karatsuba and Toom-3 stay within the temporaries *)
(* that the frame took from its arena, and compute what the algebra of      *)
(* MulAlgebra says.                                                         *)
(***************************************************************************)
EXTENDS Arena, LibLifecycle, MulTemps, FiniteSetTheorems, NaturalsInduction, WellFoundedInduction, TLAPS

-----------------------------------------------------------------------------
(* Steps that leave the callers' marks and blocks alone. *)

\* A live arena stays as it is and a NULL one, which nobody holds anything of,
\* becomes a fresh buffer or stays NULL.
LEMMA InitArenaStep == IInv /\ InitArena => IInv'
<1> SUFFICES ASSUME IInv, InitArena PROVE IInv'
  OBVIOUS
<1> USE ArenaAssumption DEF IInv, TypeOK, OffsetInCap, NullIsEmpty, FramesNested,
      BlocksDisjoint, Disjoint, Depth, Block, Statuses, NULL
<1>1. CASE base # NULL
  BY <1>1 DEF InitArena, arena, client
<1>2. CASE base = NULL
  <2>1. marks = <<>> /\ blocks = {}
    BY <1>2
  <2>2. marks' = <<>> /\ blocks' = {}
    BY <1>2, <2>1 DEF InitArena, client
  <2>3. /\ base' \in Nat /\ bases' \in Nat /\ cap' \in 0 .. MaxCap /\ offset' \in Nat
        /\ offset' <= cap'
    BY <1>2 DEF InitArena, FreshBase, arena, client
  <2>4. poisoined' \in BOOLEAN /\ status' \in Statuses
    BY <1>2, Zenon DEF InitArena
  <2>5. TypeOK'
    BY <2>2, <2>3, <2>4
  <2> QED  BY <2>2, <2>3, <2>5
<1> QED  BY <1>1, <1>2

\* The fields after arena_grow: a capacity that is no smaller, and a status.
LEMMA GrowFields ==
  ASSUME NEW min_cap \in Nat, IInv, ArenaGrow(min_cap)
  PROVE  /\ base' \in Nat /\ bases' \in Nat /\ cap' \in 0 .. MaxCap /\ cap <= cap'
         /\ poisoined' \in BOOLEAN /\ status' \in Statuses
         /\ status' = "DARENA_SUCCESS" => min_cap <= cap'
         /\ base # NULL => base' # NULL
<1> USE ArenaAssumption DEF IInv, TypeOK, NULL
<1>1. poisoined' \in BOOLEAN /\ status' \in Statuses
  BY Zenon DEF ArenaGrow, Reallocated, Statuses
<1>2. \/ UNCHANGED <<base, cap, bases>>
      \/ /\ cap < min_cap
         /\ \E new_cap \in GrownCaps(min_cap) :
              /\ cap' = new_cap
              /\ UNCHANGED <<base, bases>> \/ (base' = FreshBase /\ bases' = FreshBase)
  BY Zenon DEF ArenaGrow, Reallocated
<1>3. \A n \in GrownCaps(min_cap) : n \in min_cap .. MaxCap
  BY DEF GrownCaps
<1>4. base' \in Nat /\ bases' \in Nat /\ cap' \in 0 .. MaxCap /\ cap <= cap'
  BY <1>2, <1>3 DEF FreshBase
<1>5. base # NULL => base' # NULL
  BY <1>2 DEF FreshBase
<1>6. ASSUME status' = "DARENA_SUCCESS" PROVE min_cap <= cap'
  <2>1. \/ cap >= min_cap /\ cap' = cap
        \/ \E new_cap \in GrownCaps(min_cap) : cap' = new_cap
    BY <1>6, Zenon DEF ArenaGrow, Reallocated
  <2> QED  BY <1>3, <2>1
<1> QED  BY <1>1, <1>4, <1>5, <1>6

\* Growing when no frame is open: nobody holds a block that a move could lose.
LEMMA PresizeStep == IInv /\ Presize => IInv'
<1> SUFFICES ASSUME IInv, Presize PROVE IInv'
  OBVIOUS
<1> USE ArenaAssumption DEF IInv, TypeOK, OffsetInCap, NullIsEmpty, FramesNested,
      BlocksDisjoint, Disjoint, Depth, Block
<1>1. PICK min_cap \in Requests : ArenaGrow(min_cap)
  BY DEF Presize
<1>2. marks = <<>> /\ blocks = {} /\ min_cap \in Nat
  BY <1>1 DEF Presize
<1>3. marks' = <<>> /\ blocks' = {} /\ offset' = offset
  BY <1>2 DEF Presize, client
<1>4. /\ base' \in Nat /\ bases' \in Nat /\ cap' \in 0 .. MaxCap /\ cap <= cap'
      /\ poisoined' \in BOOLEAN /\ status' \in Statuses
  BY <1>1, <1>2, GrowFields
<1>5. TypeOK'
  BY <1>3, <1>4
<1> QED  BY <1>3, <1>4, <1>5

-----------------------------------------------------------------------------
(* The three steps of a kernel. *)

\* Opening a frame at the offset: every block ends at or before the new mark,
\* for no growing block is held.
LEMMA MarkStep == IInv /\ KernelMark => IInv'
<1> SUFFICES ASSUME IInv, KernelMark PROVE IInv'
  OBVIOUS
<1>1. /\ marks' = Append(marks, offset) /\ base # NULL
      /\ UNCHANGED <<base, cap, offset, poisoined, status, bases, blocks>>
  BY DEF KernelMark, ArenaMark, arena
<1>2. /\ marks \in Seq(Nat) /\ offset \in Nat /\ Len(marks) \in Nat
      /\ \A b \in blocks :
           b.lo \in Nat /\ b.hi \in Nat /\ b.depth \in Nat /\ b.past = 0
  BY DEF IInv, TypeOK, Block, KernelMark, GallocHeld
<1>3. /\ marks' \in Seq(Nat) /\ Len(marks') = Len(marks) + 1
      /\ \A i \in 1 .. Len(marks) : marks'[i] = marks[i] /\ marks[i] \in Nat
      /\ marks'[Len(marks) + 1] = offset
  BY <1>1, <1>2
<1>4. /\ \A i, j \in 1 .. Len(marks) : i <= j => marks[i] <= marks[j]
      /\ \A i \in 1 .. Len(marks) : marks[i] <= offset
      /\ \A b \in blocks :
           /\ b.depth \in 1 .. Len(marks)
           /\ marks[b.depth] <= b.lo /\ b.lo <= b.hi /\ b.hi <= offset
           /\ b.depth < Len(marks) => b.hi <= marks[b.depth + 1]
  BY <1>2 DEF IInv, FramesNested, Depth
<1>5. ASSUME NEW i \in 1 .. Len(marks'), NEW j \in 1 .. Len(marks'), i <= j
      PROVE  marks'[i] <= marks'[j] /\ marks'[i] <= offset
  <2>1. CASE j = Len(marks) + 1
    <3>1. marks'[j] = offset
      BY <1>3, <2>1
    <3>2. CASE i \in 1 .. Len(marks)
      BY <1>3, <1>4, <3>1, <3>2
    <3>3. CASE i = j
      BY <1>2, <3>1, <3>3
    <3> QED  BY <1>2, <1>3, <1>5, <2>1, <3>2, <3>3
  <2>2. CASE j # Len(marks) + 1
    <3>1. i \in 1 .. Len(marks) /\ j \in 1 .. Len(marks)
      BY <1>2, <1>3, <1>5, <2>2
    <3> QED  BY <1>3, <1>4, <1>5, <3>1
  <2> QED  BY <2>1, <2>2
<1>6. ASSUME NEW b \in blocks
      PROVE  /\ b.depth \in 1 .. Len(marks')
             /\ marks'[b.depth] <= b.lo /\ b.lo <= b.hi /\ b.hi <= offset
             /\ b.depth < Len(marks') => b.hi <= marks'[b.depth + 1]
  <2>1. /\ b.depth \in 1 .. Len(marks) /\ b.depth \in 1 .. Len(marks')
        /\ marks'[b.depth] = marks[b.depth]
    BY <1>2, <1>3, <1>4
  <2>2. CASE b.depth < Len(marks)
    <3>1. b.depth + 1 \in 1 .. Len(marks)
      BY <1>2, <2>1, <2>2
    <3> QED  BY <1>3, <1>4, <2>1, <2>2, <3>1
  <2>3. CASE b.depth = Len(marks)
    BY <1>3, <1>4, <2>1, <2>3
  <2> QED  BY <1>2, <2>1, <2>2, <2>3
<1>7. FramesNested'
  <2>1. \A b \in blocks' : b.hi <= offset' + b.past
    BY <1>1, <1>2, <1>6
  <2>2. \A i \in 1 .. Len(marks') : marks'[i] <= offset'
    BY <1>1, <1>2, <1>3, <1>5
  <2>3. \A i, j \in 1 .. Len(marks') : i <= j => marks'[i] <= marks'[j]
    BY <1>5
  <2> QED  BY <1>1, <1>6, <2>1, <2>2, <2>3 DEF FramesNested, Depth
<1>8. TypeOK'
  BY <1>1, <1>3 DEF IInv, TypeOK
<1> QED
  BY <1>1, <1>7, <1>8 DEF IInv, OffsetInCap, NullIsEmpty, BlocksDisjoint, Disjoint

\* A granted block starts at the offset, where every held block has ended.
LEMMA AllocStep ==
  ASSUME NEW space \in Requests, IInv, ~GallocHeld, marks # <<>>, ArenaAlloc(space)
  PROVE  IInv'
<1> USE ArenaAssumption DEF IInv, TypeOK, Block, Depth, Disjoint, Statuses
<1>1. UNCHANGED <<base, cap, poisoined, bases, marks>> /\ status' \in Statuses
  BY DEF ArenaAlloc
<1>2. CASE UNCHANGED <<offset, blocks>>
  BY <1>1, <1>2 DEF OffsetInCap, NullIsEmpty, FramesNested, BlocksDisjoint
<1>3. CASE ~ UNCHANGED <<offset, blocks>>
  <2> DEFINE granted == [base |-> base, lo |-> offset, hi |-> offset + space,
                         past |-> 0, depth |-> Len(marks)]
  <2>1. /\ offset + space <= cap /\ offset' = offset + space
        /\ blocks' = blocks \cup {granted} /\ space \in Nat
    BY <1>3 DEF ArenaAlloc
  <2>2. granted \in Block
    BY <2>1
  <2>3. TypeOK'
    BY <1>1, <2>1, <2>2
  <2>4. FramesNested'
    <3>1. /\ offset' \in Nat /\ offset <= offset' /\ marks' = marks
          /\ Len(marks) \in Nat /\ Len(marks) # 0
      BY <1>1, <2>1
    <3>2. \A i \in 1 .. Len(marks) : marks[i] \in Nat /\ marks[i] <= offset
      BY DEF FramesNested
    <3>3. \A b \in blocks : b.hi \in Nat /\ b.past \in 0 .. 1 /\ b.hi <= offset + b.past
      BY DEF FramesNested
    <3>4. \A b \in blocks' : b.hi <= offset' + b.past
      BY <2>1, <3>1, <3>3
    <3>5. \A i \in 1 .. Len(marks) : marks[i] <= offset'
      BY <3>1, <3>2
    <3>6. /\ granted.depth = Len(marks) /\ granted.depth \in 1 .. Len(marks)
          /\ marks[granted.depth] <= granted.lo /\ granted.lo <= granted.hi
      BY <2>1, <3>1, <3>2
    <3> QED  BY <2>1, <3>1, <3>4, <3>5, <3>6 DEF FramesNested
  <2>5. ASSUME NEW b \in blocks PROVE b.hi <= granted.lo
    <3>1. b.hi \in Nat /\ b.past = 0 /\ b.hi <= offset + b.past
      BY DEF FramesNested, GallocHeld
    <3>2. offset \in Nat /\ granted.lo = offset
      OBVIOUS
    <3> QED  BY <3>1, <3>2
  <2>6. BlocksDisjoint'
    BY <2>1, <2>5 DEF BlocksDisjoint
  <2> QED
    BY <1>1, <2>1, <2>3, <2>4, <2>6 DEF OffsetInCap, NullIsEmpty
<1> QED  BY <1>2, <1>3

\* A growing block, which starts one limb above the offset, where every held
\* block has ended; the blocks stay where they are when the buffer moves.
LEMMA GallocStep ==
  ASSUME NEW space \in Requests, IInv, ~GallocHeld, marks # <<>>, ArenaGalloc(space)
  PROVE  IInv'
<1> USE ArenaAssumption DEF IInv, TypeOK, Block, Depth, Disjoint
<1>1. space \in Nat /\ offset \in Nat /\ marks' = marks /\ base # NULL
  BY DEF ArenaGalloc, NullIsEmpty
<1>2. /\ base' \in Nat /\ bases' \in Nat /\ cap' \in 0 .. MaxCap /\ cap <= cap'
      /\ poisoined' \in BOOLEAN /\ status' \in Statuses
      /\ status' = "DARENA_SUCCESS" => offset + space <= cap'
      /\ base' # NULL
  <2> HIDE DEF IInv
  <2>1. offset + space \in Nat /\ ArenaGrow(offset + space)
    BY <1>1 DEF ArenaGalloc
  <2> QED  BY <1>1, <2>1, GrowFields
<1>3. CASE UNCHANGED <<offset, blocks>>
  BY <1>1, <1>2, <1>3 DEF OffsetInCap, NullIsEmpty, FramesNested, BlocksDisjoint
<1>4. CASE ~ UNCHANGED <<offset, blocks>>
  <2> DEFINE granted == [base |-> base', lo |-> offset + 1, hi |-> offset + space + 1,
                         past |-> 1, depth |-> Len(marks)]
  <2>1. /\ offset + space <= cap' /\ offset' = offset + space
        /\ blocks' = blocks \cup {granted}
    BY <1>2, <1>4 DEF ArenaGalloc
  <2>2. granted \in Block
    BY <1>1, <1>2
  <2>3. TypeOK'
    <3> HIDE DEF granted, Block
    <3> QED  BY <1>1, <1>2, <2>1, <2>2
  <2>4. FramesNested'
    <3>1. /\ offset' \in Nat /\ offset <= offset' /\ offset' = offset + space
          /\ Len(marks) \in Nat /\ Len(marks) # 0
      BY <1>1, <2>1
    <3>2. \A i \in 1 .. Len(marks) : marks[i] \in Nat /\ marks[i] <= offset
      BY DEF FramesNested
    <3>3. \A b \in blocks : b.hi \in Nat /\ b.past \in 0 .. 1 /\ b.hi <= offset + b.past
      BY DEF FramesNested
    <3>4. granted.hi = offset' + granted.past /\ granted.lo <= granted.hi
      BY <1>1, <3>1
    <3>5. \A b \in blocks' : b.hi <= offset' + b.past
      BY <2>1, <3>1, <3>3, <3>4
    <3>6. \A i \in 1 .. Len(marks) : marks[i] <= offset'
      BY <3>1, <3>2
    <3>7. granted.depth = Len(marks) /\ granted.depth \in 1 .. Len(marks)
      BY <3>1
    <3>8. marks[granted.depth] <= granted.lo
      BY <1>1, <3>1, <3>2, <3>7
    <3> QED  BY <1>1, <2>1, <3>4, <3>5, <3>6, <3>7, <3>8 DEF FramesNested
  <2>5. ASSUME NEW b \in blocks PROVE b.hi <= granted.lo
    <3>1. b.hi \in Nat /\ b.past = 0 /\ b.hi <= offset + b.past
      BY DEF FramesNested, GallocHeld
    <3>2. offset \in Nat /\ granted.lo = offset + 1
      OBVIOUS
    <3> QED  BY <3>1, <3>2
  <2>6. BlocksDisjoint'
    BY <2>1, <2>5 DEF BlocksDisjoint
  <2> QED
    BY <1>1, <1>2, <2>1, <2>3, <2>4, <2>6 DEF OffsetInCap, NullIsEmpty
<1> QED  BY <1>3, <1>4

\* Ending frame i and those inside it: the blocks that stay belong to frames
\* outside it and end at or before its mark.  The offset goes there, or stays
\* when the frame is forgotten.
LEMMA EndFrames ==
  ASSUME NEW i \in 1 .. Len(marks), IInv,
         offset' \in {marks[i], offset},
         marks' = SubSeq(marks, 1, i - 1),
         blocks' = {b \in blocks : b.depth < i},
         UNCHANGED <<base, cap, poisoined, status, bases>>
  PROVE  IInv'
<1>1. /\ marks \in Seq(Nat) /\ Len(marks) \in Nat /\ offset \in Nat
      /\ \A j \in 1 .. Len(marks) : marks[j] \in Nat
      /\ \A b \in blocks :
           b.lo \in Nat /\ b.hi \in Nat /\ b.depth \in Nat /\ b.past \in 0 .. 1
  BY DEF IInv, TypeOK, Block
<1>2. /\ \A j, k \in 1 .. Len(marks) : j <= k => marks[j] <= marks[k]
      /\ \A j \in 1 .. Len(marks) : marks[j] <= offset
      /\ \A b \in blocks :
           /\ b.depth \in 1 .. Len(marks)
           /\ marks[b.depth] <= b.lo /\ b.lo <= b.hi
           /\ b.depth < Len(marks) => b.hi <= marks[b.depth + 1]
  BY DEF IInv, FramesNested, Depth
<1>3. /\ offset' \in Nat /\ marks[i] <= offset' /\ offset' <= offset
      /\ marks' = SubSeq(marks, 1, i - 1)
      /\ blocks' = {b \in blocks : b.depth < i}
      /\ UNCHANGED <<base, cap, poisoined, status, bases>>
  BY <1>1, <1>2
<1>4. /\ marks' \in Seq(Nat) /\ Len(marks') = i - 1
      /\ \A j \in 1 .. (i - 1) : marks'[j] = marks[j] /\ j \in 1 .. Len(marks)
  BY <1>1, <1>3
<1>5. ASSUME NEW b \in blocks, b.depth < i PROVE b.hi <= marks[i]
  <2>1. b.depth \in 1 .. Len(marks) /\ b.depth + 1 \in 1 .. Len(marks) /\ b.depth + 1 <= i
    BY <1>1, <1>2, <1>5
  <2>2. b.hi <= marks[b.depth + 1] /\ marks[b.depth + 1] <= marks[i]
    BY <1>1, <1>2, <1>5, <2>1
  <2> QED  BY <1>1, <2>1, <2>2
<1>6. ASSUME NEW j \in 1 .. Len(marks'), NEW k \in 1 .. Len(marks'), j <= k
      PROVE  marks'[j] <= marks'[k] /\ marks'[j] <= offset'
  <2>1. /\ j \in 1 .. Len(marks) /\ k \in 1 .. Len(marks) /\ j <= i
        /\ marks'[j] = marks[j] /\ marks'[k] = marks[k]
    BY <1>1, <1>4
  <2> QED  BY <1>2, <1>3, <1>6, <2>1
<1>7. ASSUME NEW b \in blocks'
      PROVE  /\ b.depth \in 1 .. Len(marks')
             /\ marks'[b.depth] <= b.lo /\ b.lo <= b.hi /\ b.hi <= offset' + b.past
             /\ b.depth < Len(marks') => b.hi <= marks'[b.depth + 1]
  <2>1. b \in blocks /\ b.depth < i /\ b.hi <= offset' + b.past
    <3>1. b \in blocks /\ b.depth < i
      BY <1>3
    <3>2. b.hi <= marks[i]
      BY <1>5, <3>1
    <3>3. /\ b.hi \in Nat /\ b.past \in Nat /\ marks[i] \in Nat
          /\ offset' \in Nat /\ marks[i] <= offset'
      BY <1>1, <1>3, <3>1
    <3> QED  BY <3>1, <3>2, <3>3
  <2>2. b.depth \in 1 .. (i - 1) /\ marks'[b.depth] = marks[b.depth]
    BY <1>1, <1>2, <1>4, <2>1
  <2>3. ASSUME b.depth < i - 1 PROVE b.hi <= marks'[b.depth + 1]
    <3>1. b.depth + 1 \in 1 .. (i - 1) /\ b.depth < Len(marks)
      BY <1>1, <2>2, <2>3
    <3> QED  BY <1>2, <1>4, <2>1, <3>1
  <2> QED  BY <1>2, <1>4, <2>1, <2>2, <2>3
<1>8. FramesNested'
  BY <1>6, <1>7 DEF FramesNested, Depth
<1>9. TypeOK' /\ OffsetInCap'
  BY <1>1, <1>2, <1>3, <1>4 DEF IInv, TypeOK, OffsetInCap
<1>10. NullIsEmpty'
  BY <1>1, <1>3 DEF IInv, NullIsEmpty
<1> QED
  BY <1>3, <1>8, <1>9, <1>10 DEF IInv, BlocksDisjoint, Disjoint

LEMMA RewindStep ==
  ASSUME NEW i \in 1 .. Len(marks), IInv, ArenaRewind(i)
  PROVE  IInv'
<1>1. offset' \in {marks[i], offset}
  BY DEF ArenaRewind
<1> QED  BY <1>1, EndFrames DEF ArenaRewind

\* The frame of a growing block is the innermost one.
LEMMA ForgetStep == IInv /\ ForgetFrame => IInv'
<1> SUFFICES ASSUME IInv, ForgetFrame PROVE IInv'
  OBVIOUS
<1>1. Len(marks) \in Nat /\ Len(marks) \in 1 .. Len(marks)
  BY DEF ForgetFrame, GallocHeld, IInv, TypeOK, FramesNested, Depth
<1>2. /\ offset' \in {marks[Len(marks)], offset}
      /\ UNCHANGED <<base, cap, poisoined, status, bases>>
      /\ marks' = SubSeq(marks, 1, Len(marks) - 1)
      /\ blocks' = {b \in blocks : b.depth < Len(marks)}
  BY DEF ForgetFrame, arena
<1> QED  BY <1>1, <1>2, EndFrames

-----------------------------------------------------------------------------
\* The inductive invariant: types, the offset within the capacity, no frame in a
\* NULL arena, frames that nest, and blocks that share no limb; for every
\* capacity, every set of requests and every bound, wherever callers grow.
THEOREM ArenaInvariant == Spec => []IInv
<1>1. Init => IInv
  <2> SUFFICES ASSUME Init PROVE IInv
    OBVIOUS
  <2>1. poisoined \in BOOLEAN /\ status \in Statuses
    BY Zenon DEF Init, Statuses
  <2>2. TypeOK
    BY <2>1, ArenaAssumption DEF Init, TypeOK, NULL
  <2> QED
    BY <2>2 DEF Init, IInv, OffsetInCap, NullIsEmpty, FramesNested, BlocksDisjoint,
       Depth
<1>2. IInv /\ [Next]_vars => IInv'
  <2> SUFFICES ASSUME IInv, [Next]_vars PROVE IInv'
    OBVIOUS
  <2>1. CASE UseArena \/ InitDynamol
    BY <2>1, InitArenaStep DEF UseArena, InitDynamol
  <2>2. CASE Presize
    BY <2>2, PresizeStep
  <2>3. CASE Kernel
    <3>1. CASE KernelMark
      BY <3>1, MarkStep
    <3>2. CASE KernelAlloc
      BY <3>2, AllocStep DEF KernelAlloc
    <3>3. CASE KernelRewind
      BY <3>3, RewindStep DEF KernelRewind
    <3> QED  BY <2>3, <3>1, <3>2, <3>3 DEF Kernel
  <2>4. CASE Cleanup
    <3>1. marks' = <<>> /\ blocks' = {} /\ cap' = 0 /\ offset' = 0
      BY <2>4 DEF Cleanup
    <3>2. poisoined' \in BOOLEAN
      BY <2>4, Zenon DEF Cleanup
    <3>3. TypeOK'
      BY <2>4, <3>1, <3>2, ArenaAssumption DEF Cleanup, IInv, TypeOK, NULL
    <3> QED
      BY <3>1, <3>3 DEF IInv, OffsetInCap, NullIsEmpty, FramesNested, BlocksDisjoint,
         Depth
  <2>5. CASE GrowingCall
    <3>1. marks # <<>> /\ ~GallocHeld
      BY <2>5 DEF GrowingCall
    <3> QED  BY <2>5, <3>1, GallocStep DEF GrowingCall
  <2>6. CASE ForgetFrame
    BY <2>6, ForgetStep
  <2>7. CASE UNCHANGED vars
    BY <2>7 DEF vars, IInv, TypeOK, OffsetInCap, NullIsEmpty, FramesNested,
       BlocksDisjoint, Depth, Disjoint
  <2> QED  BY <2>1, <2>2, <2>3, <2>4, <2>5, <2>6, <2>7 DEF Next
<1> QED  BY <1>1, <1>2, PTL DEF Spec

\* Type correctness of the arena and of what its callers hold.
THEOREM ArenaTypeOK == Spec => []TypeOK
<1>1. IInv => TypeOK
  BY DEF IInv
<1> QED  BY <1>1, ArenaInvariant, PTL

\* Marks rise, none is above the offset, and every block lies between the mark
\* of its frame and the next one: what lets a kernel rewind to its own mark
\* without asking who allocated above it.
THEOREM ArenaFramesNested == Spec => []FramesNested
<1>1. IInv => FramesNested
  BY DEF IInv
<1> QED  BY <1>1, ArenaInvariant, PTL

\* No limb of the arena is ever held by two callers (BlocksDisjoint).
THEOREM ArenaBlocksDisjoint == Spec => []BlocksDisjoint
<1>1. IInv => BlocksDisjoint
  BY DEF IInv
<1> QED  BY <1>1, ArenaInvariant, PTL

-----------------------------------------------------------------------------
\* Poison is sticky: a poisoned arena grants no block, keeps its buffer, and
\* only a destruct or an init with a new buffer makes it usable (PoisonSticky).
THEOREM ArenaPoisonSticky == Spec => PoisonSticky
<1> DEFINE Sticky ==
      poisoined =>
        /\ blocks' \subseteq blocks
        /\ ~poisoined' => base = NULL \/ base' = NULL
        /\ poisoined' => base' = base /\ cap' = cap
<1>1. [Next]_vars => [Sticky]_vars
  <2> SUFFICES ASSUME Next, poisoined PROVE Sticky
    BY Zenon
  <2>1. CASE UseArena \/ InitDynamol
    BY <2>1, Zenon DEF UseArena, InitDynamol, InitArena, arena, client
  <2>2. CASE Presize
    BY <2>2, Zenon DEF Presize, ArenaGrow, client
  <2>3. CASE Kernel
    <3>1. blocks' \subseteq blocks /\ UNCHANGED <<base, cap, poisoined>>
      <4>1. CASE KernelMark
        BY <4>1, Zenon DEF KernelMark, ArenaMark, arena
      <4>2. ASSUME NEW space \in Requests, ArenaAlloc(space)
            PROVE  blocks' \subseteq blocks /\ UNCHANGED <<base, cap, poisoined>>
        BY <4>2, Zenon DEF ArenaAlloc
      <4>3. ASSUME NEW i \in 1 .. Len(marks), ArenaRewind(i)
            PROVE  blocks' \subseteq blocks /\ UNCHANGED <<base, cap, poisoined>>
        BY <4>3 DEF ArenaRewind
      <4> QED  BY <2>3, <4>1, <4>2, <4>3, Zenon DEF Kernel, KernelAlloc, KernelRewind
    <3> QED  BY <3>1, Zenon
  <2>4. CASE Cleanup
    BY <2>4, Zenon DEF Cleanup
  <2>5. CASE GrowingCall
    <3>1. PICK space \in Requests : ArenaGalloc(space)
      BY <2>5 DEF GrowingCall
    <3>2. status' = "DARENA_POISON" /\ UNCHANGED <<base, cap, poisoined>>
      BY <3>1, Zenon DEF ArenaGalloc, ArenaGrow
    <3>3. status' # "DARENA_SUCCESS"
      BY <3>2
    <3>4. blocks' = blocks
      BY <3>1, <3>3, Zenon DEF ArenaGalloc
    <3> QED  BY <3>2, <3>4, Zenon
  <2>6. CASE ForgetFrame
    BY <2>6 DEF ForgetFrame, arena
  <2> QED  BY <2>1, <2>2, <2>3, <2>4, <2>5, <2>6, Zenon DEF Next
<1> QED  BY <1>1, PTL DEF Spec, PoisonSticky

-----------------------------------------------------------------------------
(* The refinement: each step of the arena is a step of the pool of limbs. *)

\* A step that leaves marks and blocks alone is a stutter of the pool.
LEMMA PoolStutter == UNCHANGED client => UNCHANGED PoolFrames
BY DEF client, PoolFrames, FrameLimbs, LimbsOf, Depth

\* The new frame of a mark holds nothing.
LEMMA PoolOpen == IInv /\ KernelMark => Pool!Open
<1> SUFFICES ASSUME IInv, KernelMark PROVE Pool!Open
  OBVIOUS
<1>1. marks' = Append(marks, offset) /\ blocks' = blocks
  BY DEF KernelMark, ArenaMark
<1>2. Len(marks) \in Nat /\ Len(marks') = Len(marks) + 1
  BY <1>1 DEF IInv, TypeOK
<1>3. \A b \in blocks : b.depth # Len(marks) + 1
  BY <1>2 DEF IInv, FramesNested, Depth
<1>4. FrameLimbs(Len(marks) + 1) = {}
  BY <1>3 DEF FrameLimbs
<1>5. \A i : FrameLimbs(i)' = FrameLimbs(i)
  BY <1>1 DEF FrameLimbs, LimbsOf
<1>6. PoolFrames' = [i \in 1 .. (Len(marks) + 1) |-> FrameLimbs(i)]
  BY <1>2, <1>5 DEF PoolFrames, Depth
<1>7. PoolFrames' = Append(PoolFrames, {})
  BY <1>2, <1>4, <1>6 DEF PoolFrames, Depth
<1> QED  BY <1>7 DEF Pool!Open

\* A granted block is a set of limbs that no frame holds: lo .. hi - 1, where lo
\* is not below the offset and every held block has ended by there.
LEMMA PoolGrant ==
  ASSUME NEW lo \in Nat, NEW hi \in Nat, NEW past, NEW buffer, IInv, ~GallocHeld, marks # <<>>,
         offset <= lo, lo <= hi, hi <= MaxCap + 1, marks' = marks,
         blocks' = blocks \cup {[base |-> buffer, lo |-> lo, hi |-> hi, past |-> past,
                                  depth |-> Len(marks)]}
  PROVE  Pool!Next
<1> DEFINE limbs == lo .. (hi - 1)
           granted == [base |-> buffer, lo |-> lo, hi |-> hi, past |-> past,
                       depth |-> Len(marks)]
<1>1. blocks' = blocks \cup {granted} /\ marks' = marks
  OBVIOUS
<1>2. limbs \subseteq 0 .. MaxCap
  BY ArenaAssumption
<1>3. \A b \in blocks : LimbsOf(b) \cap limbs = {}
  BY DEF IInv, TypeOK, FramesNested, GallocHeld, Block, LimbsOf
<1>4. Len(marks) \in Nat /\ Len(PoolFrames) = Len(marks)
  BY DEF IInv, TypeOK, PoolFrames, Depth
<1>5. \A i \in 1 .. Len(marks) : FrameLimbs(i) \cap limbs = {}
  BY <1>3 DEF FrameLimbs
<1>6. limbs \cap Pool!Held = {}
  BY <1>4, <1>5 DEF Pool!Held, PoolFrames, Depth
<1>7. \A i : FrameLimbs(i)' = FrameLimbs(i) \cup (IF i = Len(marks) THEN limbs ELSE {})
  <2>1. LimbsOf(granted) = limbs /\ granted.depth = Len(marks)
    <3>1. granted.lo = lo /\ granted.hi = hi /\ granted.depth = Len(marks)
      OBVIOUS
    <3>2. LimbsOf(granted) = granted.lo .. (granted.hi - 1)
      BY DEF LimbsOf
    <3> HIDE DEF granted
    <3> QED  BY <3>1, <3>2
  <2>2. ASSUME NEW i
        PROVE  {c \in blocks' : c.depth = i} = {c \in blocks : c.depth = i}
                 \cup (IF i = Len(marks) THEN {granted} ELSE {})
    BY <1>1, <2>1
  <2>3. ASSUME NEW i
        PROVE  UNION {LimbsOf(b) : b \in {c \in blocks' : c.depth = i}}
               = FrameLimbs(i) \cup (IF i = Len(marks) THEN limbs ELSE {})
    <3> HIDE DEF granted, limbs
    <3>1. CASE i = Len(marks)
      <4>1. {c \in blocks' : c.depth = i} = {c \in blocks : c.depth = i} \cup {granted}
        BY <2>2, <3>1
      <4>2. ASSUME NEW held
            PROVE  UNION {LimbsOf(b) : b \in held \cup {granted}}
                   = (UNION {LimbsOf(b) : b \in held}) \cup LimbsOf(granted)
        OBVIOUS
      <4> QED  BY <2>1, <3>1, <4>1, <4>2, Zenon DEF FrameLimbs
    <3>2. CASE i # Len(marks)
      BY <2>2, <3>2 DEF FrameLimbs
    <3> QED  BY <3>1, <3>2
  <2> QED  BY <2>3 DEF FrameLimbs, LimbsOf
<1>8. PoolFrames' = [PoolFrames EXCEPT ![Len(PoolFrames)] = @ \cup limbs]
  BY <1>1, <1>4, <1>7 DEF PoolFrames, Depth
<1>9. PoolFrames # <<>>
  BY <1>4
<1> QED  BY <1>2, <1>6, <1>8, <1>9 DEF Pool!Next, Pool!Acquire

LEMMA PoolAcquire ==
  ASSUME NEW space \in Requests, IInv, ~GallocHeld, marks # <<>>, ArenaAlloc(space)
  PROVE  Pool!Next \/ UNCHANGED PoolFrames
<1>1. CASE blocks' = blocks
  BY <1>1, PoolStutter DEF ArenaAlloc, client
<1>2. CASE blocks' # blocks
  <2>1. /\ offset + space <= cap /\ marks' = marks
        /\ blocks' = blocks \cup {[base |-> base, lo |-> offset, hi |-> offset + space,
                                   past |-> 0, depth |-> Len(marks)]}
    BY <1>2 DEF ArenaAlloc
  <2>2. /\ offset \in Nat /\ offset + space \in Nat /\ offset <= offset
        /\ offset <= offset + space /\ offset + space <= MaxCap + 1
    BY <2>1, ArenaAssumption DEF IInv, TypeOK
  <2> QED  BY <2>1, <2>2, PoolGrant
<1> QED  BY <1>1, <1>2

\* So is a growing block, the last limb of which may be the one after the buffer.
LEMMA PoolAcquireGrowing ==
  ASSUME NEW space \in Requests, IInv, ~GallocHeld, marks # <<>>, ArenaGalloc(space)
  PROVE  Pool!Next \/ UNCHANGED PoolFrames
<1>1. CASE blocks' = blocks
  BY <1>1, PoolStutter DEF ArenaGalloc, client
<1>2. CASE blocks' # blocks
  <2>1. /\ status' = "DARENA_SUCCESS" /\ marks' = marks
        /\ blocks' = blocks \cup {[base |-> base', lo |-> offset + 1, hi |-> offset + space + 1,
                                   past |-> 1, depth |-> Len(marks)]}
        /\ ArenaGrow(offset + space)
    BY <1>2 DEF ArenaGalloc
  <2>2. offset \in Nat /\ space \in Nat /\ offset + space \in Nat
    BY ArenaAssumption DEF IInv, TypeOK
  <2>3. cap' \in 0 .. MaxCap /\ offset + space <= cap'
    BY <2>1, <2>2, GrowFields
  <2>4. /\ offset + 1 \in Nat /\ offset + space + 1 \in Nat /\ offset <= offset + 1
        /\ offset + 1 <= offset + space + 1 /\ offset + space + 1 <= MaxCap + 1
    BY <2>2, <2>3, ArenaAssumption
  <2> QED  BY <2>1, <2>4, PoolGrant
<1> QED  BY <1>1, <1>2

\* Ending the frames from the i-th on, by a rewind or by forgetting it, closes
\* them in the pool.
LEMMA PoolClose ==
  ASSUME NEW i \in 1 .. Len(marks), IInv,
         marks' = SubSeq(marks, 1, i - 1), blocks' = {b \in blocks : b.depth < i}
  PROVE  Pool!Next
<1>1. Len(marks) \in Nat /\ Len(marks') = i - 1 /\ Len(PoolFrames) = Len(marks)
  BY DEF IInv, TypeOK, PoolFrames, Depth
<1>2. \A j \in 1 .. (i - 1) : FrameLimbs(j)' = FrameLimbs(j)
  BY DEF FrameLimbs, LimbsOf
<1>3. PoolFrames' = SubSeq(PoolFrames, 1, i - 1)
  BY <1>1, <1>2 DEF PoolFrames, Depth
<1> QED  BY <1>1, <1>3 DEF Pool!Next, Pool!Close

\* The arena implements the pool of scratch limbs: no limb is granted while
\* somebody holds it, and ending a frame releases it and its inner frames.
THEOREM ArenaImplementsPool == Spec => ImplementsPool
<1>1. Init => Pool!Init
  BY DEF Init, Pool!Init, PoolFrames, Depth
<1>2. IInv /\ [Next]_vars => [Pool!Next]_PoolFrames
  <2> SUFFICES ASSUME IInv, [Next]_vars PROVE Pool!Next \/ UNCHANGED PoolFrames
    OBVIOUS
  <2>1. CASE UseArena \/ InitDynamol \/ Presize \/ UNCHANGED vars
    <3>1. UNCHANGED client
      BY <2>1, Zenon DEF UseArena, InitDynamol, InitArena, Presize, client, vars
    <3> QED  BY <3>1, PoolStutter
  <2>2. CASE Kernel
    <3>1. CASE KernelMark
      BY <3>1, PoolOpen DEF Pool!Next
    <3>2. CASE KernelAlloc
      BY <3>2, PoolAcquire DEF KernelAlloc
    <3>3. CASE KernelRewind
      BY <3>3, PoolClose DEF KernelRewind, ArenaRewind
    <3> QED  BY <2>2, <3>1, <3>2, <3>3 DEF Kernel
  <2>3. CASE Cleanup
    BY <2>3 DEF Cleanup, Pool!Next, Pool!Reset, PoolFrames, Depth
  <2>4. CASE GrowingCall
    <3>1. marks # <<>> /\ ~GallocHeld
      BY <2>4 DEF GrowingCall
    <3> QED  BY <2>4, <3>1, PoolAcquireGrowing DEF GrowingCall
  <2>5. CASE ForgetFrame
    <3>1. Len(marks) \in 1 .. Len(marks)
      BY <2>5 DEF ForgetFrame, GallocHeld, IInv, TypeOK, FramesNested, Depth
    <3> QED  BY <2>5, <3>1, PoolClose DEF ForgetFrame
  <2> QED  BY <2>1, <2>2, <2>3, <2>4, <2>5 DEF Next
<1> QED  BY <1>1, <1>2, ArenaInvariant, PTL DEF Spec, ImplementsPool, Pool!Spec

-----------------------------------------------------------------------------
(* LibLifecycle: the tables in their order, and the buffers of the live     *)
(* arenas.                                                                  *)

\* The eight tables are the entries of FillOrder.
LEMMA FillOrderFacts ==
  /\ Len(FillOrder) = 8
  /\ \A i \in 1 .. 8 : FillOrder[i] \in Tables
  /\ \A f \in Tables : \E i \in 1 .. 8 : f = FillOrder[i]
<1>1. DOMAIN FillOrder = 1 .. 8 /\ Len(FillOrder) = 8
  BY DEF FillOrder
<1> QED  BY <1>1 DEF Tables, ToSet

\* The threads whose arena is live.
Live(a) == {th \in Threads : a[th].live}

\* Giving one thread another arena changes the number of live ones by that thread.
LEMMA LiveAfter ==
  ASSUME NEW a \in [Threads -> ArenaState], NEW th \in Threads, NEW r \in ArenaState
  PROVE  LET b == [a EXCEPT ![th] = r]
         IN  /\ b \in [Threads -> ArenaState]
             /\ Cardinality(Live(a)) \in Nat
             /\ Cardinality(Live(b)) =
                  Cardinality(Live(a)) - Held(a, th) + (IF r.live THEN 1 ELSE 0)
<1> DEFINE b == [a EXCEPT ![th] = r]
<1>1. /\ b \in [Threads -> ArenaState] /\ b[th] = r
      /\ \A s \in Threads : s # th => b[s] = a[s]
  OBVIOUS
<1>2. IsFiniteSet(Live(a)) /\ Cardinality(Live(a)) \in Nat
  <2>1. IsFiniteSet(Threads) /\ Live(a) \in SUBSET Threads
    BY LifecycleAssumption DEF Live
  <2>2. IsFiniteSet(Live(a))
    BY <2>1, FS_Subset
  <2> QED  BY <2>2, FS_CardinalityType
<1>3. CASE r.live
  <2>1. Live(b) = Live(a) \cup {th}
    BY <1>1, <1>3 DEF Live
  <2>2. Cardinality(Live(b)) = IF th \in Live(a) THEN Cardinality(Live(a)) ELSE Cardinality(Live(a)) + 1
    BY <1>2, <2>1, FS_AddElement
  <2>3. th \in Live(a) <=> a[th].live
    BY DEF Live
  <2> QED  BY <1>1, <1>2, <1>3, <2>2, <2>3 DEF Held
<1>4. CASE ~r.live
  <2>1. Live(b) = Live(a) \ {th}
    BY <1>1, <1>4 DEF Live
  <2>2. Cardinality(Live(b)) = IF th \in Live(a) THEN Cardinality(Live(a)) - 1 ELSE Cardinality(Live(a))
    BY <1>2, <2>1, FS_RemoveElement
  <2>3. th \in Live(a) <=> a[th].live
    BY DEF Live
  <2> QED  BY <1>1, <1>2, <1>4, <2>2, <2>3 DEF Held
<1> QED  BY <1>1, <1>2, <1>3, <1>4

\* init_arena on the numeric arena of a thread: the buffers stay accounted for.
LEMMA InitNumericKeeps ==
  ASSUME LifecycleTypeOK, BuffersOwned, NEW th \in Threads, InitThreadArena(numeric, th),
         io' = io
  PROVE  /\ numeric' \in [Threads -> ArenaState] /\ buffers' \in Nat /\ BuffersOwned'
         /\ \A s \in Threads : numeric[s].live => numeric'[s].live
         /\ \A s \in Threads : s # th => numeric'[s] = numeric[s]
<1>1. /\ numeric \in [Threads -> ArenaState] /\ io \in [Threads -> ArenaState] /\ buffers \in Nat
      /\ buffers = Cardinality(Live(numeric)) + Cardinality(Live(io))
  BY DEF LifecycleTypeOK, BuffersOwned, Live
<1>2. CASE numeric[th].live /\ UNCHANGED <<numeric, buffers>>
  BY <1>1, <1>2 DEF BuffersOwned
<1>3. ASSUME ~numeric[th].live, NEW r \in ArenaState, numeric' = [numeric EXCEPT ![th] = r],
             buffers' = buffers + (IF r.live THEN 1 ELSE 0)
      PROVE  /\ numeric' \in [Threads -> ArenaState] /\ buffers' \in Nat
             /\ buffers' = Cardinality(Live(numeric')) + Cardinality(Live(io'))
  <2>1. /\ numeric' \in [Threads -> ArenaState]
        /\ Cardinality(Live(numeric)) \in Nat
        /\ Cardinality(Live(numeric')) = Cardinality(Live(numeric)) - Held(numeric, th) + (IF r.live THEN 1 ELSE 0)
    BY <1>1, <1>3, LiveAfter
  <2>2. Held(numeric, th) = 0 /\ Cardinality(Live(io')) = Cardinality(Live(io))
    BY <1>3 DEF Held
  <2>3. Cardinality(Live(io)) \in Nat
    <3>1. [io EXCEPT ![th] = io[th]] = io /\ io[th] \in ArenaState
      BY <1>1
    <3> QED  BY <1>1, <3>1, LiveAfter
  <2> QED  BY <1>1, <1>3, <2>1, <2>2, <2>3
<1>4. CASE /\ ~numeric[th].live
           /\ numeric' = [numeric EXCEPT ![th] = [live |-> TRUE, poisoined |-> FALSE]]
           /\ buffers' = buffers + 1
  <2>1. [live |-> TRUE, poisoined |-> FALSE] \in ArenaState
    BY DEF ArenaState
  <2> QED  BY <1>1, <1>3, <1>4, <2>1 DEF BuffersOwned, Live
<1>5. CASE /\ ~numeric[th].live
           /\ numeric' = [numeric EXCEPT ![th].poisoined = TRUE]
           /\ UNCHANGED buffers
  <2> DEFINE r == [numeric[th] EXCEPT !.poisoined = TRUE]
  <2>1. r \in ArenaState /\ ~r.live /\ numeric' = [numeric EXCEPT ![th] = r]
    BY <1>1, <1>5 DEF ArenaState
  <2> QED  BY <1>1, <1>3, <1>5, <2>1 DEF BuffersOwned, Live
<1> QED  BY <1>2, <1>4, <1>5 DEF InitThreadArena

\* init_arena on the IO arena of a thread: the buffers stay accounted for.
LEMMA InitIoKeeps ==
  ASSUME LifecycleTypeOK, BuffersOwned, NEW th \in Threads, InitThreadArena(io, th),
         numeric' = numeric
  PROVE  /\ io' \in [Threads -> ArenaState] /\ buffers' \in Nat /\ BuffersOwned'
         /\ \A s \in Threads : io[s].live => io'[s].live
         /\ \A s \in Threads : s # th => io'[s] = io[s]
<1>1. /\ io \in [Threads -> ArenaState] /\ numeric \in [Threads -> ArenaState] /\ buffers \in Nat
      /\ buffers = Cardinality(Live(numeric)) + Cardinality(Live(io))
  BY DEF LifecycleTypeOK, BuffersOwned, Live
<1>2. CASE io[th].live /\ UNCHANGED <<io, buffers>>
  BY <1>1, <1>2 DEF BuffersOwned
<1>3. ASSUME ~io[th].live, NEW r \in ArenaState, io' = [io EXCEPT ![th] = r],
             buffers' = buffers + (IF r.live THEN 1 ELSE 0)
      PROVE  /\ io' \in [Threads -> ArenaState] /\ buffers' \in Nat
             /\ buffers' = Cardinality(Live(numeric')) + Cardinality(Live(io'))
  <2>1. /\ io' \in [Threads -> ArenaState]
        /\ Cardinality(Live(io)) \in Nat
        /\ Cardinality(Live(io')) = Cardinality(Live(io)) - Held(io, th) + (IF r.live THEN 1 ELSE 0)
    BY <1>1, <1>3, LiveAfter
  <2>2. Held(io, th) = 0 /\ Cardinality(Live(numeric')) = Cardinality(Live(numeric))
    BY <1>3 DEF Held
  <2>3. Cardinality(Live(numeric)) \in Nat
    <3>1. [numeric EXCEPT ![th] = numeric[th]] = numeric /\ numeric[th] \in ArenaState
      BY <1>1
    <3> QED  BY <1>1, <3>1, LiveAfter
  <2> QED  BY <1>1, <1>3, <2>1, <2>2, <2>3
<1>4. CASE /\ ~io[th].live
           /\ io' = [io EXCEPT ![th] = [live |-> TRUE, poisoined |-> FALSE]]
           /\ buffers' = buffers + 1
  <2>1. [live |-> TRUE, poisoined |-> FALSE] \in ArenaState
    BY DEF ArenaState
  <2> QED  BY <1>1, <1>3, <1>4, <2>1 DEF BuffersOwned, Live
<1>5. CASE /\ ~io[th].live
           /\ io' = [io EXCEPT ![th].poisoined = TRUE]
           /\ UNCHANGED buffers
  <2> DEFINE r == [io[th] EXCEPT !.poisoined = TRUE]
  <2>1. r \in ArenaState /\ ~r.live /\ io' = [io EXCEPT ![th] = r]
    BY <1>1, <1>5 DEF ArenaState
  <2> QED  BY <1>1, <1>3, <1>5, <2>1 DEF BuffersOwned, Live
<1> QED  BY <1>2, <1>4, <1>5 DEF InitThreadArena

-----------------------------------------------------------------------------
(* LibLifecycle: the calls. *)

\* What the call of a thread holds, by its kind.
LEMMA CallFacts ==
  ASSUME LifecycleTypeOK, NEW th \in Threads
  PROVE  /\ InInit(th) => /\ call[th].unit \in Units /\ call[th].at \in 0 .. 11
                         /\ call[th] = [op |-> "init", unit |-> call[th].unit, at |-> call[th].at]
         /\ InClean(th) => /\ call[th].unit \in Units /\ call[th].at \in 1 .. 5
                          /\ call[th] = [op |-> "cleanup", unit |-> call[th].unit, at |-> call[th].at]
<1>1. call[th] \in CallState
  BY DEF LifecycleTypeOK
<1>2. Len(FillOrder) + 3 = 11 /\ Len(ClearOrder) + 1 = 5
  BY FillOrderFacts DEF ClearOrder
<1>3. call[th] = Idle => ~InInit(th) /\ ~InClean(th)
  BY DEF Idle, InInit, InClean
<1> QED  BY <1>1, <1>2, <1>3 DEF CallState, InInit, InClean

\* A thread goes on to the next statement of the call it is in.
LEMMA AdvanceFacts ==
  ASSUME LifecycleTypeOK, NEW th \in Threads, Advance(th),
         (InInit(th) /\ call[th].at < 11) \/ (InClean(th) /\ call[th].at < 5)
  PROVE  /\ call' \in [Threads -> CallState]
         /\ (InInit(th)' <=> InInit(th)) /\ (InClean(th)' <=> InClean(th))
         /\ call'[th].at = call[th].at + 1
         /\ \A s \in Threads : s # th => call'[s] = call[s]
<1>1. call \in [Threads -> CallState]
  BY DEF LifecycleTypeOK
<1>2. call' = [call EXCEPT ![th] = [call[th] EXCEPT !.at = call[th].at + 1]]
  BY DEF Advance
<1>3. Len(FillOrder) + 3 = 11 /\ Len(ClearOrder) + 1 = 5
  BY FillOrderFacts DEF ClearOrder
<1> DEFINE c == [call[th] EXCEPT !.at = call[th].at + 1]
<1>4. CASE InInit(th) /\ call[th].at < 11
  <2>1. /\ call[th].unit \in Units /\ call[th].at \in 0 .. 11
        /\ call[th] = [op |-> "init", unit |-> call[th].unit, at |-> call[th].at]
    BY <1>4, CallFacts, Zenon
  <2>2. /\ c = [op |-> "init", unit |-> call[th].unit, at |-> call[th].at + 1]
        /\ call[th].at + 1 \in 0 .. 11
    BY <1>4, <2>1
  <2>3. c \in CallState /\ c.op = "init" /\ c.at = call[th].at + 1
    BY <1>3, <2>1, <2>2 DEF CallState
  <2> QED  BY <1>1, <1>2, <1>4, <2>3 DEF InInit, InClean
<1>5. CASE InClean(th) /\ call[th].at < 5
  <2>1. /\ call[th].unit \in Units /\ call[th].at \in 1 .. 5
        /\ call[th] = [op |-> "cleanup", unit |-> call[th].unit, at |-> call[th].at]
    BY <1>5, CallFacts, Zenon
  <2>2. /\ c = [op |-> "cleanup", unit |-> call[th].unit, at |-> call[th].at + 1]
        /\ call[th].at + 1 \in 1 .. 5
    BY <1>5, <2>1
  <2>3. c \in CallState /\ c.op = "cleanup" /\ c.at = call[th].at + 1
    BY <1>3, <2>1, <2>2 DEF CallState
  <2> QED  BY <1>1, <1>2, <1>5, <2>3 DEF InInit, InClean
<1> QED  BY <1>4, <1>5

\* A thread returns, and is in no call.
LEMMA ReturnsFacts ==
  ASSUME LifecycleTypeOK, NEW th \in Threads, NEW u \in Units, Returns(th, u)
  PROVE  /\ call' \in [Threads -> CallState]
         /\ ~InInit(th)' /\ ~InClean(th)'
         /\ \A s \in Threads : s # th => call'[s] = call[s]
         /\ constructed' \subseteq Units
<1>1. call \in [Threads -> CallState] /\ Idle \in CallState
  BY DEF LifecycleTypeOK, CallState
<1>2. call' = [call EXCEPT ![th] = Idle]
  BY DEF Returns
<1>3. constructed' \subseteq Units
  BY DEF Returns, LifecycleTypeOK
<1> QED  BY <1>1, <1>2, <1>3 DEF Idle, InInit, InClean

-----------------------------------------------------------------------------
(* LibLifecycle: one lemma per action. *)

\* Lazy creation outside init and clean-up.
LEMMA UseThreadArenaStep ==
  ASSUME LifecycleInv, NEW th \in Threads, UseThreadArena(th), UNCHANGED ctors
  PROVE  LifecycleInv'
<1>1. LifecycleTypeOK /\ BuffersOwned /\ StepsDone /\ FilledSoFar
  BY DEF LifecycleInv
<1>2. /\ numeric' \in [Threads -> ArenaState] /\ io' \in [Threads -> ArenaState]
      /\ buffers' \in Nat /\ BuffersOwned'
      /\ \A s \in Threads : (numeric[s].live => numeric'[s].live) /\ (io[s].live => io'[s].live)
  <2>1. CASE InitThreadArena(numeric, th) /\ UNCHANGED io
    BY <1>1, <2>1, InitNumericKeeps DEF LifecycleTypeOK
  <2>2. CASE InitThreadArena(io, th) /\ UNCHANGED numeric
    BY <1>1, <2>2, InitIoKeeps DEF LifecycleTypeOK
  <2> QED  BY <2>1, <2>2 DEF UseThreadArena
<1>3. UNCHANGED <<ctors, libinit, caps, table, call, constructed, ready, cleaned>>
  BY DEF UseThreadArena
<1>4. LifecycleTypeOK'
  BY <1>1, <1>2, <1>3 DEF LifecycleTypeOK
<1>5. StepsDone'
  BY <1>1, <1>2, <1>3 DEF StepsDone, InInit
<1>6. FilledSoFar'
  BY <1>1, <1>3 DEF FilledSoFar, InInit, InClean, Dispatched
<1> QED  BY <1>2, <1>4, <1>5, <1>6 DEF LifecycleInv

\* A growth that fails leaves the arena live.
LEMMA GrowFailsStep ==
  ASSUME LifecycleInv, NEW th \in Threads, GrowFails(th), UNCHANGED ctors
  PROVE  LifecycleInv'
<1>1. LifecycleTypeOK /\ BuffersOwned /\ StepsDone /\ FilledSoFar
  BY DEF LifecycleInv
<1>2. UNCHANGED <<ctors, libinit, caps, table, call, buffers, constructed, ready, cleaned>>
  BY DEF GrowFails
<1>3. /\ numeric' \in [Threads -> ArenaState] /\ io' \in [Threads -> ArenaState]
      /\ \A s \in Threads : (numeric[s].live <=> numeric'[s].live) /\ (io[s].live <=> io'[s].live)
  <2>1. numeric \in [Threads -> ArenaState] /\ io \in [Threads -> ArenaState]
    BY <1>1 DEF LifecycleTypeOK
  <2>2. CASE numeric' = [numeric EXCEPT ![th].poisoined = TRUE] /\ UNCHANGED io
    BY <2>1, <2>2 DEF ArenaState
  <2>3. CASE io' = [io EXCEPT ![th].poisoined = TRUE] /\ UNCHANGED numeric
    BY <2>1, <2>3 DEF ArenaState
  <2> QED  BY <2>2, <2>3 DEF GrowFails
<1>4. BuffersOwned'
  <2>1. Live(numeric') = Live(numeric) /\ Live(io') = Live(io)
    BY <1>3 DEF Live
  <2> QED  BY <1>1, <1>2, <2>1 DEF BuffersOwned, Live
<1>5. LifecycleTypeOK'
  BY <1>1, <1>2, <1>3 DEF LifecycleTypeOK
<1>6. StepsDone'
  BY <1>1, <1>2, <1>3 DEF StepsDone, InInit
<1>7. FilledSoFar'
  BY <1>1, <1>2 DEF FilledSoFar, InInit, InClean, Dispatched
<1> QED  BY <1>4, <1>5, <1>6, <1>7 DEF LifecycleInv

\* The early return is a success of a unit whose flag is set.
LEMMA InitAgainStep ==
  ASSUME LifecycleInv, NEW th \in Threads, NEW u \in Units, InitAgain(th, u), UNCHANGED ctors
  PROVE  LifecycleInv'
<1>1. LifecycleTypeOK /\ BuffersOwned /\ StepsDone /\ FilledSoFar
  BY DEF LifecycleInv
<1>2. /\ UNCHANGED <<ctors, libinit, caps, table, numeric, io, buffers, cleaned>>
      /\ Returns(th, u) /\ libinit[u] /\ ready' = (ready \/ NobodyCleans)
  BY DEF InitAgain
<1>3. /\ call' \in [Threads -> CallState] /\ constructed' \subseteq Units
      /\ ~InInit(th)' /\ ~InClean(th)' /\ \A s \in Threads : s # th => call'[s] = call[s]
  BY <1>1, <1>2, ReturnsFacts
<1>4. LifecycleTypeOK'
  <2>1. ready' \in BOOLEAN
    BY <1>1, <1>2 DEF LifecycleTypeOK, NobodyCleans
  <2> QED  BY <1>1, <1>2, <1>3, <2>1 DEF LifecycleTypeOK
<1>5. BuffersOwned'
  BY <1>1, <1>2 DEF BuffersOwned
<1>6. StepsDone'
  BY <1>1, <1>2, <1>3 DEF StepsDone, InInit
<1>7. FilledSoFar'
  <2>1. ~cleaned => Dispatched
    BY <1>1, <1>2 DEF FilledSoFar
  <2> QED  BY <1>1, <1>2, <1>3, <2>1 DEF FilledSoFar, InInit, InClean, Dispatched
<1> QED  BY <1>4, <1>5, <1>6, <1>7 DEF LifecycleInv

\* An init begins: the thread has filled nothing yet.
LEMMA InitBeginsStep ==
  ASSUME LifecycleInv, NEW th \in Threads, NEW u \in Units, InitBegins(th, u), UNCHANGED ctors
  PROVE  LifecycleInv'
<1> DEFINE c == [op |-> "init", unit |-> u, at |-> 0]
<1>1. LifecycleTypeOK /\ BuffersOwned /\ StepsDone /\ FilledSoFar
  BY DEF LifecycleInv
<1>2. /\ UNCHANGED <<ctors, libinit, caps, table, numeric, io, buffers, constructed, ready, cleaned>>
      /\ call' = [call EXCEPT ![th] = c]
  BY DEF InitBegins
<1>3. /\ call' \in [Threads -> CallState] /\ call'[th] = c
      /\ \A s \in Threads : s # th => call'[s] = call[s]
  <2>1. call \in [Threads -> CallState]
    BY <1>1 DEF LifecycleTypeOK
  <2>2. c \in CallState
    BY FillOrderFacts DEF CallState
  <2> QED  BY <1>2, <2>1, <2>2
<1>4. LifecycleTypeOK'
  BY <1>1, <1>2, <1>3 DEF LifecycleTypeOK
<1>5. BuffersOwned'
  BY <1>1, <1>2 DEF BuffersOwned
<1>6. StepsDone'
  BY <1>1, <1>2, <1>3, FillOrderFacts DEF StepsDone, InInit
<1>7. FilledSoFar'
  BY <1>1, <1>2, <1>3, FillOrderFacts DEF FilledSoFar, InInit, InClean, Dispatched
<1> QED  BY <1>4, <1>5, <1>6, <1>7 DEF LifecycleInv

\* The capabilities are known from here on.
LEMMA DetectStep ==
  ASSUME LifecycleInv, NEW th \in Threads, Detect(th), UNCHANGED ctors
  PROVE  LifecycleInv'
<1>1. LifecycleTypeOK /\ BuffersOwned /\ StepsDone /\ FilledSoFar
  BY DEF LifecycleInv
<1>2. /\ UNCHANGED <<ctors, libinit, table, numeric, io, buffers, constructed, ready, cleaned>>
      /\ caps' = TRUE /\ InInit(th) /\ call[th].at = 0 /\ Advance(th)
  BY DEF Detect
<1>3. /\ call' \in [Threads -> CallState] /\ call'[th].at = 1 /\ ~InClean(th)'
      /\ \A s \in Threads : s # th => call'[s] = call[s]
  <2>1. ~InClean(th)
    BY <1>2 DEF InInit, InClean
  <2> QED  BY <1>1, <1>2, <2>1, AdvanceFacts
<1>4. LifecycleTypeOK'
  BY <1>1, <1>2, <1>3 DEF LifecycleTypeOK
<1>5. BuffersOwned'
  BY <1>1, <1>2 DEF BuffersOwned
<1>6. StepsDone'
  BY <1>1, <1>2, <1>3, FillOrderFacts DEF StepsDone, InInit
<1>7. FilledSoFar'
  BY <1>1, <1>2, <1>3, FillOrderFacts DEF FilledSoFar, InInit, InClean, Dispatched
<1> QED  BY <1>4, <1>5, <1>6, <1>7 DEF LifecycleInv

\* A thread past the detection fills its next table with the right functions.
LEMMA FillStep ==
  ASSUME LifecycleInv, NEW th \in Threads, FillPerf(th) \/ FillCrt(th), UNCHANGED ctors
  PROVE  LifecycleInv'
<1>1. LifecycleTypeOK /\ BuffersOwned /\ StepsDone /\ FilledSoFar
  BY DEF LifecycleInv
<1>2. InInit(th) /\ call[th].at \in 1 .. 8 /\ FillTable(th) /\ caps
  BY <1>1, FillOrderFacts DEF FillPerf, FillCrt, StepsDone
<1>3. /\ UNCHANGED <<ctors, libinit, caps, numeric, io, buffers, constructed, ready, cleaned>>
      /\ table' = [table EXCEPT ![FillOrder[call[th].at]] = "probed"]
      /\ Advance(th)
  BY <1>2 DEF FillTable
<1>4. /\ table \in [Tables -> {"null", "portable", "probed"}]
      /\ table' \in [Tables -> {"null", "portable", "probed"}]
      /\ table'[FillOrder[call[th].at]] = "probed"
      /\ \A f \in Tables : table[f] = "probed" => table'[f] = "probed"
  BY <1>1, <1>2, <1>3, FillOrderFacts DEF LifecycleTypeOK
<1>5. /\ call' \in [Threads -> CallState] /\ call'[th].at = call[th].at + 1 /\ ~InClean(th)'
      /\ \A s \in Threads : s # th => call'[s] = call[s]
  <2>1. ~InClean(th)
    BY <1>2 DEF InInit, InClean
  <2> QED  BY <1>1, <1>2, <1>3, <2>1, AdvanceFacts
<1>6. LifecycleTypeOK'
  BY <1>1, <1>3, <1>4, <1>5 DEF LifecycleTypeOK
<1>7. BuffersOwned'
  BY <1>1, <1>3 DEF BuffersOwned
<1>8. StepsDone'
  BY <1>1, <1>2, <1>3, <1>5, FillOrderFacts DEF StepsDone, InInit
<1>9. FilledSoFar'
  <2> SUFFICES ASSUME ~cleaned  PROVE FilledSoFar'
    BY <1>3 DEF FilledSoFar
  <2>1. ASSUME NEW s \in Threads, InInit(s)', NEW i \in 1 .. 8, i < call'[s].at
        PROVE  table'[FillOrder[i]] = "probed"
    <3>1. CASE s = th /\ i = call[th].at
      BY <1>4, <3>1
    <3>2. CASE s = th /\ i # call[th].at
      BY <1>1, <1>2, <1>4, <1>5, <2>1, <3>2, FillOrderFacts DEF FilledSoFar
    <3>3. CASE s # th
      BY <1>1, <1>4, <1>5, <2>1, <3>3, FillOrderFacts DEF FilledSoFar, InInit
    <3> QED  BY <3>1, <3>2, <3>3
  <2>2. \A s \in Threads : ~InClean(s)'
    BY <1>1, <1>5 DEF FilledSoFar, InClean
  <2>3. (ready' \/ \E u \in Units : libinit'[u]) => Dispatched'
    BY <1>1, <1>3, <1>4 DEF FilledSoFar, Dispatched
  <2> QED  BY <2>1, <2>2, <2>3, FillOrderFacts DEF FilledSoFar
<1> QED  BY <1>6, <1>7, <1>8, <1>9 DEF LifecycleInv

\* The numeric arena is live when the call goes on to the next one.
LEMMA InitNumericStep ==
  ASSUME LifecycleInv, NEW th \in Threads, InitNumeric(th), UNCHANGED ctors
  PROVE  LifecycleInv'
<1>1. LifecycleTypeOK /\ BuffersOwned /\ StepsDone /\ FilledSoFar
  BY DEF LifecycleInv
<1>2. /\ UNCHANGED <<ctors, libinit, caps, table, io, ready, cleaned>>
      /\ InInit(th) /\ call[th].at = 9 /\ InitThreadArena(numeric, th)
      /\ \/ numeric'[th].live /\ Advance(th) /\ UNCHANGED constructed
         \/ Returns(th, call[th].unit)
  BY FillOrderFacts DEF InitNumeric
<1>3. /\ numeric' \in [Threads -> ArenaState] /\ buffers' \in Nat /\ BuffersOwned'
      /\ \A s \in Threads : numeric[s].live => numeric'[s].live
  BY <1>1, <1>2, InitNumericKeeps
<1>4. /\ call' \in [Threads -> CallState] /\ constructed' \subseteq Units /\ ~InClean(th)'
      /\ InInit(th)' => call'[th].at = 10 /\ numeric'[th].live
      /\ \A s \in Threads : s # th => call'[s] = call[s]
  <2>1. CASE numeric'[th].live /\ Advance(th) /\ UNCHANGED constructed
    <3>1. ~InClean(th)
      BY <1>2 DEF InInit, InClean
    <3> QED  BY <1>1, <1>2, <2>1, <3>1, AdvanceFacts DEF LifecycleTypeOK
  <2>2. CASE Returns(th, call[th].unit)
    <3>1. call[th].unit \in Units
      BY <1>1, <1>2, CallFacts, Zenon
    <3> QED  BY <1>1, <2>2, <3>1, ReturnsFacts
  <2> QED  BY <1>2, <2>1, <2>2
<1>5. LifecycleTypeOK'
  BY <1>1, <1>2, <1>3, <1>4 DEF LifecycleTypeOK
<1>6. StepsDone'
  BY <1>1, <1>2, <1>3, <1>4, FillOrderFacts DEF StepsDone, InInit
<1>7. FilledSoFar'
  BY <1>1, <1>2, <1>4, FillOrderFacts DEF FilledSoFar, InInit, InClean, Dispatched
<1> QED  BY <1>3, <1>5, <1>6, <1>7 DEF LifecycleInv

\* The IO arena is live, and the numeric one still is, when the flag is due.
LEMMA InitIOStep ==
  ASSUME LifecycleInv, NEW th \in Threads, InitIO(th), UNCHANGED ctors
  PROVE  LifecycleInv'
<1>1. LifecycleTypeOK /\ BuffersOwned /\ StepsDone /\ FilledSoFar
  BY DEF LifecycleInv
<1>2. /\ UNCHANGED <<ctors, libinit, caps, table, numeric, ready, cleaned>>
      /\ InInit(th) /\ call[th].at = 10 /\ InitThreadArena(io, th)
      /\ \/ io'[th].live /\ Advance(th) /\ UNCHANGED constructed
         \/ Returns(th, call[th].unit)
  BY FillOrderFacts DEF InitIO
<1>3. /\ io' \in [Threads -> ArenaState] /\ buffers' \in Nat /\ BuffersOwned'
      /\ \A s \in Threads : io[s].live => io'[s].live
  BY <1>1, <1>2, InitIoKeeps
<1>4. /\ call' \in [Threads -> CallState] /\ constructed' \subseteq Units /\ ~InClean(th)'
      /\ InInit(th)' => call'[th].at = 11 /\ io'[th].live
      /\ \A s \in Threads : s # th => call'[s] = call[s]
  <2>1. CASE io'[th].live /\ Advance(th) /\ UNCHANGED constructed
    <3>1. ~InClean(th)
      BY <1>2 DEF InInit, InClean
    <3> QED  BY <1>1, <1>2, <2>1, <3>1, AdvanceFacts DEF LifecycleTypeOK
  <2>2. CASE Returns(th, call[th].unit)
    <3>1. call[th].unit \in Units
      BY <1>1, <1>2, CallFacts, Zenon
    <3> QED  BY <1>1, <2>2, <3>1, ReturnsFacts
  <2> QED  BY <1>2, <2>1, <2>2
<1>5. LifecycleTypeOK'
  BY <1>1, <1>2, <1>3, <1>4 DEF LifecycleTypeOK
<1>6. StepsDone'
  BY <1>1, <1>2, <1>3, <1>4, FillOrderFacts DEF StepsDone, InInit
<1>7. FilledSoFar'
  BY <1>1, <1>2, <1>4, FillOrderFacts DEF FilledSoFar, InInit, InClean, Dispatched
<1> QED  BY <1>3, <1>5, <1>6, <1>7 DEF LifecycleInv

\* The flag is set when every table has been passed, so all of them are chosen.
LEMMA InitReturnsStep ==
  ASSUME LifecycleInv, NEW th \in Threads, InitReturns(th), UNCHANGED ctors
  PROVE  LifecycleInv'
<1>1. LifecycleTypeOK /\ BuffersOwned /\ StepsDone /\ FilledSoFar
  BY DEF LifecycleInv
<1>2. /\ UNCHANGED <<ctors, caps, table, numeric, io, buffers, cleaned>>
      /\ InInit(th) /\ call[th].at = 11 /\ Returns(th, call[th].unit)
      /\ libinit' = [libinit EXCEPT ![call[th].unit] = TRUE]
      /\ ready' = (ready \/ NobodyCleans)
  BY FillOrderFacts DEF InitReturns
<1>3. /\ call' \in [Threads -> CallState] /\ constructed' \subseteq Units
      /\ ~InInit(th)' /\ ~InClean(th)' /\ \A s \in Threads : s # th => call'[s] = call[s]
  <2>1. call[th].unit \in Units
    BY <1>1, <1>2, CallFacts, Zenon
  <2> QED  BY <1>1, <1>2, <2>1, ReturnsFacts
<1>4. LifecycleTypeOK'
  <2>1. ready' \in BOOLEAN
    BY <1>1, <1>2 DEF LifecycleTypeOK, NobodyCleans
  <2>2. libinit' \in [Units -> BOOLEAN]
    BY <1>1, <1>2 DEF LifecycleTypeOK
  <2> QED  BY <1>1, <1>2, <1>3, <2>1, <2>2 DEF LifecycleTypeOK
<1>5. BuffersOwned'
  BY <1>1, <1>2 DEF BuffersOwned
<1>6. StepsDone'
  BY <1>1, <1>2, <1>3 DEF StepsDone, InInit
<1>7. FilledSoFar'
  <2> SUFFICES ASSUME ~cleaned  PROVE FilledSoFar'
    BY <1>2 DEF FilledSoFar
  <2>1. Dispatched'
    <3>1. \A i \in 1 .. 8 : table[FillOrder[i]] = "probed"
      BY <1>1, <1>2, FillOrderFacts DEF FilledSoFar
    <3> QED  BY <1>2, <3>1, FillOrderFacts DEF Dispatched
  <2> QED  BY <1>1, <1>2, <1>3, <2>1, FillOrderFacts DEF FilledSoFar, InInit, InClean
<1> QED  BY <1>4, <1>5, <1>6, <1>7 DEF LifecycleInv

\* The first clean-up ends what the invariant says of the tables.
LEMMA CleanupBeginsStep ==
  ASSUME LifecycleInv, NEW th \in Threads, NEW u \in Units, CleanupBegins(th, u), UNCHANGED ctors
  PROVE  LifecycleInv'
<1> DEFINE c == [op |-> "cleanup", unit |-> u, at |-> 1]
<1>1. LifecycleTypeOK /\ BuffersOwned /\ StepsDone
  BY DEF LifecycleInv
<1>2. /\ UNCHANGED <<ctors, libinit, caps, table, numeric, io, buffers, constructed>>
      /\ ready' = FALSE /\ cleaned' = TRUE /\ call' = [call EXCEPT ![th] = c]
  BY DEF CleanupBegins
<1>3. /\ call' \in [Threads -> CallState] /\ call'[th] = c
      /\ \A s \in Threads : s # th => call'[s] = call[s]
  <2>1. call \in [Threads -> CallState]
    BY <1>1 DEF LifecycleTypeOK
  <2>2. c \in CallState
    <3>1. 1 \in 1 .. Len(ClearOrder) + 1
      BY DEF ClearOrder
    <3> QED  BY <3>1 DEF CallState
  <2> QED  BY <1>2, <2>1, <2>2
<1>4. LifecycleTypeOK'
  BY <1>1, <1>2, <1>3 DEF LifecycleTypeOK
<1>5. BuffersOwned'
  BY <1>1, <1>2 DEF BuffersOwned
<1>6. StepsDone'
  BY <1>1, <1>2, <1>3 DEF StepsDone, InInit
<1>7. FilledSoFar'
  BY <1>2 DEF FilledSoFar
<1> QED  BY <1>4, <1>5, <1>6, <1>7 DEF LifecycleInv

\* Nobody is in a clean-up before the first, so clearing a table comes after it.
LEMMA ClearStep ==
  ASSUME LifecycleInv, NEW th \in Threads, Clear(th), UNCHANGED ctors
  PROVE  LifecycleInv'
<1>1. LifecycleTypeOK /\ BuffersOwned /\ StepsDone /\ FilledSoFar
  BY DEF LifecycleInv
<1>2. /\ UNCHANGED <<ctors, libinit, caps, numeric, io, buffers, constructed, ready, cleaned>>
      /\ InClean(th) /\ call[th].at < 5 /\ Advance(th)
      /\ table' = [table EXCEPT ![ClearOrder[call[th].at]] = "null"]
  BY DEF Clear, ClearOrder
<1>3. /\ call' \in [Threads -> CallState] /\ ~InInit(th)'
      /\ \A s \in Threads : s # th => call'[s] = call[s]
  <2>1. ~InInit(th)
    BY <1>2 DEF InInit, InClean
  <2> QED  BY <1>1, <1>2, <2>1, AdvanceFacts
<1>4. LifecycleTypeOK'
  <2>1. table' \in [Tables -> {"null", "portable", "probed"}]
    BY <1>1, <1>2 DEF LifecycleTypeOK
  <2> QED  BY <1>1, <1>2, <1>3, <2>1 DEF LifecycleTypeOK
<1>5. BuffersOwned'
  BY <1>1, <1>2 DEF BuffersOwned
<1>6. StepsDone'
  BY <1>1, <1>2, <1>3 DEF StepsDone, InInit
<1>7. FilledSoFar'
  BY <1>1, <1>2 DEF FilledSoFar
<1> QED  BY <1>4, <1>5, <1>6, <1>7 DEF LifecycleInv

\* The buffers freed are those of the two arenas the thread has.
LEMMA CleanDynamolStep ==
  ASSUME LifecycleInv, NEW th \in Threads, CleanDynamol(th), UNCHANGED ctors
  PROVE  LifecycleInv'
<1>1. LifecycleTypeOK /\ BuffersOwned /\ StepsDone /\ FilledSoFar
  BY DEF LifecycleInv
<1>2. /\ UNCHANGED <<ctors, libinit, caps, table, ready, cleaned>>
      /\ InClean(th) /\ Returns(th, call[th].unit)
      /\ buffers' = buffers - Held(numeric, th) - Held(io, th)
      /\ numeric' = [numeric EXCEPT ![th] = NoArena] /\ io' = [io EXCEPT ![th] = NoArena]
  BY DEF CleanDynamol
<1>3. /\ call' \in [Threads -> CallState] /\ constructed' \subseteq Units /\ ~InInit(th)'
      /\ \A s \in Threads : s # th => call'[s] = call[s]
  <2>1. call[th].unit \in Units
    BY <1>1, <1>2, CallFacts, Zenon
  <2> QED  BY <1>1, <1>2, <2>1, ReturnsFacts
<1>4. NoArena \in ArenaState /\ ~NoArena.live
  BY DEF NoArena, ArenaState
<1>5. /\ numeric' \in [Threads -> ArenaState] /\ io' \in [Threads -> ArenaState]
      /\ \A s \in Threads : s # th => numeric'[s] = numeric[s] /\ io'[s] = io[s]
  BY <1>1, <1>2, <1>4 DEF LifecycleTypeOK
<1>6. /\ buffers' = Cardinality(Live(numeric')) + Cardinality(Live(io'))
      /\ Cardinality(Live(numeric')) \in Nat /\ Cardinality(Live(io')) \in Nat
  <2>1. ASSUME NEW a \in [Threads -> ArenaState]
        PROVE  /\ Cardinality(Live(a)) \in Nat
               /\ Cardinality(Live([a EXCEPT ![th] = NoArena])) = Cardinality(Live(a)) - Held(a, th)
               /\ Held(a, th) \in Nat
    <3>1. /\ Cardinality(Live(a)) \in Nat
          /\ [a EXCEPT ![th] = NoArena] \in [Threads -> ArenaState]
          /\ Cardinality(Live([a EXCEPT ![th] = NoArena])) =
               Cardinality(Live(a)) - Held(a, th) + (IF NoArena.live THEN 1 ELSE 0)
      BY <1>4, LiveAfter, Zenon
    <3>2. Held(a, th) \in Nat
      BY DEF Held
    <3> QED  BY <1>4, <3>1, <3>2
  <2>2. buffers = Cardinality(Live(numeric)) + Cardinality(Live(io))
    BY <1>1 DEF BuffersOwned, Live
  <2>3. numeric \in [Threads -> ArenaState] /\ io \in [Threads -> ArenaState]
    BY <1>1 DEF LifecycleTypeOK
  <2>4. /\ Cardinality(Live(numeric')) = Cardinality(Live(numeric)) - Held(numeric, th)
        /\ Cardinality(Live(io')) = Cardinality(Live(io)) - Held(io, th)
    BY <1>2, <2>1, <2>3
  <2>5. /\ Cardinality(Live(numeric)) \in Nat /\ Cardinality(Live(io)) \in Nat
        /\ Held(numeric, th) \in Nat /\ Held(io, th) \in Nat
    BY <2>1, <2>3
  <2>6. Cardinality(Live(numeric')) \in Nat /\ Cardinality(Live(io')) \in Nat
    BY <1>5, <2>1
  <2> QED  BY <1>2, <2>2, <2>4, <2>5, <2>6
<1>7. BuffersOwned' /\ buffers' \in Nat
  BY <1>6 DEF BuffersOwned, Live
<1>8. LifecycleTypeOK'
  BY <1>1, <1>2, <1>3, <1>5, <1>7 DEF LifecycleTypeOK
<1>9. StepsDone'
  BY <1>1, <1>2, <1>3, <1>5 DEF StepsDone, InInit
<1>10. FilledSoFar'
  BY <1>1, <1>2 DEF FilledSoFar
<1> QED  BY <1>7, <1>8, <1>9, <1>10 DEF LifecycleInv

-----------------------------------------------------------------------------
(* LibLifecycle: the theorems. *)

\* Every reachable state of the library satisfies the inductive invariant.
THEOREM LifecycleInvariant == LifecycleSpec => []LifecycleInv
<1>1. LifecycleInit => LifecycleInv
  <2> SUFFICES ASSUME LifecycleInit PROVE LifecycleInv
    OBVIOUS
  <2>1. LifecycleTypeOK
    BY LifecycleAssumption DEF LifecycleInit, LifecycleTypeOK, ArenaState, CallState, NoArena
  <2>2. BuffersOwned
    <3>1. Live(numeric) = {} /\ Live(io) = {}
      BY DEF LifecycleInit, Live, NoArena
    <3> QED  BY <3>1, FS_EmptySet DEF LifecycleInit, BuffersOwned, Live
  <2>3. StepsDone /\ FilledSoFar
    BY DEF LifecycleInit, StepsDone, FilledSoFar, InInit, InClean, Idle
  <2> QED  BY <2>1, <2>2, <2>3 DEF LifecycleInv
<1>2. LifecycleInv /\ [LifecycleNext]_lifecycle => LifecycleInv'
  <2> SUFFICES ASSUME LifecycleInv, [LifecycleNext]_lifecycle PROVE LifecycleInv'
    OBVIOUS
  <2>1. CASE UNCHANGED lifecycle
    BY <2>1 DEF lifecycle, LifecycleInv, LifecycleTypeOK, BuffersOwned, StepsDone, FilledSoFar,
       InInit, InClean, Dispatched
  <2>2. CASE LifecycleNext
    <3>1. PICK th \in Threads :
            \/ Step(th)
            \/ \E u \in Units : InitAgain(th, u) \/ InitBegins(th, u) \/ CleanupBegins(th, u)
            \/ UseThreadArena(th) \/ GrowFails(th)
      BY <2>2 DEF LifecycleNext
    <3>2. UNCHANGED ctors
      BY <2>2 DEF LifecycleNext
    <3>3. CASE Step(th)
      BY <3>2, <3>3, DetectStep, FillStep, InitNumericStep, InitIOStep, InitReturnsStep,
         ClearStep, CleanDynamolStep DEF Step
    <3>4. ASSUME NEW u \in Units, InitAgain(th, u) \/ InitBegins(th, u) \/ CleanupBegins(th, u)
          PROVE  LifecycleInv'
      BY <3>2, <3>4, InitAgainStep, InitBeginsStep, CleanupBeginsStep
    <3>5. CASE UseThreadArena(th) \/ GrowFails(th)
      BY <3>2, <3>5, UseThreadArenaStep, GrowFailsStep
    <3> QED  BY <3>1, <3>3, <3>4, <3>5
  <2> QED  BY <2>1, <2>2
<1> QED  BY <1>1, <1>2, PTL DEF LifecycleSpec

\* Flags, tables, arenas, calls and the buffer count keep their types.
THEOREM LifecycleTypeCorrect == LifecycleSpec => []LifecycleTypeOK
<1>1. LifecycleInv => LifecycleTypeOK
  BY DEF LifecycleInv
<1> QED  BY <1>1, LifecycleInvariant, PTL

\* Until the first clean-up, DNML_LIB_INISUCCESS means that every table holds the
\* functions the detected hardware calls for, however many units and threads
\* initialise at once.
THEOREM SuccessFillsTables == LifecycleSpec => []ReadyMeansDispatched
<1>1. LifecycleInv => ReadyMeansDispatched
  BY DEF LifecycleInv, FilledSoFar, ReadyMeansDispatched
<1> QED  BY <1>1, LifecycleInvariant, PTL

\* An init that is about to set its flag has both arenas of its thread, whatever
\* ran out of memory before.
THEOREM SuccessIsAllOrNothing == LifecycleSpec => []SuccessHasArenas
<1>1. LifecycleInv => SuccessHasArenas
  BY FillOrderFacts DEF LifecycleInv, StepsDone, SuccessHasArenas
<1> QED  BY <1>1, LifecycleInvariant, PTL

\* The buffers allocated and not freed are those of the live arenas: none is lost
\* and none freed twice, for every number of threads.
THEOREM EveryBufferOwned == LifecycleSpec => []BuffersOwned
<1>1. LifecycleInv => BuffersOwned
  BY DEF LifecycleInv
<1> QED  BY <1>1, LifecycleInvariant, PTL

-----------------------------------------------------------------------------
(* Induction and recursion up to a number *)

Below == {z \in Nat \X Nat : z[1] < z[2]}

\* A set of natural numbers that has one has a least one.
LEMMA LeastNumber ==
  ASSUME NEW S, S \subseteq Nat, S # {}
  PROVE  \E m \in S : \A k \in S : m <= k
<1>1. IsWellFoundedOn(Below, Nat)
  BY NatLessThanWellFounded DEF OpToRel, Below
<1>2. PICK m \in S : \A k \in S : ~ (<<k, m>> \in Below)
  BY <1>1, WFMin
<1>3. \A k, l \in Nat : <<k, l>> \in Below <=> k < l
  BY DEF Below
<1>4. \A k \in S : ~ (k < m) /\ k \in Nat /\ m \in Nat
  BY <1>2, <1>3
<1> QED  BY <1>4

LEMMA SetInduction ==
  ASSUME NEW n \in Nat, NEW Q, 0 \in Q, \A i \in 1 .. n : i - 1 \in Q => i \in Q
  PROVE  \A i \in 0 .. n : i \in Q
<1> DEFINE S == {i \in 0 .. n : i \notin Q}
<1>1. SUFFICES ASSUME S # {} PROVE FALSE
  OBVIOUS
<1>2. S \subseteq Nat
  OBVIOUS
<1>3. PICK m \in S : \A k \in S : m <= k
  BY <1>1, <1>2, LeastNumber
<1>4. m \in 1 .. n /\ m - 1 \in 0 .. n /\ ~ (m <= m - 1)
  BY <1>3
<1>5. m - 1 \notin S
  BY <1>3, <1>4
<1> QED  BY <1>3, <1>4, <1>5

\* A step function that makes values in S of values in S, and what it runs through
\* from a on.
Fits(n, S, step)  == \A i \in 1 .. n : \A s \in S : step[i][s] \in S
Run(n, a, step, f) == f[0] = a /\ \A i \in 1 .. n : f[i] = step[i][f[i - 1]]
Follows(n, S, step, f) == \A i \in 1 .. n : f[i - 1] \in S => f[i] = step[i][f[i - 1]]
Runs(n, S, a, step) == \E f \in [0 .. n -> S] : Run(n, a, step, f)

LEMMA Recursion ==
  ASSUME NEW n \in Nat, NEW S, NEW a \in S, NEW step, Fits(n, S, step)
  PROVE  Runs(n, S, a, step)
<1> DEFINE Up(m, f) == f \in [0 .. m -> S] /\ Run(m, a, step, f)
           Q == {m \in 0 .. n : \E f : Up(m, f)}
<1>1. 0 \in Q
  <2>1. Up(0, [i \in 0 .. 0 |-> a])
    BY DEF Run
  <2> HIDE DEF Up
  <2>2. \E f : Up(0, f)
    BY <2>1
  <2> QED  BY <2>2
<1>2. ASSUME NEW m \in 1 .. n, m - 1 \in Q PROVE m \in Q
  <2>1. PICK f : Up(m - 1, f)
    BY <1>2
  <2> DEFINE h == [i \in 0 .. m |-> IF i = m THEN step[m][f[m - 1]] ELSE f[i]]
  <2>2. f[m - 1] \in S /\ step[m][f[m - 1]] \in S
    BY <2>1 DEF Fits
  <2>3. h \in [0 .. m -> S]
    BY <2>1, <2>2
  <2>4. h[0] = a
    BY <2>1 DEF Run
  <2>5. ASSUME NEW i \in 1 .. m PROVE h[i] = step[i][h[i - 1]]
    <3>1. i - 1 \in 0 .. m /\ i - 1 # m /\ h[i - 1] = f[i - 1]
      OBVIOUS
    <3>2. CASE i = m
      BY <3>1, <3>2
    <3>3. CASE i # m
      <4>1. i \in 1 .. m - 1 /\ h[i] = f[i]
        BY <3>3
      <4> QED  BY <2>1, <3>1, <4>1 DEF Run
    <3> QED  BY <3>2, <3>3
  <2>6. Up(m, h)
    BY <2>3, <2>4, <2>5 DEF Run
  <2> HIDE DEF Up, h
  <2>7. \E e : Up(m, e)
    BY <2>6
  <2> QED  BY <2>7
<1> HIDE DEF Q
<1>3. n \in Q
  <2>1. \A m \in 0 .. n : m \in Q
    BY <1>1, <1>2, SetInduction
  <2> QED  BY <2>1
<1>4. PICK f : Up(n, f)
  BY <1>3 DEF Q
<1> QED  BY <1>4 DEF Runs

LEMMA RunTyped ==
  ASSUME NEW n \in Nat, NEW S, NEW step, Fits(n, S, step), NEW f, f[0] \in S, Follows(n, S, step, f)
  PROVE  \A i \in 0 .. n : f[i] \in S
<1> DEFINE Q == {i \in 0 .. n : f[i] \in S}
<1>1. 0 \in Q
  OBVIOUS
<1>2. \A i \in 1 .. n : i - 1 \in Q => i \in Q
  BY DEF Fits, Follows
<1> HIDE DEF Q
<1>3. \A i \in 0 .. n : i \in Q
  BY <1>1, <1>2, SetInduction
<1> QED  BY <1>3 DEF Q

-----------------------------------------------------------------------------
(* The weights of limbs *)

LEMMA PowersOf ==
  ASSUME NEW k \in Nat
  PROVE  /\ Powers(k)[0] = 1 /\ \A i \in 0 .. k : Powers(k)[i] \in Nat
         /\ \A i \in 1 .. k : Powers(k)[i] = B * Powers(k)[i - 1]
<1> DEFINE Unrolled(r) == [i \in 0 .. k |-> IF i = 0 THEN 1 ELSE B * r[i - 1]]
           c == CHOOSE r : r = Unrolled(r)
           g == [i \in 1 .. k |-> [s \in Nat |-> B * s]]
<1>n. 1 \in Nat
  OBVIOUS
<1>0. ASSUME NEW i \in 1 .. k, NEW s \in Nat PROVE B * s \in Nat
  BY TempsAssumption
<1>1. Fits(k, Nat, g) /\ \A i \in 1 .. k : \A s \in Nat : g[i][s] = B * s
  BY <1>0 DEF Fits
<1> HIDE DEF g
<1>2. PICK f \in [0 .. k -> Nat] : Run(k, 1, g, f)
  BY <1>n, <1>1, Recursion DEF Runs
<1>3. \A i \in 1 .. k : f[i - 1] \in Nat
  BY <1>n
<1>4. f[0] = 1 /\ \A i \in 1 .. k : f[i] = B * f[i - 1]
  BY <1>1, <1>2, <1>3 DEF Run
<1>5. f = Unrolled(f)
  BY <1>4
<1>6. c = Unrolled(c)
  BY <1>5
<1>7. Powers(k) = c
  BY DEF Powers
<1> HIDE DEF c
<1> DEFINE e == Unrolled(c)
<1>8. e[0] = 1 /\ \A i \in 1 .. k : e[i] = B * c[i - 1]
  <2>1. \A i \in 0 .. k : e[i] = IF i = 0 THEN 1 ELSE B * c[i - 1]
    OBVIOUS
  <2> HIDE DEF e
  <2> QED  BY <1>n, <2>1
<1> HIDE DEF e
<1>9. c[0] = 1 /\ \A i \in 1 .. k : c[i] = B * c[i - 1]
  BY <1>6, <1>8 DEF e
<1>10. \A i \in 0 .. k : c[i] \in Nat
  <2>1. c[0] \in Nat /\ Follows(k, Nat, g, c)
    BY <1>n, <1>1, <1>9 DEF Follows
  <2> QED  BY <1>n, <1>1, <2>1, RunTyped
<1> QED  BY <1>7, <1>9, <1>10

\* A power, by one factor more.
LEMMA WeightOf ==
  /\ Weight(0) = 1
  /\ \A k \in Nat : Weight(k) \in Nat /\ Weight(k + 1) = B * Weight(k)
<1>1. Weight(0) = 1
  <2> DEFINE r == Powers(0)
  <2>1. 0 \in Nat
    OBVIOUS
  <2>2. r[0] = 1 /\ (\A i \in 0 .. 0 : r[i] \in Nat) /\ \A i \in 1 .. 0 : r[i] = B * r[i - 1]
    BY <2>1, PowersOf
  <2> HIDE DEF r
  <2>3. r[0] = 1
    BY <2>2
  <2> QED  BY <2>3 DEF Weight, r
<1>2. ASSUME NEW k \in Nat PROVE Weight(k) \in Nat /\ Weight(k + 1) = B * Weight(k)
  <2> DEFINE r == Powers(k)
             s == Powers(k + 1)
             Q == {i \in 0 .. k : r[i] = s[i]}
  <2>1. r[0] = 1 /\ (\A i \in 0 .. k : r[i] \in Nat) /\ \A i \in 1 .. k : r[i] = B * r[i - 1]
    BY PowersOf
  <2>2. s[0] = 1 /\ \A i \in 1 .. k + 1 : s[i] = B * s[i - 1]
    <3>1. k + 1 \in Nat
      OBVIOUS
    <3> QED  BY <3>1, PowersOf
  <2>3. Weight(k) = r[k] /\ Weight(k + 1) = s[k + 1]
    BY DEF Weight
  <2> HIDE DEF r, s
  <2>4. 0 \in Q
    BY <2>1, <2>2
  <2>5. \A i \in 1 .. k : i - 1 \in Q => i \in Q
    <3>1. ASSUME NEW i \in 1 .. k, i - 1 \in Q PROVE i \in Q
      <4>1. r[i - 1] = s[i - 1] /\ i \in 0 .. k /\ i \in 1 .. k + 1
        BY <3>1
      <4>2. r[i] = B * r[i - 1] /\ s[i] = B * s[i - 1]
        BY <2>1, <2>2, <4>1
      <4> QED  BY <4>1, <4>2
    <3> QED  BY <3>1
  <2> HIDE DEF Q
  <2>6. k \in Q
    <3>1. \A i \in 0 .. k : i \in Q
      BY <2>4, <2>5, SetInduction
    <3> QED  BY <3>1
  <2>7. s[k + 1] = B * s[k]
    <3>1. k + 1 \in 1 .. k + 1 /\ (k + 1) - 1 = k
      OBVIOUS
    <3> QED  BY <2>2, <3>1
  <2>8. r[k] = s[k] /\ r[k] \in Nat
    BY <2>1, <2>6 DEF Q
  <2> QED  BY <2>3, <2>7, <2>8
<1> QED  BY <1>1, <1>2

LEMMA Radix == B \in Nat /\ B >= 4
BY TempsAssumption

LEMMA NatProducts == \A a, b \in Nat : a * b \in Nat
OBVIOUS

\* A product grows with its factors.
LEMMA Products ==
  ASSUME NEW a \in Nat, NEW b \in Nat, NEW c \in Nat, a <= b
  PROVE  c * a <= c * b
<1>1. PICK j \in Nat : b = a + j
  <2>1. b - a \in Nat /\ b = a + (b - a)
    OBVIOUS
  <2> QED  BY <2>1
<1>2. c * b = c * a + c * j /\ c * j \in Nat /\ c * a \in Nat
  BY <1>1
<1> QED  BY <1>2

LEMMA WeightStep ==
  ASSUME NEW k \in Nat
  PROVE  /\ Weight(k) \in Nat /\ k + 1 \in Nat /\ Weight(k + 1) \in Nat
         /\ Weight(k + 1) = B * Weight(k) /\ Weight(k + 1) >= 4 * Weight(k)
<1>1. Weight(k) \in Nat /\ Weight(k + 1) = B * Weight(k) /\ k + 1 \in Nat
  BY WeightOf
<1>2. Weight(k) * 4 <= Weight(k) * B
  BY <1>1, Radix, Products
<1>3. B * Weight(k) \in Nat
  BY <1>1, Radix, NatProducts
<1> DEFINE w == Weight(k)
<1>4. w \in Nat /\ Weight(k + 1) = B * w /\ w * 4 <= w * B /\ B * w \in Nat
  BY <1>1, <1>2, <1>3
<1> HIDE DEF w
<1>5. B * w = w * B
  BY <1>4, Radix
<1>6. Weight(k + 1) >= 4 * w
  BY <1>4, <1>5
<1> QED  BY <1>1, <1>3, <1>6 DEF w

\* A weight exceeds its exponent.
LEMMA WeightGrows ==
  ASSUME NEW k \in Nat
  PROVE  Weight(k) \in Nat /\ Weight(k) >= 1 /\ Weight(k) > k
<1> DEFINE Q == {i \in 0 .. k : Weight(i) >= i + 1}
<1>1. 0 \in Q
  BY WeightOf
<1>2. ASSUME NEW i \in 1 .. k, i - 1 \in Q PROVE i \in Q
  <2>1. i - 1 \in Nat /\ (i - 1) + 1 = i
    OBVIOUS
  <2>2. Weight(i - 1) \in Nat /\ Weight(i) \in Nat /\ Weight(i) >= 4 * Weight(i - 1)
    BY <2>1, WeightStep
  <2> QED  BY <1>2, <2>2
<1> HIDE DEF Q
<1>3. \A i \in 0 .. k : i \in Q
  BY <1>1, <1>2, SetInduction
<1>4. Weight(k) >= k + 1 /\ Weight(k) \in Nat
  BY <1>3, WeightOf DEF Q
<1> QED  BY <1>4

\* The weight of a sum is the product of the weights.
LEMMA WeightAdd ==
  ASSUME NEW a \in Nat, NEW b \in Nat
  PROVE  Weight(a + b) = Weight(a) * Weight(b)
<1> DEFINE Q == {i \in 0 .. b : Weight(a + i) = Weight(a) * Weight(i)}
<1>0. Weight(a) \in Nat /\ Weight(0) = 1
  BY WeightOf
<1>1. 0 \in Q
  BY <1>0
<1>2. ASSUME NEW i \in 1 .. b, i - 1 \in Q PROVE i \in Q
  <2>1. i - 1 \in Nat /\ (i - 1) + 1 = i /\ a + (i - 1) \in Nat /\ (a + (i - 1)) + 1 = a + i
    OBVIOUS
  <2>2. /\ Weight(i - 1) \in Nat /\ Weight(i) = B * Weight(i - 1)
        /\ Weight(a + i) = B * Weight(a + (i - 1))
    <3>1. Weight(i - 1) \in Nat /\ Weight(i) = B * Weight(i - 1)
      BY <2>1, WeightOf
    <3>2. Weight((a + (i - 1)) + 1) = B * Weight(a + (i - 1))
      BY <2>1, WeightOf
    <3> QED  BY <2>1, <3>1, <3>2
  <2>3. Weight(a + (i - 1)) = Weight(a) * Weight(i - 1)
    BY <1>2
  <2> DEFINE w == Weight(a)  v == Weight(i - 1)
  <2>4. B * (w * v) = w * (B * v)
    <3>1. w \in Nat /\ v \in Nat
      BY <1>0, <2>2
    <3> HIDE DEF w, v
    <3> QED  BY <3>1, Radix
  <2> QED  BY <2>2, <2>3, <2>4
<1> HIDE DEF Q
<1>3. \A i \in 0 .. b : i \in Q
  BY <1>1, <1>2, SetInduction
<1> QED  BY <1>3 DEF Q

LEMMA WeightMonotone ==
  ASSUME NEW a \in Nat, NEW b \in Nat, a <= b
  PROVE  Weight(a) \in Nat /\ Weight(b) \in Nat /\ Weight(a) <= Weight(b)
<1>1. b - a \in Nat /\ a + (b - a) = b
  OBVIOUS
<1>2. Weight(b) = Weight(a) * Weight(b - a)
  BY <1>1, WeightAdd
<1>3. Weight(a) \in Nat /\ Weight(b - a) \in Nat /\ Weight(b - a) >= 1 /\ Weight(b) \in Nat
  BY <1>1, WeightGrows
<1>4. Weight(a) * 1 <= Weight(a) * Weight(b - a)
  BY <1>3, Products
<1> QED  BY <1>2, <1>3, <1>4

\* One limb more is worth four times as much.
LEMMA WeightAbove ==
  ASSUME NEW a \in Nat, NEW b \in Nat, a < b
  PROVE  Weight(a) \in Nat /\ Weight(b) \in Nat /\ 4 * Weight(a) <= Weight(b)
<1>1. a + 1 <= b /\ a + 1 \in Nat
  OBVIOUS
<1>2. Weight(a + 1) <= Weight(b) /\ Weight(b) \in Nat
  BY <1>1, WeightMonotone
<1> QED  BY <1>2, WeightStep

\* Factors that fit their limbs have a product that fits as many together.
LEMMA ProductBelow ==
  ASSUME NEW a \in Nat, NEW b \in Nat, NEW i \in Nat, NEW j \in Nat,
         a < Weight(i), b < Weight(j)
  PROVE  a * b \in Nat /\ a * b < Weight(i + j)
<1> DEFINE v == Weight(i)  w == Weight(j)
<1>1. v \in Nat /\ w \in Nat /\ a + 1 <= v /\ b + 1 <= w /\ v >= 1 /\ w >= 1
  BY WeightGrows
<1>2. Weight(i + j) = v * w
  BY WeightAdd
<1> HIDE DEF v, w
<1>3. a * b <= a * w
  BY <1>1, Products
<1>4. w * (a + 1) <= w * v
  BY <1>1, Products
<1>5. w * (a + 1) = a * w + w /\ w * v = v * w /\ a * b \in Nat /\ a * w \in Nat /\ v * w \in Nat
  BY <1>1
<1> QED  BY <1>1, <1>2, <1>3, <1>4, <1>5

-----------------------------------------------------------------------------
(* The limbs a magnitude needs *)

LEMMA LimbsNeeded ==
  ASSUME NEW mag \in Nat
  PROVE  /\ Limbs(mag) \in Nat /\ mag < Weight(Limbs(mag))
         /\ Limbs(mag) > 0 => mag >= Weight(Limbs(mag) - 1)
<1> DEFINE S == {n \in Nat : mag < Weight(n)}
           Fits1(n) == mag < Weight(n) /\ (n > 0 => mag >= Weight(n - 1))
<1>1. mag \in S
  BY WeightGrows
<1>2. PICK n \in S : \A k \in S : n <= k
  BY <1>1, LeastNumber
<1>3. n \in 0 .. mag
  BY <1>1, <1>2
<1>4. Fits1(n)
  <2>1. ASSUME n > 0 PROVE mag >= Weight(n - 1)
    <3>1. n - 1 \in Nat /\ ~ (n <= n - 1)
      BY <1>2, <2>1
    <3>2. n - 1 \notin S
      BY <1>2, <3>1
    <3> QED  BY <3>1, <3>2, WeightGrows
  <2> QED  BY <1>2, <2>1
<1>5. Limbs(mag) = CHOOSE k \in 0 .. mag : Fits1(k)
  BY DEF Limbs
<1> HIDE DEF Fits1
<1>6. Limbs(mag) \in 0 .. mag /\ Fits1(Limbs(mag))
  BY <1>3, <1>4, <1>5
<1> QED  BY <1>6 DEF Fits1

\* They are the only number of limbs that fits and has no zero on top.
LEMMA LimbsIs ==
  ASSUME NEW mag \in Nat, NEW n \in Nat, mag < Weight(n), n > 0 => mag >= Weight(n - 1)
  PROVE  Limbs(mag) = n
<1> DEFINE l == Limbs(mag)
<1>1. l \in Nat /\ mag < Weight(l) /\ (l > 0 => mag >= Weight(l - 1))
  BY LimbsNeeded
<1> HIDE DEF l
<1>2. ASSUME l < n PROVE FALSE
  <2>1. n - 1 \in Nat /\ l <= n - 1
    BY <1>1, <1>2
  <2>2. Weight(l) <= Weight(n - 1) /\ Weight(l) \in Nat /\ Weight(n - 1) \in Nat
    BY <1>1, <2>1, WeightMonotone
  <2> QED  BY <1>1, <2>1, <2>2
<1>3. ASSUME n < l PROVE FALSE
  <2>1. l - 1 \in Nat /\ n <= l - 1
    BY <1>1, <1>3
  <2>2. Weight(n) <= Weight(l - 1) /\ Weight(n) \in Nat /\ Weight(l - 1) \in Nat
    BY <2>1, WeightMonotone
  <2> QED  BY <1>1, <2>1, <2>2
<1> QED  BY <1>1, <1>2, <1>3 DEF l

LEMMA LimbsZero == Limbs(0) = 0
<1>1. 0 < Weight(0)
  BY WeightOf
<1> QED  BY <1>1, LimbsIs

LEMMA LimbsPositive ==
  ASSUME NEW mag \in Nat
  PROVE  Limbs(mag) \in Nat /\ (Limbs(mag) = 0 <=> mag = 0)
<1>1. ASSUME Limbs(mag) = 0 PROVE mag = 0
  BY <1>1, LimbsNeeded, WeightOf
<1> QED  BY <1>1, LimbsNeeded, LimbsZero

\* A magnitude that fits some limbs needs no more.
LEMMA LimbsWithin ==
  ASSUME NEW mag \in Nat, NEW c \in Nat, mag < Weight(c)
  PROVE  Limbs(mag) \in Nat /\ Limbs(mag) <= c
<1> DEFINE l == Limbs(mag)
<1>1. l \in Nat /\ (l > 0 => mag >= Weight(l - 1))
  BY LimbsNeeded
<1> HIDE DEF l
<1>2. ASSUME c < l PROVE FALSE
  <2>1. l - 1 \in Nat /\ c <= l - 1
    BY <1>1, <1>2
  <2>2. Weight(c) <= Weight(l - 1) /\ Weight(c) \in Nat /\ Weight(l - 1) \in Nat
    BY <2>1, WeightMonotone
  <2> QED  BY <1>1, <2>1, <2>2
<1> QED  BY <1>1, <1>2 DEF l

\* The longer number is the larger one.
LEMMA LimbsOrder ==
  ASSUME NEW a \in Nat, NEW b \in Nat, Limbs(a) > Limbs(b)
  PROVE  a > b
<1>1. ASSUME a <= b PROVE FALSE
  <2>1. Limbs(b) \in Nat /\ b < Weight(Limbs(b)) /\ Weight(Limbs(b)) \in Nat
    BY LimbsNeeded, WeightGrows
  <2>2. a < Weight(Limbs(b))
    BY <1>1, <2>1
  <2>3. Limbs(a) \in Nat /\ Limbs(a) <= Limbs(b)
    BY <2>1, <2>2, LimbsWithin
  <2> QED  BY <2>1, <2>3
<1> QED  BY <1>1

\* A shift by whole limbs.
LEMMA LimbsShift ==
  ASSUME NEW a \in Nat, a > 0, NEW k \in Nat
  PROVE  a * Weight(k) \in Nat /\ a * Weight(k) > 0 /\ Limbs(a * Weight(k)) = Limbs(a) + k
<1> DEFINE l == Limbs(a)  w == Weight(k)  hi == Weight(l)  lo == Weight(l - 1)
<1>1. l \in Nat /\ a < hi /\ l > 0 /\ a >= lo
  BY LimbsNeeded, LimbsPositive
<1>2. l - 1 \in Nat /\ hi \in Nat /\ lo \in Nat /\ w \in Nat /\ w >= 1
  BY <1>1, WeightGrows
<1>3. Weight(l + k) = hi * w /\ Weight((l - 1) + k) = lo * w
  BY <1>1, <1>2, WeightAdd
<1> HIDE DEF l, w, hi, lo
<1>4. w * (a + 1) <= w * hi /\ w * lo <= w * a /\ w * 1 <= w * a
  BY <1>1, <1>2, Products
<1>5. w * (a + 1) = a * w + w /\ w * hi = hi * w /\ w * lo = lo * w /\ w * a = a * w /\ a * w \in Nat
      /\ hi * w \in Nat /\ lo * w \in Nat
  BY <1>2
<1>6. a * w < Weight(l + k) /\ a * w >= Weight((l + k) - 1) /\ a * w > 0
  <2>1. (l + k) - 1 = (l - 1) + k
    BY <1>1
  <2> QED  BY <1>2, <1>3, <1>4, <1>5, <2>1
<1>7. Limbs(a * w) = l + k
  BY <1>1, <1>5, <1>6, LimbsIs
<1> QED  BY <1>5, <1>6, <1>7 DEF l, w

\* A sum needs a limb more than the longer summand when there is a carry.
LEMMA LimbsSum ==
  ASSUME NEW a \in Nat, NEW b \in Nat, a > 0 \/ b > 0
  PROVE  Limbs(a + b) = SumLimbs(Limbs(a), Limbs(b), a + b)
<1> DEFINE len == Larger(Limbs(a), Limbs(b))
<1>1. /\ Limbs(a) \in Nat /\ Limbs(b) \in Nat
      /\ a < Weight(Limbs(a)) /\ b < Weight(Limbs(b))
      /\ Limbs(a) > 0 => a >= Weight(Limbs(a) - 1)
      /\ Limbs(b) > 0 => b >= Weight(Limbs(b) - 1)
  BY LimbsNeeded
<1>2. len \in Nat /\ Limbs(a) <= len /\ Limbs(b) <= len /\ len \in {Limbs(a), Limbs(b)} /\ len > 0
  BY <1>1, LimbsPositive DEF Larger
<1> HIDE DEF len
<1>3. Weight(len) \in Nat /\ Weight(len) >= Weight(Limbs(a)) /\ Weight(len) >= Weight(Limbs(b))
      /\ Weight(Limbs(a)) \in Nat /\ Weight(Limbs(b)) \in Nat /\ Weight(len - 1) \in Nat
  <2>1. len - 1 \in Nat
    BY <1>2
  <2> QED  BY <1>1, <1>2, <2>1, WeightMonotone, WeightGrows
<1>4. a + b >= Weight(len - 1)
  BY <1>1, <1>2, <1>3
<1>5. Weight(len + 1) \in Nat /\ Weight(len + 1) >= 4 * Weight(len)
  BY <1>2, WeightStep
<1>6. a + b < Weight(len + 1)
  BY <1>1, <1>3, <1>5
<1>7. CASE a + b >= Weight(len)
  <2>1. (len + 1) - 1 = len /\ len + 1 \in Nat
    BY <1>2
  <2>2. Limbs(a + b) = len + 1
    BY <1>6, <1>7, <2>1, LimbsIs
  <2> QED  BY <1>7, <2>2 DEF len, SumLimbs
<1>8. CASE ~ (a + b >= Weight(len))
  <2>1. a + b < Weight(len)
    BY <1>3, <1>8
  <2>2. Limbs(a + b) = len
    BY <1>2, <1>4, <2>1, LimbsIs
  <2>3. SumLimbs(Limbs(a), Limbs(b), a + b) = len + 0
    BY <1>8 DEF len, SumLimbs
  <2> QED  BY <1>2, <2>2, <2>3
<1> QED  BY <1>7, <1>8
-----------------------------------------------------------------------------
(* Headers *)

Abs(v) == IF v < 0 THEN -v ELSE v

\* A header without leading zeros that stands for v.
Holds(u, v) == u \in Header /\ Dense(u) /\ Val(u) = v

LEMMA HeaderOf ==
  ASSUME NEW u \in Header
  PROVE  /\ u.mag \in Nat /\ u.n \in Nat /\ u.sign \in {1, -1} /\ u.hi \in Nat
         /\ Val(u) \in Int /\ u.mag = Abs(Val(u))
         /\ u.sign = 1 => Val(u) = u.mag
         /\ u.sign = -1 => Val(u) = -u.mag
<1>1. u.mag \in Nat /\ u.n \in Nat /\ u.sign \in {1, -1} /\ u.hi \in Nat
  BY DEF Header
<1>2. u.sign = 1 => Val(u) = u.mag
  BY <1>1 DEF Val
<1>3. u.sign = -1 => Val(u) = -u.mag
  BY <1>1 DEF Val
<1> QED  BY <1>1, <1>2, <1>3 DEF Abs

\* The header w has these fields.
Fields(w, mag, n, sign, hi) ==
  w \in Header /\ w.mag = mag /\ w.n = n /\ w.sign = sign /\ w.hi = hi

LEMMA LargerOf ==
  ASSUME NEW a \in Nat, NEW b \in Nat
  PROVE  Larger(a, b) \in {a, b} /\ Larger(a, b) >= a /\ Larger(a, b) >= b /\ Larger(a, b) \in Nat
BY DEF Larger

LEMMA ZsetOf ==
  ASSUME NEW u \in Header
  PROVE  Fields(Zset(u), 0, 0, 1, u.hi)
BY DEF Zset, Fields, Header

LEMMA WrittenOf ==
  ASSUME NEW u \in Header, NEW mag \in Nat, NEW n \in Nat, NEW extent \in Nat
  PROVE  Fields(Written(u, mag, n, extent), mag, n, u.sign, Larger(u.hi, extent))
BY DEF Written, Fields, Header, Larger

LEMMA SignedOf ==
  ASSUME NEW u \in Header, NEW sign \in {1, -1}
  PROVE  Fields(Signed(u, sign), u.mag, u.n, sign, u.hi)
BY DEF Signed, Fields, Header

LEMMA CopiedOf ==
  ASSUME NEW u \in Header, NEW v \in Header, v.n = 0 => v.mag = 0
  PROVE  LET w == Copied(u, v)
         IN  /\ w \in Header /\ w.mag = v.mag /\ w.n = v.n /\ Val(w) = Val(v)
             /\ w.sign \in {1, v.sign} /\ w.hi \in {u.hi, Larger(u.hi, v.n)}
<1>1. u.hi \in Nat /\ v.n \in Nat /\ v.mag \in Nat /\ v.sign \in {1, -1} /\ Val(v) \in Int
  BY HeaderOf
<1>2. CASE v.n = 0
  <2>1. Copied(u, v) = Zset(u)
    BY <1>2 DEF Copied
  <2>2. Fields(Copied(u, v), 0, 0, 1, u.hi)
    BY <2>1, ZsetOf
  <2>3. v.mag = 0 /\ Val(v) = 0
    BY <1>1, <1>2, HeaderOf
  <2> QED  BY <1>1, <1>2, <2>2, <2>3 DEF Fields, Val
<1>3. CASE v.n # 0
  <2>1. Copied(u, v) = Signed(Written(u, v.mag, v.n, v.n), v.sign)
    BY <1>3 DEF Copied
  <2>2. Fields(Written(u, v.mag, v.n, v.n), v.mag, v.n, u.sign, Larger(u.hi, v.n))
    BY <1>1, WrittenOf
  <2>3. Fields(Copied(u, v), v.mag, v.n, v.sign, Larger(u.hi, v.n))
    BY <1>1, <2>1, <2>2, SignedOf DEF Fields
  <2> QED  BY <1>1, <2>3 DEF Fields, Val
<1> QED  BY <1>2, <1>3

\* w is the header u with the magnitude mag trimmed.
Trims(w, u, mag, extent) ==
  /\ w \in Header /\ w.mag = mag /\ Dense(w) /\ w.hi = Larger(u.hi, extent)
  /\ w.sign = (IF mag = 0 THEN 1 ELSE u.sign)

LEMMA TrimmedOf ==
  ASSUME NEW u \in Header, NEW mag \in Nat, NEW extent \in Nat
  PROVE  Trims(Trimmed(u, mag, extent), u, mag, extent)
<1>1. Limbs(mag) \in Nat
  BY LimbsPositive
<1> DEFINE v == Written(u, mag, Limbs(mag), extent)
<1>2. Fields(v, mag, Limbs(mag), u.sign, Larger(u.hi, extent))
  BY <1>1, WrittenOf
<1>4. Trimmed(u, mag, extent) = IF mag = 0 THEN Zset(v) ELSE v
  BY DEF Trimmed
<1> HIDE DEF v
<1>5. CASE mag = 0
  <2>1. Fields(Trimmed(u, mag, extent), 0, 0, 1, Larger(u.hi, extent))
    BY <1>2, <1>4, <1>5, ZsetOf DEF Fields
  <2> QED  BY <1>5, <2>1, LimbsZero DEF Dense, Fields, Trims
<1>6. CASE mag # 0
  BY <1>2, <1>4, <1>6 DEF Dense, Fields, Trims
<1> QED  BY <1>5, <1>6

-----------------------------------------------------------------------------
(* The kernels *)

Numbers == [Names -> Header]

\* Only r changes.
Changes(s, r, s1) == s1 \in Numbers /\ \A z \in Names : z # r => s1[z] = s[z]

LEMMA ChangesOf ==
  ASSUME NEW s \in Numbers, NEW r \in Names, NEW w \in Header
  PROVE  Changes(s, r, [s EXCEPT ![r] = w]) /\ [s EXCEPT ![r] = w][r] = w
BY DEF Changes, Numbers

LEMMA NumbersOf ==
  ASSUME NEW s \in Numbers, NEW x \in Names
  PROVE  s[x] \in Header
BY DEF Numbers

LEMMA ResultOf ==
  ASSUME NEW s \in Numbers, NEW r \in Names, NEW a \in Names, NEW b \in Names
  PROVE  LET u == Result(s, r, a, b)
         IN  u \in Header /\ u.hi = s[r].hi /\ u.sign \in {1, s[r].sign}
             /\ (r \in {a, b} => u = s[r]) /\ (r \notin {a, b} => u.sign = 1)
<1>1. s[r] \in Header
  BY NumbersOf
<1>2. Fields(Zset(s[r]), 0, 0, 1, s[r].hi)
  BY <1>1, ZsetOf
<1> QED  BY <1>1, <1>2 DEF Result, Fields

\* The magnitude fits the limbs of the length.
Whole(u) == u.mag < Weight(u.n)

LEMMA DenseWhole ==
  ASSUME NEW u \in Header, Dense(u)
  PROVE  Whole(u)
BY HeaderOf, LimbsNeeded DEF Dense, Whole

LEMMA WholeZero ==
  ASSUME NEW u \in Header, Whole(u), u.n = 0
  PROVE  u.mag = 0
<1>1. Weight(0) = 1
  BY WeightOf
<1> QED  BY <1>1, HeaderOf DEF Whole

LEMMA AddWCOf ==
  ASSUME NEW s \in Numbers, NEW r \in Names, NEW a \in Names, NEW b \in Names,
         Whole(s[a]), Whole(s[b])
  PROVE  LET s1 == AddWC(s, r, a, b)
         IN  /\ Changes(s, r, s1)
             /\ s1[r].mag = s[a].mag + s[b].mag
             /\ s1[r].n <= Larger(s[a].n, s[b].n) + 1
             /\ s1[r].hi \in {s[r].hi, Larger(s[r].hi, s1[r].n)}
             /\ Whole(s1[r])
             /\ Dense(s[a]) /\ Dense(s[b]) => Dense(s1[r])
             /\ s[a].sign = 1 /\ s[b].sign = 1 => s1[r].sign = 1
<1> DEFINE len == Larger(s[a].n, s[b].n)
           sum == s[a].mag + s[b].mag
           n == SumLimbs(s[a].n, s[b].n, sum)
           u == Result(s, r, a, b)
           w == IF s[b].n = 0 THEN Copied(u, s[a])
                ELSE IF s[a].n = 0 THEN Copied(u, s[b])
                ELSE Written(u, sum, n, n)
           s1 == AddWC(s, r, a, b)
<1>1. s1 = [s EXCEPT ![r] = w]
  BY DEF AddWC, Summed
<1>2. /\ s[a] \in Header /\ s[b] \in Header /\ u \in Header /\ u.hi = s[r].hi
      /\ (r \in {a, b} => u = s[r]) /\ (r \notin {a, b} => u.sign = 1)
  BY NumbersOf, ResultOf
<1>3. /\ s[a].mag \in Nat /\ s[b].mag \in Nat /\ s[a].n \in Nat /\ s[b].n \in Nat /\ u.hi \in Nat
      /\ s[a].sign \in {1, -1} /\ s[b].sign \in {1, -1} /\ u.sign \in {1, -1}
  BY <1>2, HeaderOf
<1>4. s[a].mag < Weight(s[a].n) /\ s[b].mag < Weight(s[b].n)
  BY DEF Whole
<1>5. len \in Nat /\ s[a].n <= len /\ s[b].n <= len /\ sum \in Nat
  BY <1>3 DEF Larger
<1>6. /\ Weight(s[a].n) <= Weight(len) /\ Weight(s[b].n) <= Weight(len) /\ Weight(len) \in Nat
      /\ Weight(s[a].n) \in Nat /\ Weight(s[b].n) \in Nat
  BY <1>3, <1>5, WeightMonotone
<1>7. n \in Nat /\ n <= len + 1 /\ sum < Weight(n)
  <2>1. Weight(len + 1) \in Nat /\ Weight(len + 1) >= 4 * Weight(len)
    BY <1>5, WeightStep
  <2>2. CASE sum >= Weight(len)
    <3>1. n = len + 1
      BY <2>2 DEF SumLimbs
    <3> HIDE DEF n, sum, len
    <3>2. sum < 2 * Weight(len)
      BY <1>3, <1>4, <1>6 DEF sum
    <3> QED  BY <1>5, <1>6, <2>1, <3>1, <3>2
  <2>3. CASE ~ (sum >= Weight(len))
    <3>1. n = len + 0
      BY <2>3 DEF SumLimbs
    <3> HIDE DEF n, sum, len
    <3> QED  BY <1>5, <1>6, <2>3, <3>1
  <2> QED  BY <2>2, <2>3
<1>8. s[a].n = 0 => s[a].mag = 0
  BY <1>2, WholeZero
<1>9. s[b].n = 0 => s[b].mag = 0
  BY <1>2, WholeZero
<1>10. /\ w \in Header /\ w.mag = sum /\ w.n <= len + 1 /\ w.hi \in {u.hi, Larger(u.hi, w.n)}
       /\ Whole(w) /\ (Dense(s[a]) /\ Dense(s[b]) => Dense(w))
       /\ (s[a].sign = 1 /\ s[b].sign = 1 => w.sign = 1)
  <2>1. CASE s[b].n = 0
    <3>1. w = Copied(u, s[a])
      BY <2>1
    <3>2. /\ w \in Header /\ w.mag = s[a].mag /\ w.n = s[a].n
          /\ w.sign \in {1, s[a].sign} /\ w.hi \in {u.hi, Larger(u.hi, s[a].n)}
      BY <1>2, <1>8, <3>1, CopiedOf
    <3>3. sum = s[a].mag
      BY <1>3, <1>9, <2>1
    <3> HIDE DEF w, u, sum, len
    <3> QED  BY <1>3, <1>4, <1>5, <3>2, <3>3 DEF Whole, Dense
  <2>2. CASE s[b].n # 0 /\ s[a].n = 0
    <3>1. w = Copied(u, s[b])
      BY <2>2
    <3>2. /\ w \in Header /\ w.mag = s[b].mag /\ w.n = s[b].n
          /\ w.sign \in {1, s[b].sign} /\ w.hi \in {u.hi, Larger(u.hi, s[b].n)}
      BY <1>2, <1>9, <3>1, CopiedOf
    <3>3. sum = s[b].mag
      BY <1>3, <1>8, <2>2
    <3> HIDE DEF w, u, sum, len
    <3> QED  BY <1>3, <1>4, <1>5, <3>2, <3>3 DEF Whole, Dense
  <2>3. CASE s[b].n # 0 /\ s[a].n # 0
    <3>1. w = Written(u, sum, n, n)
      BY <2>3
    <3>2. Fields(w, sum, n, u.sign, Larger(u.hi, n))
      BY <1>2, <1>5, <1>7, <3>1, WrittenOf
    <3>3. ASSUME Dense(s[a]), Dense(s[b]) PROVE n = Limbs(sum)
      <4>1. s[a].n = Limbs(s[a].mag) /\ s[b].n = Limbs(s[b].mag)
        BY <3>3 DEF Dense
      <4>2. s[a].mag > 0
        BY <1>3, <2>3, <4>1, LimbsPositive
      <4> HIDE DEF len, u, w, s1
      <4>3. Limbs(sum) = SumLimbs(Limbs(s[a].mag), Limbs(s[b].mag), sum)
        BY <1>3, <4>2, LimbsSum
      <4> QED  BY <4>1, <4>3
    <3>4. s[a].sign = 1 /\ s[b].sign = 1 => u.sign = 1
      BY <1>2
    <3> HIDE DEF w, u, sum, len, n
    <3> QED  BY <1>3, <1>5, <1>7, <3>2, <3>3, <3>4 DEF Whole, Dense, Fields
  <2> QED  BY <2>1, <2>2, <2>3
<1> HIDE DEF w, s1
<1>11. w \in Header
  BY <1>10
<1>12. Changes(s, r, s1) /\ s1[r] = w
  BY <1>1, <1>11, ChangesOf
<1> QED  BY <1>2, <1>10, <1>12 DEF s1

LEMMA SmallMod ==
  ASSUME NEW x \in Nat, NEW w \in Nat, x < w
  PROVE  x % w = x
OBVIOUS

LEMMA SubWBOf ==
  ASSUME NEW s \in Numbers, NEW r \in Names, NEW a \in Names, NEW b \in Names,
         Whole(s[a]), Whole(s[b]), s[a].mag >= s[b].mag
  PROVE  LET s1 == SubWB(s, r, a, b)
         IN  /\ Changes(s, r, s1)
             /\ s1[r].mag = s[a].mag - s[b].mag
             /\ s1[r].hi \in {s[r].hi, Larger(s[r].hi, s[a].n)}
             /\ Dense(s[a]) => Dense(s1[r])
             /\ r = a => Val(s1[r]) = s[a].sign * (s[a].mag - s[b].mag)
<1> DEFINE len == s[a].n
           diff == (s[a].mag - (s[b].mag % Weight(len))) % Weight(len)
           u == Result(s, r, a, b)
           w == IF s[b].n = 0 THEN Copied(u, s[a]) ELSE Written(u, diff, Limbs(diff), len)
           s1 == SubWB(s, r, a, b)
<1>1. s1 = [s EXCEPT ![r] = w]
  BY DEF SubWB
<1>2. /\ s[a] \in Header /\ s[b] \in Header /\ u \in Header /\ u.hi = s[r].hi
      /\ (r \in {a, b} => u = s[r])
  BY NumbersOf, ResultOf
<1>3. /\ s[a].mag \in Nat /\ s[b].mag \in Nat /\ s[a].n \in Nat /\ s[b].n \in Nat /\ u.hi \in Nat
      /\ s[a].sign \in {1, -1} /\ s[b].sign \in {1, -1} /\ u.sign \in {1, -1}
  BY <1>2, HeaderOf
<1>4. s[a].mag < Weight(len) /\ Weight(len) \in Nat
  BY <1>3, WeightGrows DEF Whole
<1>5. s[b].mag % Weight(len) = s[b].mag
  BY <1>3, <1>4, SmallMod
<1>6. (s[a].mag - s[b].mag) % Weight(len) = s[a].mag - s[b].mag
  BY <1>3, <1>4, SmallMod
<1>7. diff = s[a].mag - s[b].mag /\ diff \in Nat
  BY <1>3, <1>5, <1>6
<1>8. s[a].n = 0 => s[a].mag = 0
  BY <1>2, WholeZero
<1>9. s[b].n = 0 => s[b].mag = 0
  BY <1>2, WholeZero
<1>10. /\ w \in Header /\ w.mag = diff /\ w.hi \in {u.hi, Larger(u.hi, len)}
       /\ (Dense(s[a]) => Dense(w)) /\ (r = a => Val(w) = s[a].sign * diff)
  <2>1. CASE s[b].n = 0
    <3>1. w = Copied(u, s[a])
      BY <2>1
    <3>2. /\ w \in Header /\ w.mag = s[a].mag /\ w.n = s[a].n /\ Val(w) = Val(s[a])
          /\ w.hi \in {u.hi, Larger(u.hi, s[a].n)}
      BY <1>2, <1>8, <3>1, CopiedOf
    <3>3. diff = s[a].mag
      BY <1>3, <1>7, <1>9, <2>1
    <3> HIDE DEF w, u, diff
    <3> QED  BY <3>2, <3>3 DEF Dense, Val
  <2>2. CASE s[b].n # 0
    <3>1. w = Written(u, diff, Limbs(diff), len)
      BY <2>2
    <3>2. Limbs(diff) \in Nat
      BY <1>7, LimbsPositive
    <3>3. Fields(w, diff, Limbs(diff), u.sign, Larger(u.hi, len))
      BY <1>2, <1>3, <1>7, <3>1, <3>2, WrittenOf
    <3>4. r = a => u.sign = s[a].sign
      BY <1>2
    <3> HIDE DEF w, u, diff
    <3> QED  BY <3>3, <3>4 DEF Dense, Val, Fields
  <2> QED  BY <2>1, <2>2
<1> HIDE DEF w, s1
<1>11. w \in Header
  BY <1>10
<1>12. Changes(s, r, s1) /\ s1[r] = w
  BY <1>1, <1>11, ChangesOf
<1> QED  BY <1>2, <1>7, <1>10, <1>12 DEF s1

\* A kernel's result gets another sign.
LEMMA ResignedOf ==
  ASSUME NEW s \in Numbers, NEW r \in Names, NEW sign \in {1, -1}
  PROVE  LET s1 == [s EXCEPT ![r].sign = sign]
         IN  Changes(s, r, s1) /\ Fields(s1[r], s[r].mag, s[r].n, sign, s[r].hi)
<1> DEFINE w == Signed(s[r], sign)
<1>1. [s EXCEPT ![r].sign = sign] = [s EXCEPT ![r] = w]
  BY DEF Signed
<1>2. s[r] \in Header
  BY NumbersOf
<1>3. Fields(w, s[r].mag, s[r].n, sign, s[r].hi)
  BY <1>2, SignedOf
<1>4. w \in Header
  BY <1>3 DEF Fields
<1> HIDE DEF w
<1>5. Changes(s, r, [s EXCEPT ![r] = w]) /\ [s EXCEPT ![r] = w][r] = w
  BY <1>4, ChangesOf
<1> QED  BY <1>1, <1>3, <1>5

LEMMA ChangesTwice ==
  ASSUME NEW s, NEW r, NEW s1, NEW s2, Changes(s, r, s1), Changes(s1, r, s2)
  PROVE  Changes(s, r, s2)
BY DEF Changes

\* The comparison by stored length orders numbers without leading zeros.
LEMMA CompOf ==
  ASSUME NEW x \in Header, NEW y \in Header, Dense(x), Dense(y)
  PROVE  /\ Comp(x, y) = 0 => x.mag = y.mag
         /\ Comp(x, y) > 0 => x.mag > y.mag
         /\ ~ (Comp(x, y) = 0) /\ ~ (Comp(x, y) > 0) => y.mag > x.mag
<1>1. /\ x.mag \in Nat /\ y.mag \in Nat /\ x.n = Limbs(x.mag) /\ y.n = Limbs(y.mag)
      /\ x.n \in Nat /\ y.n \in Nat
  BY HeaderOf DEF Dense
<1>2. (x.n > y.n => x.mag > y.mag) /\ (y.n > x.n => y.mag > x.mag)
  BY <1>1, LimbsOrder
<1> QED  BY <1>1, <1>2 DEF Comp

LEMMA SignedSumOf ==
  ASSUME NEW s \in Numbers, NEW r \in Names, NEW x \in Names, NEW y \in Names,
         NEW ysign \in {1, -1}, Dense(s[x]), Dense(s[y])
  PROVE  LET s1 == SignedSum(s, r, x, y, ysign)
         IN  /\ Changes(s, r, s1) /\ Dense(s1[r])
             /\ Val(s1[r]) = Val(s[x]) + ysign * s[y].mag
             /\ \E e \in {s[x].n, s[y].n, s1[r].n} : s1[r].hi \in {s[r].hi, Larger(s[r].hi, e)}
<1> DEFINE u == Result(s, r, x, y)
           s1 == SignedSum(s, r, x, y, ysign)
           Good(q) == /\ Changes(s, r, q) /\ Dense(q[r])
                      /\ Val(q[r]) = Val(s[x]) + ysign * s[y].mag
                      /\ \E e \in {s[x].n, s[y].n, q[r].n} :
                           q[r].hi \in {s[r].hi, Larger(s[r].hi, e)}
<1>1. s[x] \in Header /\ s[y] \in Header /\ s[r] \in Header /\ u \in Header /\ u.hi = s[r].hi
  BY NumbersOf, ResultOf
<1>2. /\ s[x].mag \in Nat /\ s[y].mag \in Nat /\ s[x].n \in Nat /\ s[y].n \in Nat
      /\ s[x].sign \in {1, -1} /\ s[y].sign \in {1, -1} /\ s[r].hi \in Nat
      /\ Val(s[x]) \in Int
      /\ (s[x].sign = 1 => Val(s[x]) = s[x].mag) /\ (s[x].sign = -1 => Val(s[x]) = - s[x].mag)
  BY <1>1, HeaderOf
<1>3. Whole(s[x]) /\ Whole(s[y])
  BY <1>1, DenseWhole
<1>4. (s[x].n = 0 => s[x].mag = 0) /\ (s[y].n = 0 => s[y].mag = 0)
  BY <1>1, <1>3, WholeZero
<1> DEFINE a == s[x].mag  b == s[y].mag  xs == s[x].sign
<1>5. CASE s[y].n = 0
  <2> DEFINE w == Copied(u, s[x])
  <2>1. s1 = [s EXCEPT ![r] = w]
    BY <1>5 DEF SignedSum
  <2>2. /\ w \in Header /\ w.mag = s[x].mag /\ w.n = s[x].n /\ Val(w) = Val(s[x])
        /\ w.hi \in {u.hi, Larger(u.hi, s[x].n)}
    BY <1>1, <1>4, CopiedOf
  <2>3. w \in Header
    BY <2>2
  <2> HIDE DEF w, s1
  <2>4. Changes(s, r, s1) /\ s1[r] = w
    BY <2>1, <2>3, ChangesOf
  <2>5. Val(s[x]) + ysign * s[y].mag = Val(s[x])
    BY <1>2, <1>4, <1>5
  <2> HIDE DEF u
  <2> QED  BY <1>1, <2>2, <2>4, <2>5 DEF Dense, s1
<1>6. CASE s[y].n # 0 /\ s[x].n = 0
  <2> DEFINE v == Copied(u, s[y])
             w == Signed(v, ysign)
  <2>1. s1 = [s EXCEPT ![r] = w]
    BY <1>6 DEF SignedSum
  <2>2. /\ v \in Header /\ v.mag = s[y].mag /\ v.n = s[y].n
        /\ v.hi \in {u.hi, Larger(u.hi, s[y].n)}
    BY <1>1, <1>4, CopiedOf
  <2> HIDE DEF v
  <2>3. Fields(w, s[y].mag, s[y].n, ysign, v.hi)
    BY <2>2, SignedOf
  <2>4. w \in Header
    BY <2>3 DEF Fields
  <2> HIDE DEF w, s1
  <2>5. Changes(s, r, s1) /\ s1[r] = w
    BY <2>1, <2>4, ChangesOf
  <2>6. Val(w) = Val(s[x]) + ysign * s[y].mag
    <3>1. Val(s[x]) = 0
      BY <1>2, <1>4, <1>6
    <3>2. Val(w) = ysign * s[y].mag /\ ysign * s[y].mag \in Int
      BY <1>2, <2>3 DEF Fields, Val
    <3> QED  BY <3>1, <3>2
  <2> HIDE DEF u
  <2> QED  BY <1>1, <2>2, <2>3, <2>5, <2>6 DEF Dense, Fields, s1
<1>7. CASE s[y].n # 0 /\ s[x].n # 0 /\ s[x].sign = ysign
  <2> DEFINE q == AddWC(s, r, x, y)
  <2>1. s1 = [q EXCEPT ![r].sign = xs]
    BY <1>7 DEF SignedSum
  <2>2. /\ Changes(s, r, q) /\ q[r].mag = a + b /\ Dense(q[r])
        /\ q[r].hi \in {s[r].hi, Larger(s[r].hi, q[r].n)}
    BY <1>3, AddWCOf
  <2>3. q \in Numbers
    BY <2>2 DEF Changes
  <2> HIDE DEF q, s1
  <2>4. Changes(q, r, s1) /\ Fields(s1[r], q[r].mag, q[r].n, xs, q[r].hi)
    BY <1>2, <2>1, <2>3, ResignedOf
  <2>5. Changes(s, r, s1)
    BY <2>2, <2>4, ChangesTwice
  <2>6. Val(s1[r]) = Val(s[x]) + ysign * s[y].mag
    <3>1. Val(s1[r]) = xs * (a + b)
      BY <2>2, <2>4 DEF Fields, Val
    <3>2. CASE ysign = 1
      BY <1>2, <1>7, <3>1, <3>2
    <3>3. CASE ysign = -1
      BY <1>2, <1>7, <3>1, <3>3
    <3> QED  BY <3>2, <3>3
  <2> QED  BY <2>2, <2>4, <2>5, <2>6 DEF Fields, Dense, s1
<1>8. CASE s[y].n # 0 /\ s[x].n # 0 /\ s[x].sign # ysign /\ Comp(s[x], s[y]) = 0
  <2> DEFINE w == Zset(u)
  <2>1. s1 = [s EXCEPT ![r] = w]
    BY <1>8 DEF SignedSum
  <2>2. Fields(w, 0, 0, 1, u.hi)
    BY <1>1, ZsetOf
  <2>3. w \in Header
    BY <2>2 DEF Fields
  <2> HIDE DEF w, s1
  <2>4. Changes(s, r, s1) /\ s1[r] = w
    BY <2>1, <2>3, ChangesOf
  <2>5. a = b
    BY <1>1, <1>8, CompOf
  <2>6. Val(w) = Val(s[x]) + ysign * s[y].mag
    BY <1>2, <1>8, <2>2, <2>5 DEF Fields, Val
  <2> HIDE DEF u
  <2> QED  BY <1>1, <2>2, <2>4, <2>6, LimbsZero DEF Fields, Dense, s1
<1>9. CASE s[y].n # 0 /\ s[x].n # 0 /\ s[x].sign # ysign /\ Comp(s[x], s[y]) > 0
  <2> DEFINE q == SubWB(s, r, x, y)
  <2>1. s1 = [q EXCEPT ![r].sign = xs]
    BY <1>9 DEF SignedSum
  <2>0. a > b
    BY <1>1, <1>9, CompOf
  <2>2. /\ Changes(s, r, q) /\ q[r].mag = a - b /\ Dense(q[r])
        /\ q[r].hi \in {s[r].hi, Larger(s[r].hi, s[x].n)}
    BY <1>2, <1>3, <2>0, SubWBOf
  <2>3. q \in Numbers
    BY <2>2 DEF Changes
  <2> HIDE DEF q, s1
  <2>4. Changes(q, r, s1) /\ Fields(s1[r], q[r].mag, q[r].n, xs, q[r].hi)
    BY <1>2, <2>1, <2>3, ResignedOf
  <2>5. Changes(s, r, s1)
    BY <2>2, <2>4, ChangesTwice
  <2>6. Val(s1[r]) = Val(s[x]) + ysign * s[y].mag
    <3>1. Val(s1[r]) = xs * (a - b)
      BY <2>2, <2>4 DEF Fields, Val
    <3> QED  BY <1>2, <1>9, <3>1
  <2> QED  BY <2>2, <2>4, <2>5, <2>6 DEF Fields, Dense, s1
<1>10. CASE s[y].n # 0 /\ s[x].n # 0 /\ s[x].sign # ysign
            /\ ~ (Comp(s[x], s[y]) = 0) /\ ~ (Comp(s[x], s[y]) > 0)
  <2> DEFINE q == SubWB(s, r, y, x)
  <2>1. s1 = [q EXCEPT ![r].sign = ysign]
    BY <1>10 DEF SignedSum
  <2>0. b > a
    BY <1>1, <1>10, CompOf
  <2>2. /\ Changes(s, r, q) /\ q[r].mag = b - a /\ Dense(q[r])
        /\ q[r].hi \in {s[r].hi, Larger(s[r].hi, s[y].n)}
    BY <1>2, <1>3, <2>0, SubWBOf
  <2>3. q \in Numbers
    BY <2>2 DEF Changes
  <2> HIDE DEF q, s1
  <2>4. Changes(q, r, s1) /\ Fields(s1[r], q[r].mag, q[r].n, ysign, q[r].hi)
    BY <1>2, <2>1, <2>3, ResignedOf
  <2>5. Changes(s, r, s1)
    BY <2>2, <2>4, ChangesTwice
  <2>6. Val(s1[r]) = Val(s[x]) + ysign * s[y].mag
    <3>1. Val(s1[r]) = ysign * (b - a)
      BY <2>2, <2>4 DEF Fields, Val
    <3> QED  BY <1>2, <1>10, <3>1
  <2> QED  BY <2>2, <2>4, <2>5, <2>6 DEF Fields, Dense, s1
<1> QED  BY <1>5, <1>6, <1>7, <1>8, <1>9, <1>10

\* ADD_SAW and SUB_SAW on numbers without leading zeros that fit c limbs, as
\* their sum or difference does.
LEMMA AddSAWOf ==
  ASSUME NEW s \in Numbers, NEW r \in Names, NEW x \in Names, NEW y \in Names, NEW c \in Nat,
         NEW v \in Int, NEW w \in Int, Holds(s[x], v), Holds(s[y], w),
         Abs(v) < Weight(c), Abs(w) < Weight(c), Abs(v + w) < Weight(c), s[r].hi <= c
  PROVE  LET s1 == AddSAW(s, r, x, y)
         IN  Changes(s, r, s1) /\ Holds(s1[r], v + w) /\ s1[r].hi <= c
<1> DEFINE s1 == AddSAW(s, r, x, y)
           ys == s[y].sign
<1>1. s[x] \in Header /\ s[y] \in Header /\ s[r] \in Header /\ Dense(s[x]) /\ Dense(s[y])
  BY NumbersOf DEF Holds
<1>2. ys \in {1, -1} /\ ys * s[y].mag = w /\ s[x].mag = Abs(v) /\ s[y].mag = Abs(w) /\ s[r].hi \in Nat
      /\ Val(s[x]) = v
  BY <1>1, HeaderOf DEF Holds, Val
<1>3. /\ Changes(s, r, s1) /\ Dense(s1[r])
      /\ Val(s1[r]) = Val(s[x]) + ys * s[y].mag
      /\ \E e \in {s[x].n, s[y].n, s1[r].n} : s1[r].hi \in {s[r].hi, Larger(s[r].hi, e)}
  BY <1>1, <1>2, SignedSumOf DEF AddSAW
<1> HIDE DEF s1, ys
<1>4. s1[r] \in Header /\ Val(s1[r]) = v + w
  BY <1>2, <1>3 DEF Changes, Numbers
<1>5. s1[r].mag = Abs(v + w)
  BY <1>4, HeaderOf
<1>6. /\ s[x].n \in Nat /\ s[x].n <= c /\ s[y].n \in Nat /\ s[y].n <= c
      /\ s1[r].n \in Nat /\ s1[r].n <= c
  <2>1. Abs(v) \in Nat /\ Abs(w) \in Nat /\ Abs(v + w) \in Nat
    BY DEF Abs
  <2>2. s[x].n = Limbs(Abs(v)) /\ s[y].n = Limbs(Abs(w)) /\ s1[r].n = Limbs(Abs(v + w))
    BY <1>1, <1>2, <1>3, <1>5 DEF Dense
  <2> QED  BY <2>1, <2>2, LimbsWithin
<1>7. s1[r].hi <= c
  BY <1>2, <1>3, <1>6 DEF Larger
<1> QED  BY <1>3, <1>4, <1>7 DEF Holds, s1

LEMMA SubSAWOf ==
  ASSUME NEW s \in Numbers, NEW r \in Names, NEW x \in Names, NEW y \in Names, NEW c \in Nat,
         NEW v \in Int, NEW w \in Int, Holds(s[x], v), Holds(s[y], w),
         Abs(v) < Weight(c), Abs(w) < Weight(c), Abs(v - w) < Weight(c), s[r].hi <= c
  PROVE  LET s1 == SubSAW(s, r, x, y)
         IN  Changes(s, r, s1) /\ Holds(s1[r], v - w) /\ s1[r].hi <= c
<1> DEFINE s1 == SubSAW(s, r, x, y)
           ys == - s[y].sign
<1>1. s[x] \in Header /\ s[y] \in Header /\ s[r] \in Header /\ Dense(s[x]) /\ Dense(s[y])
  BY NumbersOf DEF Holds
<1>2. ys \in {1, -1} /\ ys * s[y].mag = - w /\ s[x].mag = Abs(v) /\ s[y].mag = Abs(w) /\ s[r].hi \in Nat
      /\ Val(s[x]) = v
  <2>1. s[y].sign \in {1, -1} /\ s[y].mag \in Nat /\ s[y].sign * s[y].mag = w
    BY <1>1, HeaderOf DEF Holds, Val
  <2>2. ys \in {1, -1} /\ ys * s[y].mag = - w
    BY <2>1
  <2> QED  BY <1>1, <2>2, HeaderOf DEF Holds
<1>3. /\ Changes(s, r, s1) /\ Dense(s1[r])
      /\ Val(s1[r]) = Val(s[x]) + ys * s[y].mag
      /\ \E e \in {s[x].n, s[y].n, s1[r].n} : s1[r].hi \in {s[r].hi, Larger(s[r].hi, e)}
  BY <1>1, <1>2, SignedSumOf DEF SubSAW
<1> HIDE DEF s1, ys
<1>4. s1[r] \in Header /\ Val(s1[r]) = v - w
  BY <1>2, <1>3 DEF Changes, Numbers
<1>5. s1[r].mag = Abs(v - w)
  BY <1>4, HeaderOf
<1>6. /\ s[x].n \in Nat /\ s[x].n <= c /\ s[y].n \in Nat /\ s[y].n <= c
      /\ s1[r].n \in Nat /\ s1[r].n <= c
  <2>1. Abs(v) \in Nat /\ Abs(w) \in Nat /\ Abs(v - w) \in Nat
    BY DEF Abs
  <2>2. s[x].n = Limbs(Abs(v)) /\ s[y].n = Limbs(Abs(w)) /\ s1[r].n = Limbs(Abs(v - w))
    BY <1>1, <1>2, <1>3, <1>5 DEF Dense
  <2> QED  BY <2>1, <2>2, LimbsWithin
<1>7. s1[r].hi <= c
  BY <1>2, <1>3, <1>6 DEF Larger
<1> QED  BY <1>3, <1>4, <1>7 DEF Holds, s1

\* A sum of parts that stay in place, within c limbs.
LEMMA PlainSumOf ==
  ASSUME NEW s \in Numbers, NEW r \in Names, NEW x \in Names, NEW y \in Names, NEW c \in Nat,
         NEW v \in Nat, NEW w \in Nat, Holds(s[x], v), Holds(s[y], w),
         s[x].sign = 1, s[y].sign = 1, v + w < Weight(c), s[r].hi <= c
  PROVE  LET s1 == AddWC(s, r, x, y)
         IN  Changes(s, r, s1) /\ Holds(s1[r], v + w) /\ s1[r].sign = 1 /\ s1[r].hi <= c
<1> DEFINE s1 == AddWC(s, r, x, y)
<1>1. s[x] \in Header /\ s[y] \in Header /\ s[r] \in Header /\ Dense(s[x]) /\ Dense(s[y])
  BY NumbersOf DEF Holds
<1>2. s[x].mag = v /\ s[y].mag = w /\ s[r].hi \in Nat
  BY <1>1, HeaderOf DEF Holds
<1>3. /\ Changes(s, r, s1) /\ s1[r].mag = v + w /\ Dense(s1[r]) /\ s1[r].sign = 1
      /\ s1[r].hi \in {s[r].hi, Larger(s[r].hi, s1[r].n)}
  BY <1>1, <1>2, DenseWhole, AddWCOf
<1> HIDE DEF s1
<1>4. s1[r] \in Header
  BY <1>3 DEF Changes, Numbers
<1>5. Val(s1[r]) = v + w
  BY <1>3, <1>4, HeaderOf
<1>6. s1[r].n \in Nat /\ s1[r].n <= c
  BY <1>3, LimbsWithin DEF Dense
<1>7. s1[r].hi <= c
  BY <1>2, <1>3, <1>6 DEF Larger
<1> QED  BY <1>3, <1>4, <1>5, <1>7 DEF Holds, s1

\* Recomposition: a number is added from the limb shift on.
LEMMA AddShiftOf ==
  ASSUME NEW s \in Numbers, NEW r \in Names, NEW x \in Names, NEW shift \in Nat, NEW c \in Nat,
         NEW v \in Nat, NEW w \in Nat, s[r].mag = v, s[x].mag = w, Dense(s[r]), Dense(s[x]),
         s[r].sign = 1, shift = 0 => s[x].sign = 1, v + w * Weight(shift) < Weight(c), s[r].hi <= c
  PROVE  LET s1 == AddShift(s, r, x, shift)
         IN  Changes(s, r, s1) /\ Holds(s1[r], v + w * Weight(shift)) /\ s1[r].sign = 1 /\ s1[r].hi <= c
             /\ s1[r].mag = v + w * Weight(shift)
<1> DEFINE s1 == AddShift(s, r, x, shift)
           p == w * Weight(shift)
           sum == v + p
           n == SumLimbs(s[r].n, s[x].n + shift, sum)
           h == ShiftSummed(s[r], s[x], shift)
<1>0. s1 = [s EXCEPT ![r] = h]
  BY DEF AddShift
<1>1. s[x] \in Header /\ s[r] \in Header /\ s[r].hi \in Nat /\ s[x].n \in Nat /\ s[r].n \in Nat
  BY NumbersOf, HeaderOf
<1>2. Weight(shift) \in Nat /\ p \in Nat /\ sum \in Nat
  BY WeightGrows
<1>3. s[r].n = Limbs(v) /\ s[x].n = Limbs(w)
  BY DEF Dense
<1>4. CASE s[x].n = 0
  <2>0. h = s[r]
    BY <1>4 DEF ShiftSummed
  <2>1. s1 = s /\ w = 0
    BY <1>0, <1>3, <1>4, <2>0, LimbsPositive DEF Numbers
  <2>2. p = 0 /\ v + p = v
    BY <1>2, <2>1
  <2>3. Val(s[r]) = v
    BY <1>1, HeaderOf
  <2> QED  BY <1>1, <2>1, <2>2, <2>3 DEF Changes, Holds
<1>5. CASE s[x].n # 0 /\ shift = 0
  <2>0. h = Summed(s[r], s[r], s[x])
    BY <1>5 DEF ShiftSummed
  <2>1. s1 = AddWC(s, r, r, x)
    BY <1>0, <2>0 DEF AddWC, Result
  <2>2. p = w
    BY <1>2, <1>5, WeightOf
  <2>3. Holds(s[r], v) /\ Holds(s[x], w)
    BY <1>1, <1>5, HeaderOf DEF Holds
  <2>4. Changes(s, r, s1) /\ Holds(s1[r], v + w) /\ s1[r].sign = 1 /\ s1[r].hi <= c
    BY <1>5, <2>1, <2>2, <2>3, PlainSumOf
  <2>5. s1[r].mag = v + w
    <3>1. s1[r] \in Header /\ Val(s1[r]) = v + w
      BY <2>4 DEF Holds
    <3> QED  BY <2>4, <3>1, HeaderOf
  <2> QED  BY <2>2, <2>4, <2>5
<1>6. CASE s[x].n # 0 /\ shift # 0
  <2> DEFINE u == Written(s[r], sum, n, n)
  <2>1. s1 = [s EXCEPT ![r] = u]
    <3>1. h = u
      BY <1>6 DEF ShiftSummed
    <3> QED  BY <1>0, <3>1
  <2>2. w > 0
    BY <1>3, <1>6, LimbsPositive
  <2>3. p > 0 /\ Limbs(p) = s[x].n + shift
    BY <1>3, <2>2, LimbsShift
  <2>4. n = Limbs(sum)
    BY <1>2, <1>3, <2>3, LimbsSum
  <2>5. n \in Nat /\ n <= c
    BY <1>2, <2>4, LimbsWithin
  <2> HIDE DEF n
  <2>6. Fields(u, sum, n, s[r].sign, Larger(s[r].hi, n))
    BY <1>1, <1>2, <2>5, WrittenOf
  <2>7. u \in Header
    BY <2>6 DEF Fields
  <2> HIDE DEF u, s1
  <2>8. Changes(s, r, s1) /\ s1[r] = u
    BY <2>1, <2>7, ChangesOf
  <2>9. Val(u) = sum /\ u.mag = sum /\ u.sign = 1
    BY <2>6, <2>7, HeaderOf DEF Fields
  <2>10. u.hi <= c /\ Dense(u)
    BY <1>1, <2>4, <2>5, <2>6 DEF Fields, Larger, Dense
  <2> QED  BY <2>7, <2>8, <2>9, <2>10 DEF Holds, s1
<1> QED  BY <1>4, <1>5, <1>6

LEMMA LShift1Of ==
  ASSUME NEW s \in Numbers, NEW r \in Names, NEW c \in Nat, NEW v \in Int, Holds(s[r], v),
         Abs(2 * v) < Weight(c), s[r].hi <= c
  PROVE  LET s1 == LShift1(s, r)
         IN  Changes(s, r, s1) /\ Holds(s1[r], 2 * v) /\ s1[r].hi <= c
<1> DEFINE s1 == LShift1(s, r)
           mag == 2 * s[r].mag
           extent == SumLimbs(s[r].n, s[r].n, mag)
           u == Trimmed(s[r], mag, extent)
<1>1. s1 = [s EXCEPT ![r] = u]
  BY DEF LShift1
<1>2. /\ s[r] \in Header /\ s[r].hi \in Nat /\ s[r].n \in Nat /\ s[r].mag \in Nat /\ s[r].n = Limbs(s[r].mag)
      /\ s[r].sign \in {1, -1} /\ s[r].sign * s[r].mag = v /\ s[r].mag = Abs(v)
  BY HeaderOf DEF Holds, Dense, Val
<1>3. mag \in Nat /\ mag = Abs(2 * v) /\ mag = s[r].mag + s[r].mag
  BY <1>2 DEF Abs
<1>4. extent \in Nat /\ extent <= c
  <2>1. CASE s[r].mag = 0
    <3>1. s[r].n = 0 /\ mag = 0 /\ Weight(0) = 1
      BY <1>2, <2>1, LimbsZero, WeightOf
    <3>2. extent = 0
      BY <3>1 DEF SumLimbs, Larger
    <3> QED  BY <3>2
  <2>2. CASE s[r].mag # 0
    <3>1. s[r].mag > 0
      BY <1>2, <2>2
    <3>3. Limbs(mag) = extent
      BY <1>2, <1>3, <3>1, LimbsSum
    <3>4. Limbs(mag) \in Nat /\ Limbs(mag) <= c
      BY <1>3, LimbsWithin
    <3> QED  BY <3>3, <3>4
  <2> QED  BY <2>1, <2>2
<1> HIDE DEF extent
<1>5. /\ u \in Header /\ u.mag = mag /\ Dense(u) /\ u.hi = Larger(s[r].hi, extent)
      /\ u.sign = (IF mag = 0 THEN 1 ELSE s[r].sign)
  <2>1. Trims(u, s[r], mag, extent)
    BY <1>2, <1>3, <1>4, TrimmedOf
  <2> HIDE DEF u, mag
  <2> QED  BY <2>1 DEF Trims
<1>6. u \in Header
  BY <1>5
<1> HIDE DEF u, s1
<1>7. Changes(s, r, s1) /\ s1[r] = u
  BY <1>1, <1>6, ChangesOf
<1>8. Val(u) = 2 * v
  BY <1>2, <1>5 DEF Val
<1>9. u.hi <= c
  BY <1>2, <1>4, <1>5 DEF Larger
<1> QED  BY <1>5, <1>7, <1>8, <1>9 DEF Holds, s1

\* The right shift by one bit of an even number and the division by three of a
\* multiple of three.
LEMMA QuotientOf ==
  ASSUME NEW s \in Numbers, NEW r \in Names, NEW c \in Nat, NEW d \in {2, 3}, NEW v \in Int,
         Holds(s[r], d * v), Abs(d * v) < Weight(c), s[r].hi <= c
  PROVE  LET u == Trimmed(s[r], s[r].mag \div d, s[r].n)
         IN  Holds(u, v) /\ u.hi <= c
<1> DEFINE q == s[r].mag \div d
           u == Trimmed(s[r], q, s[r].n)
<1>1. /\ s[r] \in Header /\ s[r].hi \in Nat /\ s[r].n \in Nat /\ s[r].mag \in Nat /\ s[r].n = Limbs(s[r].mag)
      /\ s[r].sign \in {1, -1} /\ s[r].mag = Abs(d * v)
      /\ (s[r].sign = 1 => d * v = s[r].mag) /\ (s[r].sign = -1 => d * v = - s[r].mag)
  BY HeaderOf DEF Holds, Dense
<1>2. q = Abs(v) /\ q \in Nat
  <2>1. CASE d = 2
    BY <1>1, <2>1 DEF Abs
  <2>2. CASE d = 3
    BY <1>1, <2>2 DEF Abs
  <2> QED  BY <2>1, <2>2
<1>3. s[r].n <= c
  BY <1>1, LimbsWithin
<1>4. (s[r].sign = 1 => v = q) /\ (s[r].sign = -1 => v = -q)
  <2>1. CASE d = 2
    BY <1>1, <1>2, <2>1 DEF Abs
  <2>2. CASE d = 3
    BY <1>1, <1>2, <2>2 DEF Abs
  <2> QED  BY <2>1, <2>2
<1> HIDE DEF q
<1>5. /\ u \in Header /\ u.mag = q /\ Dense(u) /\ u.hi = Larger(s[r].hi, s[r].n)
      /\ u.sign = (IF q = 0 THEN 1 ELSE s[r].sign)
  <2>1. Trims(u, s[r], q, s[r].n)
    BY <1>1, <1>2, TrimmedOf
  <2> HIDE DEF u
  <2> QED  BY <2>1 DEF Trims
<1> HIDE DEF u
<1>6. Val(u) = v
  BY <1>1, <1>2, <1>4, <1>5, HeaderOf
<1>7. u.hi <= c
  BY <1>1, <1>3, <1>5 DEF Larger
<1> QED  BY <1>5, <1>6, <1>7 DEF Holds, u, q

LEMMA RShift1Of ==
  ASSUME NEW s \in Numbers, NEW r \in Names, NEW c \in Nat, NEW v \in Int, Holds(s[r], 2 * v),
         Abs(2 * v) < Weight(c), s[r].hi <= c
  PROVE  LET s1 == RShift1(s, r)
         IN  Changes(s, r, s1) /\ Holds(s1[r], v) /\ s1[r].hi <= c
<1> DEFINE u == Trimmed(s[r], s[r].mag \div 2, s[r].n)
<1>1. RShift1(s, r) = [s EXCEPT ![r] = u]
  BY DEF RShift1
<1>2. Holds(u, v) /\ u.hi <= c
  BY QuotientOf
<1> HIDE DEF u
<1>3. u \in Header
  BY <1>2 DEF Holds
<1>4. Changes(s, r, [s EXCEPT ![r] = u]) /\ [s EXCEPT ![r] = u][r] = u
  BY <1>3, ChangesOf
<1> QED  BY <1>1, <1>2, <1>4

LEMMA Div3Of ==
  ASSUME NEW s \in Numbers, NEW r \in Names, NEW c \in Nat, NEW v \in Int, Holds(s[r], 3 * v),
         Abs(3 * v) < Weight(c), s[r].hi <= c
  PROVE  LET s1 == Div3(s, r)
         IN  Changes(s, r, s1) /\ Holds(s1[r], v) /\ s1[r].hi <= c
<1> DEFINE w == Trimmed(s[r], s[r].mag \div 3, s[r].n)
           u == IF s[r].n = 0 THEN s[r] ELSE w
<1>1. Div3(s, r) = [s EXCEPT ![r] = u]
  BY DEF Div3
<1>2. Holds(w, v) /\ w.hi <= c
  BY QuotientOf
<1>3. ASSUME s[r].n = 0 PROVE Holds(s[r], v)
  <2>1. s[r] \in Header /\ s[r].mag \in Nat /\ s[r].n = Limbs(s[r].mag) /\ s[r].mag = Abs(3 * v)
    BY HeaderOf DEF Holds, Dense
  <2>2. s[r].mag = 0
    BY <1>3, <2>1, LimbsPositive
  <2>3. v = 0 /\ 3 * v = v
    BY <2>1, <2>2 DEF Abs
  <2> QED  BY <2>3
<1> HIDE DEF w
<1>4. Holds(u, v) /\ u.hi <= c
  BY <1>2, <1>3
<1> HIDE DEF u
<1>5. u \in Header
  BY <1>4 DEF Holds
<1>6. Changes(s, r, [s EXCEPT ![r] = u]) /\ [s EXCEPT ![r] = u][r] = u
  BY <1>5, ChangesOf
<1> QED  BY <1>1, <1>4, <1>6

\* The recursive product: the limbs of both factors are cleared first.
LEMMA ProductOf ==
  ASSUME NEW s \in Numbers, NEW r \in Names, NEW a \in Names, NEW b \in Names, NEW c \in Nat,
         s[a].n + s[b].n <= c, s[r].hi <= c
  PROVE  LET s1 == Product(s, r, a, b)
         IN  /\ Changes(s, r, s1) /\ Dense(s1[r]) /\ s1[r].mag = s[a].mag * s[b].mag /\ s1[r].hi <= c
             /\ s[r].sign = 1 => s1[r].sign = 1
<1> DEFINE u == Trimmed(s[r], s[a].mag * s[b].mag, s[a].n + s[b].n)
<1>1. Product(s, r, a, b) = [s EXCEPT ![r] = u]
  BY DEF Product
<1>2. s[a] \in Header /\ s[b] \in Header /\ s[r] \in Header
  BY NumbersOf
<1>3. /\ s[a].mag * s[b].mag \in Nat /\ s[a].n + s[b].n \in Nat /\ s[r].hi \in Nat
      /\ s[a].n \in Nat /\ s[b].n \in Nat
  <2>1. s[a].mag \in Nat /\ s[b].mag \in Nat /\ s[a].n \in Nat /\ s[b].n \in Nat /\ s[r].hi \in Nat
    BY <1>2, HeaderOf
  <2> QED  BY <2>1, NatProducts
<1>4. /\ u \in Header /\ u.mag = s[a].mag * s[b].mag /\ Dense(u) /\ u.hi = Larger(s[r].hi, s[a].n + s[b].n)
      /\ u.sign = (IF s[a].mag * s[b].mag = 0 THEN 1 ELSE s[r].sign)
  <2>1. Trims(u, s[r], s[a].mag * s[b].mag, s[a].n + s[b].n)
    BY <1>2, <1>3, TrimmedOf
  <2> HIDE DEF u
  <2> QED  BY <2>1 DEF Trims
<1>5. u \in Header
  BY <1>4
<1>6. u.hi <= c
  BY <1>3, <1>4 DEF Larger
<1>8. s[r].sign = 1 => u.sign = 1
  BY <1>4
<1> HIDE DEF u
<1>7. Changes(s, r, [s EXCEPT ![r] = u]) /\ [s EXCEPT ![r] = u][r] = u
  BY <1>5, ChangesOf
<1> QED  BY <1>1, <1>4, <1>6, <1>7, <1>8

LEMMA ProductSignOf ==
  ASSUME NEW s \in Numbers, NEW r \in Names, NEW a \in Names, NEW b \in Names,
         s[r].mag = s[a].mag * s[b].mag, Dense(s[r])
  PROVE  LET s1 == ProductSign(s, r, a, b)
         IN  Changes(s, r, s1) /\ Holds(s1[r], Val(s[a]) * Val(s[b])) /\ s1[r].hi = s[r].hi
<1> DEFINE sg == s[a].sign * s[b].sign
           s1 == ProductSign(s, r, a, b)
<1>1. /\ s[a].mag \in Nat /\ s[b].mag \in Nat /\ s[a].sign \in {1, -1} /\ s[b].sign \in {1, -1}
  BY NumbersOf, HeaderOf
<1>2. sg \in {1, -1}
  BY <1>1
<1>3. s1 = [s EXCEPT ![r].sign = sg]
  BY DEF ProductSign
<1>4. Val(s[a]) * Val(s[b]) = sg * (s[a].mag * s[b].mag)
  <2> DEFINE a1 == s[a].sign  b1 == s[b].sign  x == s[a].mag  y == s[b].mag
  <2>1. a1 \in {1, -1} /\ b1 \in {1, -1} /\ x \in Nat /\ y \in Nat
    BY <1>1
  <2>2. Val(s[a]) = a1 * x /\ Val(s[b]) = b1 * y
    BY DEF Val
  <2> HIDE DEF a1, b1, x, y
  <2>3. (a1 * x) * (b1 * y) = (a1 * b1) * (x * y)
    <3>1. CASE a1 = 1 /\ b1 = 1
      BY <2>1, <3>1
    <3>2. CASE a1 = 1 /\ b1 = -1
      BY <2>1, <3>2
    <3>3. CASE a1 = -1 /\ b1 = 1
      BY <2>1, <3>3
    <3>4. CASE a1 = -1 /\ b1 = -1
      BY <2>1, <3>4
    <3> QED  BY <2>1, <3>1, <3>2, <3>3, <3>4
  <2> QED  BY <2>2, <2>3 DEF a1, b1, x, y
<1> HIDE DEF sg, s1
<1>5. Changes(s, r, s1) /\ Fields(s1[r], s[r].mag, s[r].n, sg, s[r].hi)
  BY <1>2, <1>3, ResignedOf
<1> QED  BY <1>4, <1>5 DEF Fields, Holds, Dense, Val, s1

-----------------------------------------------------------------------------
(* The lengths of the parts *)

\* Longer, as a fact about both operands.
LEMMA LongerOf ==
  ASSUME lenM \in Lengths, lenN \in Lengths
  PROVE  /\ lenM \in Nat /\ lenN \in Nat /\ lenM >= 2 /\ lenN >= 2
         /\ Longer \in {lenM, lenN} /\ lenM <= Longer /\ lenN <= Longer
BY TempsAssumption DEF Longer, Larger

LEMMA PartLenOf ==
  ASSUME lenM \in Lengths, lenN \in Lengths, alg \in {"karatsuba", "toom3"}
  PROVE  /\ PartLen \in Nat /\ PartLen >= 1
         /\ alg = "karatsuba" => Longer >= 2 * PartLen
         /\ alg = "toom3" => 3 * PartLen >= Longer /\ 3 * PartLen <= Longer + 2
<1> DEFINE l == Longer
<1>1. l \in Nat /\ l >= 2
  BY LongerOf
<1>2. PartLen = IF alg = "karatsuba" THEN l \div 2 ELSE (l + 2) \div 3
  BY DEF PartLen
<1> HIDE DEF l
<1>3. /\ l \div 2 \in Nat /\ l \div 2 >= 1 /\ l >= 2 * (l \div 2)
      /\ (l + 2) \div 3 \in Nat /\ (l + 2) \div 3 >= 1
      /\ 3 * ((l + 2) \div 3) >= l /\ 3 * ((l + 2) \div 3) <= l + 2
  BY <1>1
<1>4. CASE alg = "karatsuba"
  BY <1>2, <1>3, <1>4 DEF l
<1>5. CASE alg = "toom3"
  BY <1>2, <1>3, <1>5 DEF l
<1> QED  BY <1>4, <1>5

\* The parts of a len-limb operand: a part that is not full is the last one.
Splits(len) ==
  /\ \A i \in 0 .. 2 : Part(len, i) \in Nat /\ Part(len, i) <= len
  /\ Part(len, 0) <= PartLen
  /\ Part(len, 0) = PartLen \/ (Part(len, 1) = 0 /\ Part(len, 2) = 0)
  /\ alg = "karatsuba" => Part(len, 0) + Part(len, 1) = len
  /\ alg = "toom3" =>
       /\ Part(len, 1) <= PartLen /\ Part(len, 2) <= PartLen
       /\ Part(len, 1) = PartLen \/ Part(len, 2) = 0
       /\ Part(len, 0) + Part(len, 1) + Part(len, 2) = len

LEMMA PartOf ==
  ASSUME lenM \in Lengths, lenN \in Lengths, alg \in {"karatsuba", "toom3"}, NEW len \in {lenM, lenN}
  PROVE  Splits(len)
<1> DEFINE k == PartLen
<1>1. /\ k \in Nat /\ k >= 1 /\ len \in Nat /\ len <= Longer /\ Longer \in Nat
      /\ alg = "toom3" => 3 * k >= Longer
  BY PartLenOf, LongerOf
<1>2. Part(len, 0) = Smaller(k, len)
  BY DEF Part
<1>3. Part(len, 2) = Above(len, 2 * k)
  BY DEF Part
<1>4. alg = "toom3" => Part(len, 1) = Smaller(k, Above(len, k))
  BY DEF Part
<1>5. alg = "karatsuba" => Part(len, 1) = Above(len, k)
  <2>1. ASSUME alg = "karatsuba" PROVE Part(len, 1) = Above(len, 1 * k)
    BY <2>1 DEF Part
  <2> QED  BY <1>1, <2>1
<1> HIDE DEF k
<1>6. Part(len, 0) \in Nat /\ Part(len, 0) <= len /\ Part(len, 0) <= k
  BY <1>1, <1>2 DEF Smaller
<1>7. Part(len, 2) \in Nat /\ Part(len, 2) <= len
  BY <1>1, <1>3 DEF Above
<1>8. CASE alg = "karatsuba"
  <2>1. Part(len, 1) \in Nat /\ Part(len, 1) <= len /\ Part(len, 0) + Part(len, 1) = len
        /\ (Part(len, 0) = k \/ (Part(len, 1) = 0 /\ Part(len, 2) = 0))
    BY <1>1, <1>2, <1>3, <1>5, <1>8 DEF Smaller, Above
  <2>2. \A i \in 0 .. 2 : Part(len, i) \in Nat /\ Part(len, i) <= len
    BY <1>6, <1>7, <2>1
  <2> QED  BY <1>6, <1>8, <2>1, <2>2 DEF Splits, k
<1>9. CASE alg = "toom3"
  <2>1. /\ Part(len, 1) \in Nat /\ Part(len, 1) <= len /\ Part(len, 1) <= k /\ Part(len, 2) <= k
        /\ (Part(len, 0) = k \/ (Part(len, 1) = 0 /\ Part(len, 2) = 0))
        /\ (Part(len, 1) = k \/ Part(len, 2) = 0)
        /\ Part(len, 0) + Part(len, 1) + Part(len, 2) = len
    BY <1>1, <1>2, <1>3, <1>4, <1>9 DEF Smaller, Above
  <2>2. \A i \in 0 .. 2 : Part(len, i) \in Nat /\ Part(len, i) <= len
    BY <1>6, <1>7, <2>1
  <2> QED  BY <1>6, <1>9, <2>1, <2>2 DEF Splits, k
<1> QED  BY <1>8, <1>9

\* A part below and a part above it, together.
LEMMA JoinBelow ==
  ASSUME NEW a \in Nat, NEW b \in Nat, NEW i \in Nat, NEW j \in Nat, NEW k \in Nat,
         a < Weight(i), b < Weight(j), i = k \/ (i <= k /\ j = 0)
  PROVE  a + b * Weight(k) \in Nat /\ a + b * Weight(k) < Weight(i + j)
<1> DEFINE w == Weight(i)  v == Weight(j)  u == Weight(k)
<1>1. u \in Nat /\ w \in Nat /\ v \in Nat /\ u >= 1 /\ w >= 1 /\ v >= 1
  BY WeightGrows
<1>2. Weight(i + j) = w * v
  BY WeightAdd
<1>3. CASE i = k
  <2>1. u = w
    BY <1>3
  <2> HIDE DEF w, v, u
  <2>2. w * (b + 1) <= w * v
    BY <1>1, Products DEF v
  <2>3. w * (b + 1) = b * w + w /\ b * w \in Nat /\ w * v \in Nat
    BY <1>1
  <2>4. a + b * u \in Nat /\ a + b * u < w * v
    BY <1>1, <2>1, <2>2, <2>3 DEF w
  <2> QED  BY <1>2, <2>4 DEF w, v, u
<1>4. CASE j = 0
  <2>1. b = 0 /\ i + j = i
    BY <1>4, WeightOf
  <2>2. b * u = 0
    BY <1>1, <2>1
  <2> QED  BY <1>4, <2>1, <2>2
<1> QED  BY <1>3, <1>4

-----------------------------------------------------------------------------
(* The parts of the operands and the coefficients of their product *)

a0 == t["m0"].mag
a1 == t["m1"].mag
a2 == t["m2"].mag
b0 == t["n0"].mag
b1 == t["n1"].mag
b2 == t["n2"].mag
c0 == a0 * b0
c1 == a0 * b1 + a1 * b0
c2 == a0 * b2 + a1 * b1 + a2 * b0
c3 == a1 * b2 + a2 * b1
c4 == a2 * b2

mParts == [i \in 0 .. 2 |-> t[<<"m0", "m1", "m2">>[i + 1]].mag]
nParts == [i \in 0 .. 2 |-> t[<<"n0", "n1", "n2">>[i + 1]].mag]

LEMMA PartsAt ==
  /\ mParts[0] = a0 /\ mParts[1] = a1 /\ mParts[2] = a2
  /\ nParts[0] = b0 /\ nParts[1] = b1 /\ nParts[2] = b2
<1>1. \A i \in 0 .. 2 : mParts[i] = t[<<"m0", "m1", "m2">>[i + 1]].mag
  BY DEF mParts
<1>2. \A i \in 0 .. 2 : nParts[i] = t[<<"n0", "n1", "n2">>[i + 1]].mag
  BY DEF nParts
<1>3. 0 \in 0 .. 2 /\ 1 \in 0 .. 2 /\ 2 \in 0 .. 2 /\ 0 + 1 = 1 /\ 1 + 1 = 2 /\ 2 + 1 = 3
  OBVIOUS
<1> QED  BY <1>1, <1>2, <1>3 DEF a0, a1, a2, b0, b1, b2

\* What the definitions of MulAlgebra are here.
LEMMA CoefficientsOf ==
  /\ Algebra!C0 = c0 /\ Algebra!C1 = c1 /\ Algebra!C2 = c2 /\ Algebra!C3 = c3 /\ Algebra!C4 = c4
<1>1. Algebra!C0 = mParts[0] * nParts[0]
  BY DEF Algebra!C0, mParts, nParts
<1>2. Algebra!C1 = mParts[0] * nParts[1] + mParts[1] * nParts[0]
  BY DEF Algebra!C1, mParts, nParts
<1>3. Algebra!C2 = mParts[0] * nParts[2] + mParts[1] * nParts[1] + mParts[2] * nParts[0]
  BY DEF Algebra!C2, mParts, nParts
<1>4. Algebra!C3 = mParts[1] * nParts[2] + mParts[2] * nParts[1]
  BY DEF Algebra!C3, mParts, nParts
<1>5. Algebra!C4 = mParts[2] * nParts[2]
  BY DEF Algebra!C4, mParts, nParts
<1> QED  BY <1>1, <1>2, <1>3, <1>4, <1>5, PartsAt DEF c0, c1, c2, c3, c4

\* The points of the evaluation hold what the algebra says.
MultiplyValues ==
  /\ Val(t["p1"]) = a0 + a1 + a2              /\ Val(t["q1"]) = b0 + b1 + b2
  /\ Val(t["p_neg1"]) = a0 - a1 + a2          /\ Val(t["q_neg1"]) = b0 - b1 + b2
  /\ Val(t["p_neg2"]) = a0 - 2 * a1 + 4 * a2  /\ Val(t["q_neg2"]) = b0 - 2 * b1 + 4 * b2

Products5(u0, u1, u_neg1, u_neg2, uinf) ==
  /\ Val(t["r0"]) = u0 /\ Val(t["r1"]) = u1 /\ Val(t["r_neg1"]) = u_neg1
  /\ Val(t["r_neg2"]) = u_neg2 /\ Val(t["rinf"]) = uinf

at1    == c0 + c1 + c2 + c3 + c4
atNeg1 == c0 - c1 + c2 - c3 + c4
atNeg2 == c0 - 2 * c1 + 4 * c2 - 8 * c3 + 16 * c4

Poly5(a, b, c, d, e, w) ==
  LET w2 == w * w
  IN  a + b * w + c * w2 + d * (w2 * w) + e * (w2 * w2)

\* The product polynomial at the weight of the second part.
product == Poly5(c0, c1, c2, c3, c4, Weight(PartLen))

ValuesInv ==
  /\ pc \in KaratsubaLabels => a2 = 0 /\ b2 = 0
  /\ pc = "karatsuba" => Val(t["r_neg1"]) = 0 /\ Val(t["r_neg2"]) = 0
  /\ pc = "z1-z2" => Products5(c0, c0 + c1 + c2, 0, 0, c2)
  /\ pc = "z1-z0" => Products5(c0, c0 + c1, 0, 0, c2)
  /\ pc = "karatsuba sum" => Products5(c0, c1, 0, 0, c2)
  /\ pc = "multiply" => MultiplyValues
  /\ pc = "r3 = (r3 - r1) / 3"  => Products5(c0, at1, atNeg1, atNeg2, c4)
  /\ pc = "r1 = (r1 - r2) / 2"  => Products5(c0, at1, atNeg1, c2 - c1 - 3*c3 + 5*c4, c4)
  /\ pc = "r2 = r2 - r0"        => Products5(c0, c1 + c3, atNeg1, c2 - c1 - 3*c3 + 5*c4, c4)
  /\ pc = "r3 = (r2 - r3) / 2"  => Products5(c0, c1 + c3, atNeg1 - c0, c2 - c1 - 3*c3 + 5*c4, c4)
  /\ pc = "r3 = r3 + 2 rinf"    => Products5(c0, c1 + c3, atNeg1 - c0, c3 - 2*c4, c4)
  /\ pc = "r2 = r2 + r1 - rinf" => Products5(c0, c1 + c3, atNeg1 - c0, c3, 2*c4)
  /\ pc = "r1 = r1 - r3"        => Products5(c0, c1 + c3, c2, c3, c4)
  /\ pc = "toom3 sum"           => Products5(c0, c1, c2, c3, c4)
  /\ pc = "done" => res = product

LEMMA ValuesOf == (Algebra!KaratsubaInv /\ Algebra!Toom3Inv /\ Algebra!ResultIsProduct) <=> ValuesInv
<1> DEFINE T(u1, u_neg1, u_neg2, uinf) == Algebra!Temporaries(u1, u_neg1, u_neg2, uinf)
<1>1. \A u1, u_neg1, u_neg2, uinf : T(u1, u_neg1, u_neg2, uinf) <=> Products5(c0, u1, u_neg1, u_neg2, uinf)
  BY CoefficientsOf DEF Algebra!Temporaries, Products5
<1>2. Algebra!KaratsubaInv <=>
        /\ pc \in KaratsubaLabels => mParts[2] = 0 /\ nParts[2] = 0
        /\ pc = "karatsuba" => Val(t["r_neg1"]) = 0 /\ Val(t["r_neg2"]) = 0
        /\ pc = "z1-z2" => T(Algebra!C0 + Algebra!C1 + Algebra!C2, 0, 0, Algebra!C2)
        /\ pc = "z1-z0" => T(Algebra!C0 + Algebra!C1, 0, 0, Algebra!C2)
        /\ pc = "karatsuba sum" => T(Algebra!C1, 0, 0, Algebra!C2)
  BY DEF Algebra!KaratsubaInv, KaratsubaLabels, mParts, nParts
<1>3. Algebra!At1 = at1 /\ Algebra!AtNeg1 = atNeg1 /\ Algebra!AtNeg2 = atNeg2
  BY CoefficientsOf DEF Algebra!At1, Algebra!AtNeg1, Algebra!AtNeg2, at1, atNeg1, atNeg2
<1> DEFINE P(u) == Algebra!Temporaries(u, u, u, u)
<1>4. Algebra!Toom3Inv <=>
        /\ pc = "multiply" =>
             /\ Val(t["p1"]) = mParts[0] + mParts[1] + mParts[2] /\ Val(t["q1"]) = nParts[0] + nParts[1] + nParts[2]
             /\ Val(t["p_neg1"]) = mParts[0] - mParts[1] + mParts[2]
             /\ Val(t["q_neg1"]) = nParts[0] - nParts[1] + nParts[2]
             /\ Val(t["p_neg2"]) = mParts[0] - 2 * mParts[1] + 4 * mParts[2]
             /\ Val(t["q_neg2"]) = nParts[0] - 2 * nParts[1] + 4 * nParts[2]
        /\ pc = "r3 = (r3 - r1) / 3"  => T(Algebra!At1, Algebra!AtNeg1, Algebra!AtNeg2, Algebra!C4)
        /\ pc = "r1 = (r1 - r2) / 2"  => T(Algebra!At1, Algebra!AtNeg1, Algebra!C2 - Algebra!C1 - 3*Algebra!C3 + 5*Algebra!C4, Algebra!C4)
        /\ pc = "r2 = r2 - r0"        => T(Algebra!C1 + Algebra!C3, Algebra!AtNeg1, Algebra!C2 - Algebra!C1 - 3*Algebra!C3 + 5*Algebra!C4, Algebra!C4)
        /\ pc = "r3 = (r2 - r3) / 2"  => T(Algebra!C1 + Algebra!C3, Algebra!AtNeg1 - Algebra!C0, Algebra!C2 - Algebra!C1 - 3*Algebra!C3 + 5*Algebra!C4, Algebra!C4)
        /\ pc = "r3 = r3 + 2 rinf"    => T(Algebra!C1 + Algebra!C3, Algebra!AtNeg1 - Algebra!C0, Algebra!C3 - 2*Algebra!C4, Algebra!C4)
        /\ pc = "r2 = r2 + r1 - rinf" => T(Algebra!C1 + Algebra!C3, Algebra!AtNeg1 - Algebra!C0, Algebra!C3, 2*Algebra!C4)
        /\ pc = "r1 = r1 - r3"        => T(Algebra!C1 + Algebra!C3, Algebra!C2, Algebra!C3, Algebra!C4)
        /\ pc = "toom3 sum"           => T(Algebra!C1, Algebra!C2, Algebra!C3, Algebra!C4)
  BY DEF Algebra!Toom3Inv, mParts, nParts
<1>5. Algebra!ResultIsProduct <=> (pc = "done" => res = product)
  <2>1. Algebra!Product = product
    BY CoefficientsOf DEF Algebra!Product, product, Poly5
  <2> QED  BY <2>1 DEF Algebra!ResultIsProduct
<1> HIDE DEF T
<1>6. Algebra!KaratsubaInv <=>
        /\ pc \in KaratsubaLabels => a2 = 0 /\ b2 = 0
        /\ pc = "karatsuba" => Val(t["r_neg1"]) = 0 /\ Val(t["r_neg2"]) = 0
        /\ pc = "z1-z2" => Products5(c0, c0 + c1 + c2, 0, 0, c2)
        /\ pc = "z1-z0" => Products5(c0, c0 + c1, 0, 0, c2)
        /\ pc = "karatsuba sum" => Products5(c0, c1, 0, 0, c2)
  BY <1>1, <1>2, PartsAt, CoefficientsOf
<1>7. Algebra!Toom3Inv <=>
        /\ pc = "multiply" => MultiplyValues
        /\ pc = "r3 = (r3 - r1) / 3"  => Products5(c0, at1, atNeg1, atNeg2, c4)
        /\ pc = "r1 = (r1 - r2) / 2"  => Products5(c0, at1, atNeg1, c2 - c1 - 3*c3 + 5*c4, c4)
        /\ pc = "r2 = r2 - r0"        => Products5(c0, c1 + c3, atNeg1, c2 - c1 - 3*c3 + 5*c4, c4)
        /\ pc = "r3 = (r2 - r3) / 2"  => Products5(c0, c1 + c3, atNeg1 - c0, c2 - c1 - 3*c3 + 5*c4, c4)
        /\ pc = "r3 = r3 + 2 rinf"    => Products5(c0, c1 + c3, atNeg1 - c0, c3 - 2*c4, c4)
        /\ pc = "r2 = r2 + r1 - rinf" => Products5(c0, c1 + c3, atNeg1 - c0, c3, 2*c4)
        /\ pc = "r1 = r1 - r3"        => Products5(c0, c1 + c3, c2, c3, c4)
        /\ pc = "toom3 sum"           => Products5(c0, c1, c2, c3, c4)
  BY <1>1, <1>3, <1>4, PartsAt, CoefficientsOf DEF MultiplyValues
<1> QED  BY <1>5, <1>6, <1>7 DEF ValuesInv

-----------------------------------------------------------------------------
(* The inductive invariant, and what it says of the parts *)

Core ==
  /\ t \in Numbers /\ Unsigned
  /\ alg \in {"karatsuba", "toom3"} /\ lenM \in Lengths /\ lenN \in Lengths
  /\ pc \in Algebra!Labels
  /\ pc # "done" => (alg = "karatsuba" <=> pc \in KaratsubaLabels)
  /\ PartsKept /\ TempsDense /\ WithinCapacity
  /\ ValuesInv

LEMMA CoreOf == TempsIInv <=> Core
BY ValuesOf DEF TempsIInv, Core, Numbers

\* The length of the frame's operands and their split.
Frame ==
  /\ t \in Numbers
  /\ alg \in {"karatsuba", "toom3"} /\ lenM \in Lengths /\ lenN \in Lengths
  /\ PartsKept

LEMMA CoreFrame == Core => Frame
BY DEF Core, Frame

LEMMA OperandsOf ==
  ASSUME Frame
  PROVE  /\ a0 \in Nat /\ a1 \in Nat /\ a2 \in Nat /\ b0 \in Nat /\ b1 \in Nat /\ b2 \in Nat
         /\ a0 < Weight(Part(lenM, 0)) /\ a1 < Weight(Part(lenM, 1)) /\ a2 < Weight(Part(lenM, 2))
         /\ b0 < Weight(Part(lenN, 0)) /\ b1 < Weight(Part(lenN, 1)) /\ b2 < Weight(Part(lenN, 2))
         /\ PartLen \in Nat /\ PartLen >= 1 /\ Weight(PartLen) \in Nat /\ Weight(PartLen) >= 1
         /\ Splits(lenM) /\ Splits(lenN)
<1>1. /\ "m0" \in Names /\ "m1" \in Names /\ "m2" \in Names
      /\ "n0" \in Names /\ "n1" \in Names /\ "n2" \in Names
  BY DEF Names, Slices
<1>2. a0 \in Nat /\ a1 \in Nat /\ a2 \in Nat /\ b0 \in Nat /\ b1 \in Nat /\ b2 \in Nat
  BY <1>1, NumbersOf, HeaderOf DEF Frame, a0, a1, a2, b0, b1, b2
<1>3. /\ a0 < Weight(Part(lenM, 0)) /\ a1 < Weight(Part(lenM, 1)) /\ a2 < Weight(Part(lenM, 2))
      /\ b0 < Weight(Part(lenN, 0)) /\ b1 < Weight(Part(lenN, 1)) /\ b2 < Weight(Part(lenN, 2))
  BY DEF Frame, PartsKept, PartKept, a0, a1, a2, b0, b1, b2
<1>4. PartLen \in Nat /\ PartLen >= 1
  BY PartLenOf DEF Frame
<1>5. Weight(PartLen) \in Nat /\ Weight(PartLen) >= 1
  BY <1>4, WeightGrows
<1>6. Splits(lenM) /\ Splits(lenN)
  BY PartOf DEF Frame
<1> QED  BY <1>2, <1>3, <1>4, <1>5, <1>6

\* Coefficients of the polynomials are natural numbers.
LEMMA CoefficientsNat ==
  ASSUME Frame
  PROVE  c0 \in Nat /\ c1 \in Nat /\ c2 \in Nat /\ c3 \in Nat /\ c4 \in Nat
<1>1. a0 \in Nat /\ a1 \in Nat /\ a2 \in Nat /\ b0 \in Nat /\ b1 \in Nat /\ b2 \in Nat
  BY OperandsOf
<1>2. c0 \in Nat /\ c4 \in Nat
  BY <1>1, NatProducts DEF c0, c4
<1>3. a0 * b1 \in Nat /\ a1 * b0 \in Nat /\ a0 * b2 \in Nat /\ a1 * b1 \in Nat /\ a2 * b0 \in Nat
      /\ a1 * b2 \in Nat /\ a2 * b1 \in Nat
  BY <1>1, NatProducts
<1>4. \A x, y, z \in Nat : x + y \in Nat /\ x + y + z \in Nat
  OBVIOUS
<1> QED  BY <1>2, <1>3, <1>4 DEF c1, c2, c3

\* The limbs of a multiple of the part length.
LEMMA WeightsOf ==
  ASSUME NEW k \in Nat, NEW w, w = Weight(k)
  PROVE  /\ Weight(2 * k) = w * w /\ Weight(3 * k) = (w * w) * w /\ Weight(4 * k) = (w * w) * (w * w)
         /\ w \in Nat /\ w * w \in Nat /\ (w * w) * w \in Nat /\ (w * w) * (w * w) \in Nat
<1>1. 2 * k = k + k /\ 3 * k = 2 * k + k /\ 4 * k = 2 * k + 2 * k /\ 2 * k \in Nat
  OBVIOUS
<1>2. Weight(k + k) = Weight(k) * Weight(k)
  BY WeightAdd
<1>3. Weight(2 * k + k) = Weight(2 * k) * Weight(k) /\ Weight(2 * k + 2 * k) = Weight(2 * k) * Weight(2 * k)
  BY <1>1, WeightAdd
<1>4. w \in Nat
  BY WeightGrows
<1> QED  BY <1>1, <1>2, <1>3, <1>4, NatProducts

LEMMA Expand ==
  ASSUME NEW a \in Nat, NEW b \in Nat, NEW c \in Nat, NEW d \in Nat, NEW e \in Nat, NEW f \in Nat
  PROVE  (a + b + c) * (d + e + f)
           = a*d + (a*e + b*d) + (a*f + b*e + c*d) + (b*f + c*e) + c*f
BY SMT

Poly3(a, b, c, w) == a + b * w + c * (w * w)

Expands(a, b, c, d, e, f, w) ==
  Poly3(a, b, c, w) * Poly3(d, e, f, w)
    = Poly5(a * d, a * e + b * d, a * f + b * e + c * d, b * f + c * e, c * f, w)

\* The polynomial at the weight is the product of the operands.
LEMMA ProductExpanded ==
  ASSUME NEW a \in Nat, NEW b \in Nat, NEW c \in Nat, NEW d \in Nat, NEW e \in Nat, NEW f \in Nat,
         NEW w \in Nat
  PROVE  Expands(a, b, c, d, e, f, w)
<1> DEFINE v == w * w  p == b * w  q == c * v  r == e * w  s == f * v
<1>0. v \in Nat
  BY NatProducts
<1> HIDE DEF v
<1>1. p \in Nat /\ q \in Nat /\ r \in Nat /\ s \in Nat
  BY <1>0, NatProducts
<1>2. (a + p + q) * (d + r + s) = a*d + (a*r + p*d) + (a*s + p*r + q*d) + (p*s + q*r) + q*s
  BY <1>1, Expand
<1>3. a*r + p*d = (a*e + b*d) * w
  BY SMT
<1>4. a*s + p*r + q*d = (a*f + b*e + c*d) * v
  <2>1. p*r = (b*e) * v
    BY SMT DEF v
  <2>2. b*e \in Nat
    BY NatProducts
  <2> QED  BY <1>0, <2>1, <2>2, SMT
<1>5. p*s + q*r = (b*f + c*e) * (v * w)
  <2>1. p*s = (b*f) * (v * w)
    BY <1>0, SMT
  <2>2. q*r = (c*e) * (v * w)
    BY <1>0, SMT
  <2>3. b*f \in Nat /\ c*e \in Nat /\ v*w \in Nat
    BY <1>0, NatProducts
  <2>4. \A x, y, z \in Nat : x*z + y*z = (x + y) * z
    OBVIOUS
  <2> QED  BY <2>1, <2>2, <2>3, <2>4
<1>6. q*s = (c*f) * (v * v)
  BY <1>0, SMT
<1>7. Poly3(a, b, c, w) = a + p + q /\ Poly3(d, e, f, w) = d + r + s
  BY DEF Poly3, v
<1>8. Poly5(a*d, a*e + b*d, a*f + b*e + c*d, b*f + c*e, c*f, w)
        = a*d + (a*e + b*d) * w + (a*f + b*e + c*d) * v + (b*f + c*e) * (v * w) + (c*f) * (v * v)
  BY DEF Poly5, v
<1> HIDE DEF p, q, r, s
<1> QED  BY <1>2, <1>3, <1>4, <1>5, <1>6, <1>7, <1>8 DEF Expands

LEMMA ProductBound ==
  ASSUME Frame, alg = "karatsuba" => a2 = 0 /\ b2 = 0
  PROVE  product \in Nat /\ product < Weight(lenM + lenN)
<1> DEFINE k == PartLen  w == Weight(PartLen)  v == w * w
           x == a0 + a1 * w + a2 * v
           y == b0 + b1 * w + b2 * v
<1>0. /\ a0 \in Nat /\ a1 \in Nat /\ a2 \in Nat /\ b0 \in Nat /\ b1 \in Nat /\ b2 \in Nat
      /\ k \in Nat /\ w \in Nat /\ v \in Nat /\ v = Weight(2 * k)
  BY OperandsOf, WeightsOf
<1>1. product = x * y
  <2>1. x = Poly3(a0, a1, a2, w) /\ y = Poly3(b0, b1, b2, w)
    BY DEF Poly3
  <2>2. Poly3(a0, a1, a2, w) * Poly3(b0, b1, b2, w)
          = Poly5(a0*b0, a0*b1 + a1*b0, a0*b2 + a1*b1 + a2*b0, a1*b2 + a2*b1, a2*b2, w)
    <3> HIDE DEF w
    <3>1. Expands(a0, a1, a2, b0, b1, b2, w)
      BY <1>0, ProductExpanded
    <3> QED  BY <3>1 DEF Expands
  <2> HIDE DEF x, y, w
  <2> QED  BY <2>1, <2>2 DEF product, c0, c1, c2, c3, c4, w
<1> HIDE DEF w, v, k
<1>2. ASSUME NEW len, len \in Nat, Splits(len), NEW p0 \in Nat, NEW p1 \in Nat, NEW p2 \in Nat,
             p0 < Weight(Part(len, 0)), p1 < Weight(Part(len, 1)), p2 < Weight(Part(len, 2)),
             alg = "karatsuba" => p2 = 0
      PROVE  p0 + p1 * w + p2 * v \in Nat /\ p0 + p1 * w + p2 * v < Weight(len)
  <2> DEFINE l0 == Part(len, 0)  l1 == Part(len, 1)  l2 == Part(len, 2)
  <2>1. /\ l0 \in Nat /\ l1 \in Nat /\ l2 \in Nat /\ l0 <= k
        /\ l0 = k \/ (l1 = 0 /\ l2 = 0)
        /\ alg = "karatsuba" => l0 + l1 = len
        /\ alg = "toom3" => /\ l1 <= k /\ (l1 = k \/ l2 = 0) /\ l0 + l1 + l2 = len
    BY <1>2 DEF Splits, k
  <2>2. p0 < Weight(l0) /\ p1 < Weight(l1) /\ p2 < Weight(l2)
    BY <1>2
  <2> HIDE DEF l0, l1, l2
  <2>3. p0 + p1 * w \in Nat /\ p0 + p1 * w < Weight(l0 + l1)
    BY <1>0, <2>1, <2>2, JoinBelow DEF w, k
  <2>4. CASE alg = "karatsuba"
    <3>1. p2 = 0 /\ p2 * v = 0 /\ l0 + l1 = len
      BY <1>0, <1>2, <2>1, <2>4
    <3> QED  BY <2>3, <3>1
  <2>5. CASE alg = "toom3"
    <3>1. 2 * k \in Nat /\ l0 + l1 \in Nat /\ (l0 + l1) + l2 = len
          /\ (l0 + l1 = 2 * k \/ (l0 + l1 <= 2 * k /\ l2 = 0))
      BY <1>0, <2>1, <2>5
    <3>2. (p0 + p1 * w) + p2 * Weight(2 * k) \in Nat /\ (p0 + p1 * w) + p2 * Weight(2 * k) < Weight((l0 + l1) + l2)
      BY <2>1, <2>2, <2>3, <3>1, JoinBelow
    <3> QED  BY <1>0, <3>1, <3>2
  <2> QED  BY <2>4, <2>5 DEF Frame
<1>3. lenM \in Nat /\ lenN \in Nat
  BY LongerOf DEF Frame
<1>4. x \in Nat /\ x < Weight(lenM)
  BY <1>2, <1>3, OperandsOf
<1>5. y \in Nat /\ y < Weight(lenN)
  BY <1>2, <1>3, OperandsOf
<1> QED  BY <1>1, <1>3, <1>4, <1>5, ProductBelow

-----------------------------------------------------------------------------
(* The temporaries and the magnitudes they get *)

LEMMA Toom3Capacities ==
  ASSUME Frame, alg = "toom3"
  PROVE  /\ Capacity("p_outer") = PartLen + 1 /\ Capacity("q_outer") = PartLen + 1
         /\ Capacity("p_neg1") = PartLen + 1 /\ Capacity("q_neg1") = PartLen + 1
         /\ Capacity("p1") = PartLen + 2 /\ Capacity("q1") = PartLen + 2 /\ Capacity("p_neg2") = PartLen + 2
         /\ Capacity("q_neg2") = lenM + lenN /\ lenM + lenN \in Nat /\ lenM + lenN >= PartLen + 2
         /\ Capacity("r_neg1") = 2 * PartLen + 7 /\ Capacity("r_neg2") = 2 * PartLen + 7
         /\ Capacity("r1") = 2 * PartLen + 8 /\ Capacity("r0") = 2 * PartLen
         /\ Capacity("rinf") = Part(lenM, 2) + Part(lenN, 2) + 1
<1>1. /\ Capacity("p_outer") = PartLen + 1 /\ Capacity("q_outer") = PartLen + 1
      /\ Capacity("p_neg1") = PartLen + 1 /\ Capacity("q_neg1") = PartLen + 1
      /\ Capacity("p1") = PartLen + 2 /\ Capacity("q1") = PartLen + 2 /\ Capacity("p_neg2") = PartLen + 2
      /\ Capacity("q_neg2") = lenM + lenN
      /\ Capacity("r_neg1") = 2 * PartLen + 7 /\ Capacity("r_neg2") = 2 * PartLen + 7
      /\ Capacity("r1") = 2 * PartLen + 8 /\ Capacity("r0") = 2 * PartLen
      /\ Capacity("rinf") = Part(lenM, 2) + Part(lenN, 2) + 1
  BY DEF Capacity
<1>2. /\ lenM \in Nat /\ lenN \in Nat /\ lenM >= 2 /\ lenN >= 2 /\ Longer \in {lenM, lenN}
      /\ PartLen \in Nat /\ PartLen >= 1 /\ 3 * PartLen <= Longer + 2
  BY LongerOf, PartLenOf DEF Frame
<1>3. lenM + lenN \in Nat /\ lenM + lenN >= PartLen + 2
  BY <1>2
<1> QED  BY <1>1, <1>3

LEMMA KaratsubaCapacities ==
  ASSUME Frame, alg = "karatsuba"
  PROVE  /\ Capacity("p1") = Larger(Part(lenM, 0), Part(lenM, 1)) + 1
         /\ Capacity("q1") = Larger(Part(lenN, 0), Part(lenN, 1)) + 1
         /\ Capacity("r0") = lenM + lenN
         /\ Capacity("r1") = Capacity("p1") + Capacity("q1")
         /\ Capacity("rinf") = Part(lenM, 1) + Part(lenN, 1)
BY DEF Capacity

\* The temporaries while a frame computes: the parts are as they were, the
\* others have no leading zeros and are within their limbs.
Good(s) ==
  /\ s \in Numbers
  /\ \A x \in Slices : s[x] = t[x]
  /\ \A x \in Temps : s[x].hi <= Capacity(x)
  /\ \A x \in Temps : Dense(s[x]) \/ (alg = "karatsuba" /\ x \in {"p1", "q1"})

LEMMA GoodNow == Core => Good(t)
BY DEF Core, Good, WithinCapacity, TempsDense

LEMMA NamesApart == Slices \subseteq Names /\ Temps \subseteq Names /\ \A x \in Temps : x \notin Slices
BY DEF Names, Slices, Temps

LEMMA GoodStep ==
  ASSUME NEW s, NEW s1, NEW r \in Temps, Good(s), Changes(s, r, s1), s1[r].hi <= Capacity(r),
         Dense(s1[r]) \/ (alg = "karatsuba" /\ r \in {"p1", "q1"})
  PROVE  Good(s1)
<1>1. s1 \in Numbers
  BY DEF Changes
<1>2. ASSUME NEW x \in Slices PROVE s1[x] = t[x]
  BY NamesApart DEF Good, Changes
<1>3. ASSUME NEW x \in Temps
      PROVE  s1[x].hi <= Capacity(x) /\ (Dense(s1[x]) \/ (alg = "karatsuba" /\ x \in {"p1", "q1"}))
  BY NamesApart DEF Good, Changes
<1> QED  BY <1>1, <1>2, <1>3 DEF Good

\* A temporary of Toom-3, and what it stands for.
LEMMA HoldsOf ==
  ASSUME NEW s, Good(s), NEW x \in Temps, alg = "toom3" \/ x \notin {"p1", "q1"}
  PROVE  Holds(s[x], Val(s[x])) /\ Val(s[x]) \in Int /\ s[x].hi <= Capacity(x)
<1>1. s[x] \in Header
  BY NamesApart, NumbersOf DEF Good
<1> QED  BY <1>1, HeaderOf DEF Holds, Good

\* The parts of Toom-3 fit a part's limbs, with no zero on top.
LEMMA Toom3Parts ==
  ASSUME Frame, alg = "toom3", NEW w, w = Weight(PartLen)
  PROVE  /\ a0 < w /\ a1 < w /\ a2 < w /\ b0 < w /\ b1 < w /\ b2 < w
         /\ \A x \in Slices : t[x] \in Header /\ Dense(t[x]) /\ t[x].sign = 1 /\ t[x].n <= PartLen
<1>1. /\ Part(lenM, 0) <= PartLen /\ Part(lenM, 1) <= PartLen /\ Part(lenM, 2) <= PartLen
      /\ Part(lenN, 0) <= PartLen /\ Part(lenN, 1) <= PartLen /\ Part(lenN, 2) <= PartLen
      /\ Part(lenM, 0) \in Nat /\ Part(lenM, 1) \in Nat /\ Part(lenM, 2) \in Nat
      /\ Part(lenN, 0) \in Nat /\ Part(lenN, 1) \in Nat /\ Part(lenN, 2) \in Nat
      /\ PartLen \in Nat
  BY OperandsOf DEF Splits
<1>2. /\ Weight(Part(lenM, 0)) <= w /\ Weight(Part(lenM, 1)) <= w /\ Weight(Part(lenM, 2)) <= w
      /\ Weight(Part(lenN, 0)) <= w /\ Weight(Part(lenN, 1)) <= w /\ Weight(Part(lenN, 2)) <= w
      /\ Weight(Part(lenM, 0)) \in Nat /\ Weight(Part(lenM, 1)) \in Nat /\ Weight(Part(lenM, 2)) \in Nat
      /\ Weight(Part(lenN, 0)) \in Nat /\ Weight(Part(lenN, 1)) \in Nat /\ Weight(Part(lenN, 2)) \in Nat
      /\ w \in Nat
  BY <1>1, WeightMonotone
<1>3. a0 < w /\ a1 < w /\ a2 < w /\ b0 < w /\ b1 < w /\ b2 < w
  BY <1>2, OperandsOf
<1>4. \A x \in Slices : t[x] \in Header
  BY NamesApart, NumbersOf DEF Frame
<1>5. \A x \in Slices : Dense(t[x]) /\ t[x].sign = 1 /\ t[x].n <= PartLen
  BY <1>1 DEF Frame, PartsKept, PartKept, Slices
<1> QED  BY <1>3, <1>4, <1>5

\* Coefficients below a few times the weight of two parts.
LEMMA Toom3Bounds ==
  ASSUME Frame, alg = "toom3", NEW u, u = Weight(2 * PartLen)
  PROVE  /\ u \in Nat /\ u >= 1
         /\ c0 < u /\ c1 < 2 * u /\ c2 < 3 * u /\ c3 < 2 * u /\ c4 < u
         /\ \A c \in Nat : c >= 2 * PartLen + 7 => Weight(c) \in Nat /\ Weight(c) >= 64 * u
<1> DEFINE k == PartLen  w == Weight(PartLen)
<1>1. /\ a0 < w /\ a1 < w /\ a2 < w /\ b0 < w /\ b1 < w /\ b2 < w
      /\ a0 \in Nat /\ a1 \in Nat /\ a2 \in Nat /\ b0 \in Nat /\ b1 \in Nat /\ b2 \in Nat /\ k \in Nat
  BY Toom3Parts, OperandsOf
<1>2. u \in Nat /\ u >= 1 /\ 2 * k = k + k
  BY <1>1, WeightGrows
<1>3. \A x, y \in Nat : x < w /\ y < w => x * y \in Nat /\ x * y < u
  <2>1. ASSUME NEW x \in Nat, NEW y \in Nat, x < w, y < w PROVE x * y \in Nat /\ x * y < u
    <3>1. x * y \in Nat /\ x * y < Weight(k + k)
      BY <1>1, <2>1, ProductBelow
    <3> QED  BY <1>2, <3>1
  <2> QED  BY <2>1
<1> DEFINE d0 == a0 * b1  d1 == a1 * b0  d2 == a0 * b2  d3 == a1 * b1  d4 == a2 * b0
           d5 == a1 * b2  d6 == a2 * b1
<1>4. c0 < u /\ c4 < u
  BY <1>1, <1>3 DEF c0, c4
<1>5. /\ d0 \in Nat /\ d0 < u /\ d1 \in Nat /\ d1 < u /\ d2 \in Nat /\ d2 < u /\ d3 \in Nat /\ d3 < u
      /\ d4 \in Nat /\ d4 < u /\ d5 \in Nat /\ d5 < u /\ d6 \in Nat /\ d6 < u
  BY <1>1, <1>3
<1>6. c1 = d0 + d1 /\ c2 = d2 + d3 + d4 /\ c3 = d5 + d6
  BY DEF c1, c2, c3
<1> HIDE DEF d0, d1, d2, d3, d4, d5, d6
<1>7. c1 < 2 * u /\ c2 < 3 * u /\ c3 < 2 * u
  BY <1>2, <1>5, <1>6
<1>8. ASSUME NEW c \in Nat, c >= 2 * k + 7 PROVE Weight(c) \in Nat /\ Weight(c) >= 64 * u
  <2>1. 2 * k \in Nat /\ (2 * k) + 1 \in Nat /\ ((2 * k) + 1) + 1 \in Nat /\ (((2 * k) + 1) + 1) + 1 \in Nat
        /\ (((2 * k) + 1) + 1) + 1 <= c
    BY <1>1, <1>8
  <2>2. Weight((2 * k) + 1) \in Nat /\ Weight((2 * k) + 1) >= 4 * u
    BY <2>1, WeightStep
  <2>3. Weight(((2 * k) + 1) + 1) \in Nat /\ Weight(((2 * k) + 1) + 1) >= 4 * Weight((2 * k) + 1)
    BY <2>1, WeightStep
  <2>4. Weight((((2 * k) + 1) + 1) + 1) \in Nat /\ Weight((((2 * k) + 1) + 1) + 1) >= 4 * Weight(((2 * k) + 1) + 1)
    BY <2>1, WeightStep
  <2>5. Weight(c) \in Nat /\ Weight(c) >= Weight((((2 * k) + 1) + 1) + 1)
    BY <2>1, WeightMonotone
  <2> QED  BY <1>2, <2>2, <2>3, <2>4, <2>5
<1> QED  BY <1>2, <1>4, <1>7, <1>8

-----------------------------------------------------------------------------
(* What a step leaves alone *)

\* The step keeps the parts and the shape of the frame.
Framed == (\A x \in Slices : t'[x] = t[x]) /\ UNCHANGED <<alg, lenM, lenN>>

LEMMA ShapeSame ==
  ASSUME Framed
  PROVE  /\ PartLen' = PartLen /\ Weight(PartLen)' = Weight(PartLen)
         /\ \A i \in 0 .. 2 : Part(lenM, i)' = Part(lenM, i) /\ Part(lenN, i)' = Part(lenN, i)
         /\ \A x \in Temps : Capacity(x)' = Capacity(x)
<1>1. PartLen' = PartLen
  BY DEF PartLen, Longer, Framed
<1>2. Weight(PartLen)' = Weight(PartLen)
  BY <1>1
<1>3. \A i \in 0 .. 2 : Part(lenM, i)' = Part(lenM, i) /\ Part(lenN, i)' = Part(lenN, i)
  BY <1>1 DEF Part, Framed
<1>4. \A x \in Temps : Capacity(x)' = Capacity(x)
  BY <1>1 DEF Capacity, Part, Framed
<1> QED  BY <1>1, <1>2, <1>3, <1>4

LEMMA PartsSame ==
  ASSUME Framed
  PROVE  /\ a0' = a0 /\ a1' = a1 /\ a2' = a2 /\ b0' = b0 /\ b1' = b1 /\ b2' = b2
         /\ c0' = c0 /\ c1' = c1 /\ c2' = c2 /\ c3' = c3 /\ c4' = c4
         /\ mParts' = mParts /\ nParts' = nParts /\ product' = product
         /\ at1' = at1 /\ atNeg1' = atNeg1 /\ atNeg2' = atNeg2
<1>1. /\ t'["m0"] = t["m0"] /\ t'["m1"] = t["m1"] /\ t'["m2"] = t["m2"]
      /\ t'["n0"] = t["n0"] /\ t'["n1"] = t["n1"] /\ t'["n2"] = t["n2"]
  BY DEF Framed, Slices
<1>2. a0' = a0 /\ a1' = a1 /\ a2' = a2 /\ b0' = b0 /\ b1' = b1 /\ b2' = b2
  BY <1>1 DEF a0, a1, a2, b0, b1, b2
<1>3. c0' = c0 /\ c1' = c1 /\ c2' = c2 /\ c3' = c3 /\ c4' = c4
  BY <1>2 DEF c0, c1, c2, c3, c4
<1>4. \A i \in 0 .. 2 : t'[<<"m0", "m1", "m2">>[i + 1]].mag = t[<<"m0", "m1", "m2">>[i + 1]].mag
  <2>1. \A i \in 0 .. 2 : i = 0 \/ i = 1 \/ i = 2
    OBVIOUS
  <2> QED  BY <1>1, <2>1
<1>5. \A i \in 0 .. 2 : t'[<<"n0", "n1", "n2">>[i + 1]].mag = t[<<"n0", "n1", "n2">>[i + 1]].mag
  <2>1. \A i \in 0 .. 2 : i = 0 \/ i = 1 \/ i = 2
    OBVIOUS
  <2> QED  BY <1>1, <2>1
<1>6. mParts' = mParts /\ nParts' = nParts
  BY <1>4, <1>5 DEF mParts, nParts
<1>7. product' = product
  BY <1>3, ShapeSame DEF product
<1>8. at1' = at1 /\ atNeg1' = atNeg1 /\ atNeg2' = atNeg2
  BY <1>3 DEF at1, atNeg1, atNeg2
<1> QED  BY <1>2, <1>3, <1>6, <1>7, <1>8

\* The invariant after a step, but for the values.
LEMMA GoodNext ==
  ASSUME Core, NEW s, Good(s), t' = s, UNCHANGED <<alg, lenM, lenN>>,
         pc' \in Algebra!Labels, pc' # "done" => (alg = "karatsuba" <=> pc' \in KaratsubaLabels),
         s["r0"].sign = 1,
         pc' = "multiply" => \A x \in {"r1", "r_neg1", "r_neg2", "rinf"} : s[x].sign = 1,
         pc' \notin {"karatsuba", "toom3"},
         ValuesInv'
  PROVE  Core' /\ Framed
<1>1. Framed
  BY DEF Framed, Good
<1>2. t' \in Numbers /\ Unsigned'
  BY DEF Good, Unsigned
<1>3. PartsKept'
  <2>1. \A i \in 0 .. 2 : Part(lenM, i)' = Part(lenM, i) /\ Part(lenN, i)' = Part(lenN, i)
    BY <1>1, ShapeSame
  <2>2. /\ Part(lenM, 0)' = Part(lenM, 0) /\ Part(lenN, 0)' = Part(lenN, 0)
        /\ Part(lenM, 1)' = Part(lenM, 1) /\ Part(lenN, 1)' = Part(lenN, 1)
        /\ Part(lenM, 2)' = Part(lenM, 2) /\ Part(lenN, 2)' = Part(lenN, 2)
    BY <2>1
  <2>3. /\ t'["m0"] = t["m0"] /\ t'["m1"] = t["m1"] /\ t'["m2"] = t["m2"]
        /\ t'["n0"] = t["n0"] /\ t'["n1"] = t["n1"] /\ t'["n2"] = t["n2"]
    BY <1>1 DEF Framed, Slices
  <2> QED  BY <2>2, <2>3 DEF Core, PartsKept, PartKept
<1>4. TempsDense'
  BY DEF Good, TempsDense
<1>5. WithinCapacity'
  BY <1>1, ShapeSame DEF Good, WithinCapacity
<1> QED  BY <1>1, <1>2, <1>3, <1>4, <1>5 DEF Core

\* The operands of the algebra stay what they are.
LEMMA AlgebraFrame ==
  ASSUME Framed
  PROVE  UNCHANGED Algebra!operands
<1>1. Algebra!operands = <<mParts, nParts, Weight(PartLen)>>
  BY DEF Algebra!operands, mParts, nParts
<1>2. Algebra!operands' = <<mParts', nParts', Weight(PartLen)'>>
  BY DEF Algebra!operands, mParts, nParts
<1> QED  BY <1>1, <1>2, PartsSame, ShapeSame

-----------------------------------------------------------------------------
(* The kernels of the interpolation *)

\* What fits the temporaries of the evaluated products, with room for signs.
Small(v) == v \in Int /\ -(64 * Weight(2 * PartLen)) < v /\ v < 64 * Weight(2 * PartLen)

Evaluated == {"r1", "r_neg1", "r_neg2"}

LEMMA EvaluatedFits ==
  ASSUME Frame, alg = "toom3", NEW r \in Evaluated
  PROVE  /\ r \in Temps /\ Capacity(r) \in Nat
         /\ \A v : Small(v) => v \in Int /\ Abs(v) < Weight(Capacity(r))
<1>1. Capacity(r) \in Nat /\ Capacity(r) >= 2 * PartLen + 7
  BY Toom3Capacities, OperandsOf DEF Evaluated
<1> DEFINE u == Weight(2 * PartLen)
<1>2. u \in Nat /\ Weight(Capacity(r)) \in Nat /\ Weight(Capacity(r)) >= 64 * u
  BY <1>1, Toom3Bounds
<1>3. \A v : Small(v) => v \in Int /\ -(64 * u) < v /\ v < 64 * u
  BY DEF Small
<1> HIDE DEF u
<1>4. \A v : Small(v) => v \in Int /\ Abs(v) < Weight(Capacity(r))
  BY <1>2, <1>3 DEF Abs
<1> QED  BY <1>1, <1>4 DEF Evaluated, Temps

\* r gets the value v, the other temporaries keep theirs.
Gets(s, r, s1, v) == Good(s1) /\ Val(s1[r]) = v /\ \A z \in Names : z # r => s1[z] = s[z]

LEMMA GetsOf ==
  ASSUME NEW s, NEW s1, NEW r \in Temps, NEW v, Good(s), Changes(s, r, s1), Holds(s1[r], v),
         s1[r].hi <= Capacity(r)
  PROVE  Gets(s, r, s1, v)
<1>1. Dense(s1[r]) /\ Val(s1[r]) = v
  BY DEF Holds
<1>2. Good(s1)
  BY <1>1, GoodStep
<1> QED  BY <1>1, <1>2 DEF Gets, Changes

LEMMA GoodSub ==
  ASSUME Frame, alg = "toom3", NEW s, Good(s), NEW r \in Evaluated, NEW x \in Temps, NEW y \in Temps,
         Small(Val(s[x])), Small(Val(s[y])), Small(Val(s[x]) - Val(s[y]))
  PROVE  Gets(s, r, SubSAW(s, r, x, y), Val(s[x]) - Val(s[y]))
<1> DEFINE v == Val(s[x])  w == Val(s[y])  s1 == SubSAW(s, r, x, y)
<1>1. /\ r \in Temps /\ Capacity(r) \in Nat /\ v \in Int /\ w \in Int
      /\ Abs(v) < Weight(Capacity(r)) /\ Abs(w) < Weight(Capacity(r)) /\ Abs(v - w) < Weight(Capacity(r))
  BY EvaluatedFits
<1>2. s \in Numbers /\ Holds(s[x], v) /\ Holds(s[y], w) /\ s[r].hi <= Capacity(r)
  BY <1>1, HoldsOf DEF Good
<1>3. r \in Names /\ x \in Names /\ y \in Names
  BY <1>1, NamesApart
<1> HIDE DEF v, w
<1>4. Changes(s, r, s1) /\ Holds(s1[r], v - w) /\ s1[r].hi <= Capacity(r)
  BY <1>1, <1>2, <1>3, SubSAWOf
<1> HIDE DEF s1
<1>5. Gets(s, r, s1, v - w)
  BY <1>1, <1>4, GetsOf
<1> QED  BY <1>5 DEF v, w, s1

LEMMA GoodAdd ==
  ASSUME Frame, alg = "toom3", NEW s, Good(s), NEW r \in Evaluated, NEW x \in Temps, NEW y \in Temps,
         Small(Val(s[x])), Small(Val(s[y])), Small(Val(s[x]) + Val(s[y]))
  PROVE  Gets(s, r, AddSAW(s, r, x, y), Val(s[x]) + Val(s[y]))
<1> DEFINE v == Val(s[x])  w == Val(s[y])  s1 == AddSAW(s, r, x, y)
<1>1. /\ r \in Temps /\ Capacity(r) \in Nat /\ v \in Int /\ w \in Int
      /\ Abs(v) < Weight(Capacity(r)) /\ Abs(w) < Weight(Capacity(r)) /\ Abs(v + w) < Weight(Capacity(r))
  BY EvaluatedFits
<1>2. s \in Numbers /\ Holds(s[x], v) /\ Holds(s[y], w) /\ s[r].hi <= Capacity(r)
  BY <1>1, HoldsOf DEF Good
<1>3. r \in Names /\ x \in Names /\ y \in Names
  BY <1>1, NamesApart
<1> HIDE DEF v, w
<1>4. Changes(s, r, s1) /\ Holds(s1[r], v + w) /\ s1[r].hi <= Capacity(r)
  BY <1>1, <1>2, <1>3, AddSAWOf
<1> HIDE DEF s1
<1>5. Gets(s, r, s1, v + w)
  BY <1>1, <1>4, GetsOf
<1> QED  BY <1>5 DEF v, w, s1

LEMMA GoodThird ==
  ASSUME Frame, alg = "toom3", NEW s, Good(s), NEW r \in Evaluated, NEW v \in Int,
         Val(s[r]) = 3 * v, Small(3 * v)
  PROVE  Gets(s, r, Div3(s, r), v)
<1> DEFINE s1 == Div3(s, r)
<1>1. r \in Temps /\ Capacity(r) \in Nat /\ Abs(3 * v) < Weight(Capacity(r))
  BY EvaluatedFits
<1>2. s \in Numbers /\ Holds(s[r], 3 * v) /\ s[r].hi <= Capacity(r) /\ r \in Names
  BY <1>1, HoldsOf, NamesApart DEF Good
<1>3. Changes(s, r, s1) /\ Holds(s1[r], v) /\ s1[r].hi <= Capacity(r)
  BY <1>1, <1>2, Div3Of
<1> HIDE DEF s1
<1>4. Gets(s, r, s1, v)
  BY <1>1, <1>3, GetsOf
<1> QED  BY <1>4 DEF s1

LEMMA GoodHalf ==
  ASSUME Frame, alg = "toom3", NEW s, Good(s), NEW r \in Temps, NEW v \in Int,
         Val(s[r]) = 2 * v, Capacity(r) \in Nat, Abs(2 * v) < Weight(Capacity(r))
  PROVE  Gets(s, r, RShift1(s, r), v)
<1> DEFINE s1 == RShift1(s, r)
<1>2. s \in Numbers /\ Holds(s[r], 2 * v) /\ s[r].hi <= Capacity(r) /\ r \in Names
  BY HoldsOf, NamesApart DEF Good
<1>3. Changes(s, r, s1) /\ Holds(s1[r], v) /\ s1[r].hi <= Capacity(r)
  BY <1>2, RShift1Of
<1> HIDE DEF s1
<1>4. Gets(s, r, s1, v)
  BY <1>3, GetsOf
<1> QED  BY <1>4 DEF s1

LEMMA GoodDouble ==
  ASSUME Frame, alg = "toom3", NEW s, Good(s), NEW r \in Temps, NEW v \in Int,
         Val(s[r]) = v, Capacity(r) \in Nat, Abs(2 * v) < Weight(Capacity(r))
  PROVE  Gets(s, r, LShift1(s, r), 2 * v)
<1> DEFINE s1 == LShift1(s, r)
<1>2. s \in Numbers /\ Holds(s[r], v) /\ s[r].hi <= Capacity(r) /\ r \in Names
  BY HoldsOf, NamesApart DEF Good
<1>3. Changes(s, r, s1) /\ Holds(s1[r], 2 * v) /\ s1[r].hi <= Capacity(r)
  BY <1>2, LShift1Of
<1> HIDE DEF s1
<1>4. Gets(s, r, s1, 2 * v)
  BY <1>3, GetsOf
<1> QED  BY <1>4 DEF s1

LEMMA AlgebraThird == \A v \in Int : Algebra!Div3(3 * v) = v
BY DEF Algebra!Div3, Algebra!Sgn, Algebra!Mag
LEMMA AlgebraHalf == \A v \in Int : Algebra!Halve(2 * v) = v
BY DEF Algebra!Halve, Algebra!Sgn, Algebra!Mag

LEMMA SmallOf ==
  ASSUME Frame, alg = "toom3", NEW u, u = Weight(2 * PartLen)
  PROVE  /\ u \in Nat /\ u >= 1
         /\ c0 \in Nat /\ c1 \in Nat /\ c2 \in Nat /\ c3 \in Nat /\ c4 \in Nat
         /\ c0 < u /\ c1 < 2 * u /\ c2 < 3 * u /\ c3 < 2 * u /\ c4 < u
         /\ \A v \in Int : -(64 * u) < v /\ v < 64 * u => Small(v)
BY Toom3Bounds, CoefficientsNat DEF Small

-----------------------------------------------------------------------------
(* The steps of the interpolation *)

LEMMA Toom3Label ==
  ASSUME Core, pc \notin KaratsubaLabels, pc # "done"
  PROVE  alg = "toom3" /\ Frame /\ Good(t) /\ t["r0"].sign = 1
BY CoreFrame, GoodNow DEF Core, Unsigned

Points == {"p1", "q1", "p_neg1", "q_neg1", "p_neg2", "q_neg2"}

LEMMA PointsSame ==
  ASSUME \A x \in Points : t'[x] = t[x]
  PROVE  UNCHANGED Algebra!points
BY DEF Points, Algebra!points, Val

LEMMA FramedOf ==
  ASSUME NEW s, Good(s), t' = s, UNCHANGED <<alg, lenM, lenN>>
  PROVE  Framed
BY DEF Good, Framed

LEMMA Interpolate1Step == Core /\ Interpolate1 => Core' /\ Algebra!Interpolate1
<1> SUFFICES ASSUME Core, Interpolate1 PROVE Core' /\ Algebra!Interpolate1
  OBVIOUS
<1> DEFINE s1 == SubSAW(t, "r_neg2", "r_neg2", "r1")
           s2 == Div3(s1, "r_neg2")
           v == c2 - c1 - 3*c3 + 5*c4
<1>1. /\ pc = "r3 = (r3 - r1) / 3" /\ pc' = "r1 = (r1 - r2) / 2" /\ t' = s2
      /\ UNCHANGED <<alg, lenM, lenN>> /\ UNCHANGED res
  BY DEF Interpolate1, TempsStep
<1>2. alg = "toom3" /\ Frame /\ Good(t) /\ t["r0"].sign = 1
  BY <1>1, Toom3Label DEF KaratsubaLabels
<1>3. Products5(c0, at1, atNeg1, atNeg2, c4)
  BY <1>1 DEF Core, ValuesInv
<1>4. /\ Small(at1) /\ Small(atNeg2) /\ Small(atNeg2 - at1) /\ atNeg2 - at1 = 3 * v /\ v \in Int
  BY <1>2, SmallOf DEF at1, atNeg2
<1> HIDE DEF v
<1>5. Gets(t, "r_neg2", s1, 3 * v)
  BY <1>2, <1>3, <1>4, GoodSub DEF Products5, Evaluated, Temps
<1>6. Gets(s1, "r_neg2", s2, v)
  <2> HIDE DEF s1
  <2> QED  BY <1>2, <1>4, <1>5, GoodThird DEF Gets, Evaluated
<1> HIDE DEF s1, s2
<1>7. /\ Good(t') /\ Val(t'["r_neg2"]) = v
      /\ \A z \in Names : z # "r_neg2" => t'[z] = t[z]
  BY <1>1, <1>5, <1>6 DEF Gets
<1>8. Framed
  BY <1>1, <1>7, FramedOf
<1>9. /\ t'["r0"] = t["r0"] /\ t'["r1"] = t["r1"] /\ t'["r_neg1"] = t["r_neg1"] /\ t'["rinf"] = t["rinf"]
      /\ \A x \in Points : t'[x] = t[x]
  BY <1>7 DEF Names, Temps, Points
<1>10. ValuesInv'
  <2>1. Products5(c0, at1, atNeg1, v, c4)'
    BY <1>3, <1>7, <1>8, <1>9, PartsSame DEF Products5, v
  <2> QED  BY <1>1, <2>1 DEF ValuesInv, KaratsubaLabels, v
<1>11. Core'
  BY <1>1, <1>2, <1>7, <1>9, <1>10, GoodNext DEF Algebra!Labels, KaratsubaLabels
<1>12. Algebra!Interpolate1
  <2>1. Val(t'["r_neg2"]) = Algebra!Div3(Val(t["r_neg2"]) - Val(t["r1"]))
    BY <1>3, <1>4, <1>7, AlgebraThird DEF Products5
  <2>2. UNCHANGED Algebra!operands /\ UNCHANGED Algebra!points
    BY <1>8, <1>9, AlgebraFrame, PointsSame
  <2> QED  BY <1>1, <1>9, <2>1, <2>2 DEF Algebra!Interpolate1, Algebra!Step, Algebra!Goto
<1> QED  BY <1>11, <1>12

\* The highest product fits its limbs when it is shifted left by one bit.
LEMMA RinfFits ==
  ASSUME Frame, alg = "toom3"
  PROVE  Capacity("rinf") \in Nat /\ Abs(2 * c4) < Weight(Capacity("rinf")) /\ c4 \in Int
<1> DEFINE l == Part(lenM, 2) + Part(lenN, 2)
<1>1. Part(lenM, 2) \in Nat /\ Part(lenN, 2) \in Nat
  BY OperandsOf DEF Splits
<1>2. a2 \in Nat /\ b2 \in Nat /\ a2 < Weight(Part(lenM, 2)) /\ b2 < Weight(Part(lenN, 2))
  BY OperandsOf
<1>3. c4 \in Nat /\ c4 < Weight(l)
  BY <1>1, <1>2, ProductBelow DEF c4
<1>4. l \in Nat /\ Capacity("rinf") = l + 1
  BY <1>1, Toom3Capacities
<1> HIDE DEF l
<1>5. Weight(l) \in Nat /\ Weight(l + 1) \in Nat /\ Weight(l + 1) >= 4 * Weight(l)
  BY <1>4, WeightStep
<1> QED  BY <1>3, <1>4, <1>5 DEF Abs

LEMMA Interpolate2Step == Core /\ Interpolate2 => Core' /\ Algebra!Interpolate2
<1> SUFFICES ASSUME Core, Interpolate2 PROVE Core' /\ Algebra!Interpolate2
  OBVIOUS
<1> DEFINE s1 == SubSAW(t, "r1", "r1", "r_neg1")
           s2 == RShift1(s1, "r1")
           v == c1 + c3
<1>1. /\ pc = "r1 = (r1 - r2) / 2" /\ pc' = "r2 = r2 - r0" /\ t' = s2
      /\ UNCHANGED <<alg, lenM, lenN>> /\ UNCHANGED res
  BY DEF Interpolate2, TempsStep
<1>2. alg = "toom3" /\ Frame /\ Good(t) /\ t["r0"].sign = 1
  BY <1>1, Toom3Label DEF KaratsubaLabels
<1>3. Products5(c0, at1, atNeg1, c2 - c1 - 3*c3 + 5*c4, c4)
  BY <1>1 DEF Core, ValuesInv
<1>4. Small(at1) /\ Small(atNeg1) /\ Small(at1 - atNeg1) /\ at1 - atNeg1 = 2 * v /\ v \in Int
  BY <1>2, SmallOf DEF at1, atNeg1
<1> HIDE DEF v
<1>5. Gets(t, "r1", s1, 2 * v)
  BY <1>2, <1>3, <1>4, GoodSub DEF Products5, Evaluated, Temps
<1>6. Gets(s1, "r1", s2, v)
  <2> HIDE DEF s1
  <2> QED  BY <1>2, <1>3, <1>4, <1>5, GoodHalf, EvaluatedFits DEF Gets, Products5, Evaluated, Temps, Names
<1> HIDE DEF s1, s2
<1>7. /\ Good(t') /\ Val(t'["r1"]) = v
      /\ \A z \in Names : z # "r1" => t'[z] = t[z]
  BY <1>1, <1>5, <1>6 DEF Gets, Names, Temps
<1>8. Framed
  BY <1>1, <1>7, FramedOf
<1>9. /\ t'["r0"] = t["r0"] /\ t'["r_neg1"] = t["r_neg1"] /\ t'["r_neg2"] = t["r_neg2"] /\ t'["rinf"] = t["rinf"]
      /\ \A x \in Points : t'[x] = t[x]
  BY <1>7 DEF Names, Temps, Points
<1>10. ValuesInv'
  <2>1. Products5(c0, v, atNeg1, c2 - c1 - 3*c3 + 5*c4, c4)'
    BY <1>3, <1>4, <1>7, <1>8, <1>9, PartsSame DEF Products5, v
  <2> QED  BY <1>1, <2>1 DEF ValuesInv, KaratsubaLabels, v
<1>11. Core'
  BY <1>1, <1>2, <1>7, <1>9, <1>10, GoodNext DEF Algebra!Labels, KaratsubaLabels
<1>12. Algebra!Interpolate2
  <2>1. Val(t'["r1"]) = Algebra!Halve(Val(t["r1"]) - Val(t["r_neg1"]))
    BY <1>3, <1>4, <1>7, AlgebraHalf DEF Products5
  <2>2. UNCHANGED Algebra!operands /\ UNCHANGED Algebra!points
    BY <1>8, <1>9, AlgebraFrame, PointsSame
  <2> QED  BY <1>1, <1>9, <2>1, <2>2 DEF Algebra!Interpolate2, Algebra!Step, Algebra!Goto
<1> QED  BY <1>11, <1>12

LEMMA Interpolate3Step == Core /\ Interpolate3 => Core' /\ Algebra!Interpolate3
<1> SUFFICES ASSUME Core, Interpolate3 PROVE Core' /\ Algebra!Interpolate3
  OBVIOUS
<1> DEFINE s1 == SubSAW(t, "r_neg1", "r_neg1", "r0")
<1>1. /\ pc = "r2 = r2 - r0" /\ pc' = "r3 = (r2 - r3) / 2" /\ t' = s1
      /\ UNCHANGED <<alg, lenM, lenN>> /\ UNCHANGED res
  BY DEF Interpolate3, TempsStep
<1>2. alg = "toom3" /\ Frame /\ Good(t) /\ t["r0"].sign = 1
  BY <1>1, Toom3Label DEF KaratsubaLabels
<1>3. Products5(c0, c1 + c3, atNeg1, c2 - c1 - 3*c3 + 5*c4, c4)
  BY <1>1 DEF Core, ValuesInv
<1>4. Small(atNeg1) /\ Small(c0) /\ Small(atNeg1 - c0)
  BY <1>2, SmallOf DEF atNeg1
<1>5. Gets(t, "r_neg1", s1, atNeg1 - c0)
  BY <1>2, <1>3, <1>4, GoodSub DEF Products5, Evaluated, Temps
<1> HIDE DEF s1
<1>6. /\ Good(t') /\ Val(t'["r_neg1"]) = atNeg1 - c0
      /\ \A z \in Names : z # "r_neg1" => t'[z] = t[z]
  BY <1>1, <1>5 DEF Gets, Names, Temps
<1>7. Framed
  BY <1>1, <1>6, FramedOf
<1>8. /\ t'["r0"] = t["r0"] /\ t'["r1"] = t["r1"] /\ t'["r_neg2"] = t["r_neg2"] /\ t'["rinf"] = t["rinf"]
      /\ \A z \in Points : t'[z] = t[z]
  BY <1>6 DEF Names, Temps, Points
<1>9. ValuesInv'
  <2>1. Products5(c0, c1 + c3, atNeg1 - c0, c2 - c1 - 3*c3 + 5*c4, c4)'
    BY <1>3, <1>4, <1>6, <1>7, <1>8, PartsSame DEF Products5
  <2> QED  BY <1>1, <2>1 DEF ValuesInv, KaratsubaLabels
<1>10. Core'
  BY <1>1, <1>2, <1>6, <1>8, <1>9, GoodNext DEF Algebra!Labels, KaratsubaLabels
<1>11. Algebra!Interpolate3
  <2>1. Val(t'["r_neg1"]) = Val(t["r_neg1"]) - Val(t["r0"])
    BY <1>3, <1>4, <1>6 DEF Products5
  <2>2. UNCHANGED Algebra!operands /\ UNCHANGED Algebra!points
    BY <1>7, <1>8, AlgebraFrame, PointsSame
  <2> QED  BY <1>1, <1>8, <2>1, <2>2 DEF Algebra!Interpolate3, Algebra!Step, Algebra!Goto
<1> QED  BY <1>10, <1>11

LEMMA Interpolate4Step == Core /\ Interpolate4 => Core' /\ Algebra!Interpolate4
<1> SUFFICES ASSUME Core, Interpolate4 PROVE Core' /\ Algebra!Interpolate4
  OBVIOUS
<1> DEFINE s1 == SubSAW(t, "r_neg2", "r_neg1", "r_neg2")
           s2 == RShift1(s1, "r_neg2")
           v == c3 - 2*c4
           w == c2 - c1 - 3*c3 + 5*c4
           x == atNeg1 - c0
<1>1. /\ pc = "r3 = (r2 - r3) / 2" /\ pc' = "r3 = r3 + 2 rinf" /\ t' = s2
      /\ UNCHANGED <<alg, lenM, lenN>> /\ UNCHANGED res
  BY DEF Interpolate4, TempsStep
<1>2. alg = "toom3" /\ Frame /\ Good(t) /\ t["r0"].sign = 1
  BY <1>1, Toom3Label DEF KaratsubaLabels
<1>3. Products5(c0, c1 + c3, x, w, c4)
  BY <1>1 DEF Core, ValuesInv
<1>4. Small(x) /\ Small(w) /\ Small(x - w) /\ x - w = 2 * v /\ v \in Int
  BY <1>2, SmallOf DEF atNeg1
<1> HIDE DEF v, w, x
<1>5. Gets(t, "r_neg2", s1, 2 * v)
  BY <1>2, <1>3, <1>4, GoodSub DEF Products5, Evaluated, Temps
<1>6. Gets(s1, "r_neg2", s2, v)
  <2> HIDE DEF s1
  <2> QED  BY <1>2, <1>3, <1>4, <1>5, GoodHalf, EvaluatedFits DEF Gets, Products5, Evaluated, Temps, Names
<1> HIDE DEF s1, s2
<1>7. /\ Good(t') /\ Val(t'["r_neg2"]) = v
      /\ \A z \in Names : z # "r_neg2" => t'[z] = t[z]
  BY <1>1, <1>5, <1>6 DEF Gets, Names, Temps
<1>8. Framed
  BY <1>1, <1>7, FramedOf
<1>9. /\ t'["r0"] = t["r0"] /\ t'["r1"] = t["r1"] /\ t'["r_neg1"] = t["r_neg1"] /\ t'["rinf"] = t["rinf"]
      /\ \A z \in Points : t'[z] = t[z]
  BY <1>7 DEF Names, Temps, Points
<1>10. ValuesInv'
  <2>1. Products5(c0, c1 + c3, atNeg1 - c0, v, c4)'
    BY <1>3, <1>4, <1>7, <1>8, <1>9, PartsSame DEF Products5, v, w, x
  <2> QED  BY <1>1, <2>1 DEF ValuesInv, KaratsubaLabels, v, w, x
<1>11. Core'
  BY <1>1, <1>2, <1>7, <1>9, <1>10, GoodNext DEF Algebra!Labels, KaratsubaLabels
<1>12. Algebra!Interpolate4
  <2>1. Val(t'["r_neg2"]) = Algebra!Halve(Val(t["r_neg1"]) - Val(t["r_neg2"]))
    BY <1>3, <1>4, <1>7, AlgebraHalf DEF Products5
  <2>2. UNCHANGED Algebra!operands /\ UNCHANGED Algebra!points
    BY <1>8, <1>9, AlgebraFrame, PointsSame
  <2> QED  BY <1>1, <1>9, <2>1, <2>2 DEF Algebra!Interpolate4, Algebra!Step, Algebra!Goto
<1> QED  BY <1>11, <1>12

LEMMA Interpolate5Step == Core /\ Interpolate5 => Core' /\ Algebra!Interpolate5
<1> SUFFICES ASSUME Core, Interpolate5 PROVE Core' /\ Algebra!Interpolate5
  OBVIOUS
<1> DEFINE s1 == LShift1(t, "rinf")
           s2 == AddSAW(s1, "r_neg2", "r_neg2", "rinf")
           v == c3 - 2*c4
<1>1. /\ pc = "r3 = r3 + 2 rinf" /\ pc' = "r2 = r2 + r1 - rinf" /\ t' = s2
      /\ UNCHANGED <<alg, lenM, lenN>> /\ UNCHANGED res
  BY DEF Interpolate5, TempsStep
<1>2. alg = "toom3" /\ Frame /\ Good(t) /\ t["r0"].sign = 1
  BY <1>1, Toom3Label DEF KaratsubaLabels
<1>3. Products5(c0, c1 + c3, atNeg1 - c0, v, c4)
  BY <1>1 DEF Core, ValuesInv
<1>4. /\ Small(v) /\ Small(2 * c4) /\ Small(c3) /\ v + 2 * c4 = c3 /\ c4 \in Int
      /\ Capacity("rinf") \in Nat /\ Abs(2 * c4) < Weight(Capacity("rinf"))
  BY <1>2, SmallOf, RinfFits
<1> HIDE DEF v
<1>5. Gets(t, "rinf", s1, 2 * c4)
  BY <1>2, <1>3, <1>4, GoodDouble DEF Products5, Evaluated, Temps
<1>6. Gets(s1, "r_neg2", s2, c3)
  <2> HIDE DEF s1
  <2>1. Val(s1["r_neg2"]) = v /\ Val(s1["rinf"]) = 2 * c4
    BY <1>3, <1>5 DEF Gets, Products5, Temps, Names
  <2>2. Good(s1)
    BY <1>5 DEF Gets
  <2> QED  BY <1>2, <1>4, <2>1, <2>2, GoodAdd DEF Evaluated, Temps
<1> HIDE DEF s1, s2
<1>7. /\ Good(t') /\ Val(t'["rinf"]) = 2 * c4 /\ Val(t'["r_neg2"]) = c3
      /\ \A z \in Names : z # "rinf" /\ z # "r_neg2" => t'[z] = t[z]
  BY <1>1, <1>5, <1>6 DEF Gets, Names, Temps
<1>8. Framed
  BY <1>1, <1>7, FramedOf
<1>9. /\ t'["r0"] = t["r0"] /\ t'["r1"] = t["r1"] /\ t'["r_neg1"] = t["r_neg1"]
      /\ \A z \in Points : t'[z] = t[z]
  BY <1>7 DEF Names, Temps, Points
<1>10. ValuesInv'
  <2>1. Products5(c0, c1 + c3, atNeg1 - c0, c3, 2*c4)'
    BY <1>3, <1>4, <1>7, <1>8, <1>9, PartsSame DEF Products5, v
  <2> QED  BY <1>1, <2>1 DEF ValuesInv, KaratsubaLabels, v
<1>11. Core'
  BY <1>1, <1>2, <1>7, <1>9, <1>10, GoodNext DEF Algebra!Labels, KaratsubaLabels
<1>12. Algebra!Interpolate5
  <2>1. Val(t'["rinf"]) = Algebra!Double(Val(t["rinf"]))
    BY <1>3, <1>4, <1>7 DEF Products5, Algebra!Double
  <2>2. Val(t'["r_neg2"]) = Val(t["r_neg2"]) + Val(t'["rinf"])
    BY <1>3, <1>4, <1>7 DEF Products5
  <2>3. UNCHANGED Algebra!operands /\ UNCHANGED Algebra!points
    BY <1>8, <1>9, AlgebraFrame, PointsSame
  <2> QED  BY <1>1, <1>9, <2>1, <2>2, <2>3 DEF Algebra!Interpolate5, Algebra!Step, Algebra!Goto
<1> QED  BY <1>11, <1>12

LEMMA Interpolate6Step == Core /\ Interpolate6 => Core' /\ Algebra!Interpolate6
<1> SUFFICES ASSUME Core, Interpolate6 PROVE Core' /\ Algebra!Interpolate6
  OBVIOUS
<1> DEFINE s1 == AddSAW(t, "r_neg1", "r_neg1", "r1")
           s2 == RShift1(s1, "rinf")
           s3 == SubSAW(s2, "r_neg1", "r_neg1", "rinf")
           v == c1 + c3
           w == c2 + c4
           x == atNeg1 - c0
<1>1. /\ pc = "r2 = r2 + r1 - rinf" /\ pc' = "r1 = r1 - r3" /\ t' = s3
      /\ UNCHANGED <<alg, lenM, lenN>> /\ UNCHANGED res
  BY DEF Interpolate6, TempsStep
<1>2. alg = "toom3" /\ Frame /\ Good(t) /\ t["r0"].sign = 1
  BY <1>1, Toom3Label DEF KaratsubaLabels
<1>3. Products5(c0, v, x, c3, 2*c4)
  BY <1>1 DEF Core, ValuesInv
<1>4. /\ Small(v) /\ Small(w) /\ Small(x) /\ x \in Int /\ v \in Int /\ x + v = w /\ w - c4 = c2 /\ Small(c4) /\ Small(c2) /\ c4 \in Int
      /\ Capacity("rinf") \in Nat /\ Abs(2 * c4) < Weight(Capacity("rinf"))
  BY <1>2, SmallOf, RinfFits DEF atNeg1
<1> HIDE DEF v, w, x
<1>5. Gets(t, "r_neg1", s1, w)
  BY <1>2, <1>3, <1>4, GoodAdd DEF Products5, Evaluated, Temps
<1>6. Gets(s1, "rinf", s2, c4)
  <2> HIDE DEF s1
  <2> QED  BY <1>2, <1>3, <1>4, <1>5, GoodHalf DEF Gets, Products5, Evaluated, Temps, Names
<1>7. Gets(s2, "r_neg1", s3, c2)
  <2> HIDE DEF s1, s2
  <2>1. Val(s2["r_neg1"]) = w /\ Val(s2["rinf"]) = c4
    BY <1>3, <1>5, <1>6 DEF Gets, Products5, Temps, Names
  <2>2. Good(s2)
    BY <1>6 DEF Gets
  <2> QED  BY <1>2, <1>4, <2>1, <2>2, GoodSub DEF Evaluated, Temps
<1> HIDE DEF s1, s2, s3
<1>8. /\ Good(t') /\ Val(t'["rinf"]) = c4 /\ Val(t'["r_neg1"]) = c2
      /\ \A z \in Names : z # "rinf" /\ z # "r_neg1" => t'[z] = t[z]
  BY <1>1, <1>5, <1>6, <1>7 DEF Gets, Names, Temps
<1>9. Framed
  BY <1>1, <1>8, FramedOf
<1>10. /\ t'["r0"] = t["r0"] /\ t'["r1"] = t["r1"] /\ t'["r_neg2"] = t["r_neg2"]
      /\ \A z \in Points : t'[z] = t[z]
  BY <1>8 DEF Names, Temps, Points
<1>11. ValuesInv'
  <2>1. Products5(c0, c1 + c3, c2, c3, c4)'
    BY <1>3, <1>4, <1>8, <1>9, <1>10, PartsSame DEF Products5, v, w, x
  <2> QED  BY <1>1, <2>1 DEF ValuesInv, KaratsubaLabels, v, w, x
<1>12. Core'
  BY <1>1, <1>2, <1>8, <1>10, <1>11, GoodNext DEF Algebra!Labels, KaratsubaLabels
<1>13. Algebra!Interpolate6
  <2>1. Val(t'["rinf"]) = Algebra!Halve(Val(t["rinf"]))
    BY <1>3, <1>4, <1>8, AlgebraHalf DEF Products5
  <2>2. Val(t'["r_neg1"]) = Val(t["r_neg1"]) + Val(t["r1"]) - Val(t'["rinf"])
    BY <1>3, <1>4, <1>8, AlgebraHalf DEF Products5
  <2>3. UNCHANGED Algebra!operands /\ UNCHANGED Algebra!points
    BY <1>9, <1>10, AlgebraFrame, PointsSame
  <2> QED  BY <1>1, <1>10, <2>1, <2>2, <2>3 DEF Algebra!Interpolate6, Algebra!Step, Algebra!Goto
<1> QED  BY <1>12, <1>13

LEMMA Interpolate7Step == Core /\ Interpolate7 => Core' /\ Algebra!Interpolate7
<1> SUFFICES ASSUME Core, Interpolate7 PROVE Core' /\ Algebra!Interpolate7
  OBVIOUS
<1> DEFINE s1 == SubSAW(t, "r1", "r1", "r_neg2")
           v == c1 + c3
<1>1. /\ pc = "r1 = r1 - r3" /\ pc' = "toom3 sum" /\ t' = s1
      /\ UNCHANGED <<alg, lenM, lenN>> /\ UNCHANGED res
  BY DEF Interpolate7, TempsStep
<1>2. alg = "toom3" /\ Frame /\ Good(t) /\ t["r0"].sign = 1
  BY <1>1, Toom3Label DEF KaratsubaLabels
<1>3. Products5(c0, v, c2, c3, c4)
  BY <1>1 DEF Core, ValuesInv
<1>4. Small(v) /\ Small(c3) /\ Small(v - c3) /\ v - c3 = c1
  BY <1>2, SmallOf
<1> HIDE DEF v
<1>5. Gets(t, "r1", s1, c1)
  BY <1>2, <1>3, <1>4, GoodSub DEF Products5, Evaluated, Temps
<1> HIDE DEF s1
<1>6. /\ Good(t') /\ Val(t'["r1"]) = c1
      /\ \A z \in Names : z # "r1" => t'[z] = t[z]
  BY <1>1, <1>5 DEF Gets, Names, Temps
<1>7. Framed
  BY <1>1, <1>6, FramedOf
<1>8. /\ t'["r0"] = t["r0"] /\ t'["r_neg1"] = t["r_neg1"] /\ t'["r_neg2"] = t["r_neg2"] /\ t'["rinf"] = t["rinf"]
      /\ \A x \in Points : t'[x] = t[x]
  BY <1>6 DEF Names, Temps, Points
<1>9. ValuesInv'
  <2>1. Products5(c0, c1, c2, c3, c4)'
    BY <1>3, <1>4, <1>6, <1>7, <1>8, PartsSame DEF Products5, v
  <2> QED  BY <1>1, <2>1 DEF ValuesInv, KaratsubaLabels, v
<1>10. Core'
  BY <1>1, <1>2, <1>6, <1>8, <1>9, GoodNext DEF Algebra!Labels, KaratsubaLabels
<1>11. Algebra!Interpolate7
  <2>1. Val(t'["r1"]) = Val(t["r1"]) - Val(t["r_neg2"])
    BY <1>3, <1>4, <1>6 DEF Products5
  <2>2. UNCHANGED Algebra!operands /\ UNCHANGED Algebra!points
    BY <1>7, <1>8, AlgebraFrame, PointsSame
  <2> QED  BY <1>1, <1>8, <2>1, <2>2 DEF Algebra!Interpolate7, Algebra!Step, Algebra!Goto
<1> QED  BY <1>10, <1>11

-----------------------------------------------------------------------------
(* The evaluation *)

\* Sums and differences of the parts fit a limb more than a part, a few times
\* that fit two.
LEMMA PartSums ==
  ASSUME Frame, alg = "toom3", NEW w, w = Weight(PartLen)
  PROVE  /\ w \in Nat /\ w >= 1 /\ PartLen \in Nat
         /\ \A c \in Nat : c >= PartLen + 1 => Weight(c) \in Nat /\ Weight(c) >= 4 * w
         /\ \A c \in Nat : c >= PartLen + 2 => Weight(c) \in Nat /\ Weight(c) >= 16 * w
<1> DEFINE k == PartLen
<1>1. k \in Nat /\ k + 1 \in Nat /\ (k + 1) + 1 = k + 2 /\ k + 2 \in Nat /\ w \in Nat /\ w >= 1
  BY OperandsOf
<1>2. Weight(k + 1) \in Nat /\ Weight(k + 1) >= 4 * w
  BY <1>1, WeightStep
<1>3. Weight(k + 2) \in Nat /\ Weight(k + 2) >= 4 * Weight(k + 1)
  BY <1>1, WeightStep
<1>4. ASSUME NEW c \in Nat, c >= k + 1 PROVE Weight(c) \in Nat /\ Weight(c) >= 4 * w
  <2>1. Weight(c) \in Nat /\ Weight(c) >= Weight(k + 1)
    BY <1>1, <1>4, WeightMonotone
  <2> QED  BY <1>1, <1>2, <2>1
<1>5. ASSUME NEW c \in Nat, c >= k + 2 PROVE Weight(c) \in Nat /\ Weight(c) >= 16 * w
  <2>1. Weight(c) \in Nat /\ Weight(c) >= Weight(k + 2)
    BY <1>1, <1>5, WeightMonotone
  <2> QED  BY <1>1, <1>2, <1>3, <2>1
<1> QED  BY <1>1, <1>4, <1>5

\* A part of Toom-3 while the frame computes.
LEMMA PartHolds ==
  ASSUME Frame, alg = "toom3", NEW s, Good(s), NEW a \in Slices, NEW w, w = Weight(PartLen)
  PROVE  /\ Holds(s[a], t[a].mag) /\ t[a].mag \in Nat /\ s[a].sign = 1 /\ s[a] = t[a]
         /\ t[a].mag < w
<1>1. s[a] = t[a] /\ s[a] \in Header /\ Dense(s[a]) /\ s[a].sign = 1
  BY Toom3Parts DEF Good
<1>2. t[a].mag < w
  BY Toom3Parts DEF Slices, a0, a1, a2, b0, b1, b2
<1> QED  BY <1>1, <1>2, HeaderOf DEF Holds

\* A sum of parts without their signs.
Summing(s, r, s1, v) == Changes(s, r, s1) /\ Holds(s1[r], v) /\ s1[r].sign = 1 /\ Good(s1)

LEMMA GoodPlain ==
  ASSUME NEW s, Good(s), NEW r \in Temps, NEW x \in Names, NEW y \in Names, NEW v \in Nat, NEW w \in Nat,
         Holds(s[x], v), Holds(s[y], w), s[x].sign = 1, s[y].sign = 1,
         Capacity(r) \in Nat, v + w < Weight(Capacity(r))
  PROVE  Summing(s, r, AddWC(s, r, x, y), v + w)
<1> DEFINE s1 == AddWC(s, r, x, y)
<1>1. s \in Numbers /\ s[r].hi <= Capacity(r) /\ r \in Names
  BY NamesApart DEF Good
<1>2. Changes(s, r, s1) /\ Holds(s1[r], v + w) /\ s1[r].sign = 1 /\ s1[r].hi <= Capacity(r)
  BY <1>1, PlainSumOf
<1> HIDE DEF s1
<1>3. Good(s1)
  BY <1>2, GoodStep DEF Holds
<1> QED  BY <1>2, <1>3 DEF Summing, s1

\* e has the points of an operand with parts A, M and C.
Evaluates(s, e, A, M, C, outer, one, neg1, neg2) ==
  /\ Good(e) /\ Val(e[one]) = A + M + C /\ Val(e[neg1]) = A - M + C
  /\ Val(e[neg2]) = A - 2 * M + 4 * C
  /\ \A z \in Names : z \notin {outer, one, neg1, neg2} => e[z] = s[z]

\* One operand's points, from its parts A, M and C.
LEMMA EvaluateOperandOf ==
  ASSUME Frame, alg = "toom3", NEW s, Good(s),
         NEW a \in Slices, NEW b \in Slices, NEW c \in Slices,
         NEW outer \in Temps, NEW one \in Temps, NEW neg1 \in Temps, NEW neg2 \in Temps,
         outer # one, outer # neg1, outer # neg2, one # neg1, one # neg2, neg1 # neg2,
         Capacity(outer) = PartLen + 1, Capacity(neg1) = PartLen + 1,
         Capacity(one) \in Nat, Capacity(one) >= PartLen + 2,
         Capacity(neg2) \in Nat, Capacity(neg2) >= PartLen + 2,
         NEW A, NEW M, NEW C, A = t[a].mag, M = t[b].mag, C = t[c].mag
  PROVE  Evaluates(s, EvaluateOperand(s, a, b, c, outer, one, neg1, neg2), A, M, C, outer, one, neg1, neg2)
<1> DEFINE s1 == AddWC(s, outer, a, c)
           s2 == AddWC(s1, one, outer, b)
           s3 == SubSAW(s2, neg1, outer, b)
           s4 == AddSAW(s3, neg2, neg1, c)
           s5 == LShift1(s4, neg2)
           s6 == SubSAW(s5, neg2, neg2, a)
           e  == EvaluateOperand(s, a, b, c, outer, one, neg1, neg2)
           w  == Weight(PartLen)
           P  == 2 * (((A + C) - M) + C)
<1>0. e = s6
  BY DEF EvaluateOperand
<1> HIDE DEF e
<1>1. /\ A \in Nat /\ M \in Nat /\ C \in Nat /\ A < w /\ M < w /\ C < w
      /\ w \in Nat /\ w >= 1 /\ PartLen \in Nat
      /\ Weight(PartLen + 1) \in Nat /\ Weight(PartLen + 1) >= 4 * w
      /\ Weight(Capacity(one)) \in Nat /\ Weight(Capacity(one)) >= 16 * w
      /\ Weight(Capacity(neg2)) \in Nat /\ Weight(Capacity(neg2)) >= 16 * w
  BY PartHolds, PartSums
<1>n. /\ a \in Names /\ b \in Names /\ c \in Names
      /\ outer \in Names /\ one \in Names /\ neg1 \in Names /\ neg2 \in Names
  BY NamesApart
<1> HIDE DEF w
<1>2. Changes(s, outer, s1) /\ Holds(s1[outer], A + C) /\ s1[outer].sign = 1 /\ Good(s1)
  <2>1. Holds(s[a], A) /\ Holds(s[c], C) /\ s[a].sign = 1 /\ s[c].sign = 1
        /\ A + C < Weight(Capacity(outer)) /\ Capacity(outer) \in Nat
        /\ A \in Nat /\ C \in Nat
    BY <1>1, PartHolds DEF w
  <2> HIDE DEF s1
  <2>2. Summing(s, outer, s1, A + C)
    BY <1>n, <2>1, GoodPlain DEF s1
  <2> QED  BY <2>2 DEF Summing, Gets
<1> HIDE DEF s1
<1>3. Gets(s1, one, s2, (A + C) + M) /\ s2[outer] = s1[outer]
  <2>1. /\ Holds(s1[b], M) /\ s1[b].sign = 1 /\ s1[one].hi <= Capacity(one) /\ s1 \in Numbers
        /\ (A + C) + M < Weight(Capacity(one)) /\ A + C \in Nat
    BY <1>1, <1>2, PartHolds DEF Good, w
  <2>2. Changes(s1, one, s2) /\ Holds(s2[one], (A + C) + M) /\ s2[one].hi <= Capacity(one)
    BY <1>1, <1>2, <1>n, <2>1, PlainSumOf
  <2> HIDE DEF s2
  <2>3. Gets(s1, one, s2, (A + C) + M)
    BY <1>2, <2>2, GetsOf
  <2> QED  BY <1>n, <2>2, <2>3 DEF Changes
<1> HIDE DEF s2
<1>4. Gets(s2, neg1, s3, (A + C) - M)
  <2>1. /\ Good(s2) /\ Holds(s2[b], M) /\ Holds(s2[outer], A + C) /\ s2[neg1].hi <= PartLen + 1 /\ s2 \in Numbers
        /\ A + C \in Int /\ M \in Int /\ PartLen + 1 \in Nat
    BY <1>1, <1>2, <1>3, PartHolds DEF Good, Gets
  <2>2. Abs(A + C) < Weight(PartLen + 1) /\ Abs(M) < Weight(PartLen + 1) /\ Abs((A + C) - M) < Weight(PartLen + 1)
    BY <1>1 DEF Abs
  <2>3. Changes(s2, neg1, s3) /\ Holds(s3[neg1], (A + C) - M) /\ s3[neg1].hi <= Capacity(neg1)
    BY <1>n, <2>1, <2>2, SubSAWOf
  <2> HIDE DEF s3
  <2> QED  BY <2>1, <2>3, GetsOf
<1> HIDE DEF s3
<1>5. Gets(s3, neg2, s4, ((A + C) - M) + C)
  <2>1. /\ Good(s3) /\ Holds(s3[c], C) /\ s3[neg2].hi <= Capacity(neg2) /\ s3 \in Numbers
        /\ (A + C) - M \in Int /\ C \in Int
    BY <1>1, <1>4, PartHolds DEF Good, Gets
  <2>2. Holds(s3[neg1], (A + C) - M)
    BY <1>4, <2>1, HoldsOf DEF Gets
  <2>3. /\ Abs((A + C) - M) < Weight(Capacity(neg2)) /\ Abs(C) < Weight(Capacity(neg2))
        /\ Abs(((A + C) - M) + C) < Weight(Capacity(neg2))
    BY <1>1 DEF Abs
  <2>4. Changes(s3, neg2, s4) /\ Holds(s4[neg2], ((A + C) - M) + C) /\ s4[neg2].hi <= Capacity(neg2)
    BY <1>n, <2>1, <2>2, <2>3, AddSAWOf
  <2> HIDE DEF s4
  <2> QED  BY <2>1, <2>4, GetsOf
<1> HIDE DEF s4
<1>6. Gets(s4, neg2, s5, 2 * (((A + C) - M) + C))
  <2>1. Good(s4) /\ ((A + C) - M) + C \in Int /\ Val(s4[neg2]) = ((A + C) - M) + C
    BY <1>1, <1>5 DEF Gets
  <2>2. Abs(2 * (((A + C) - M) + C)) < Weight(Capacity(neg2))
    BY <1>1 DEF Abs
  <2> QED  BY <2>1, <2>2, GoodDouble
<1> HIDE DEF s5
<1>7. Gets(s5, neg2, s6, P - A)
  <2>0. P \in Int /\ Gets(s4, neg2, s5, P)
    BY <1>1, <1>6
  <2>3. /\ Abs(P) < Weight(Capacity(neg2)) /\ Abs(A) < Weight(Capacity(neg2))
        /\ Abs(P - A) < Weight(Capacity(neg2))
    BY <1>1 DEF Abs
  <2> HIDE DEF P
  <2>1. /\ Good(s5) /\ Holds(s5[a], A) /\ s5[neg2].hi <= Capacity(neg2) /\ s5 \in Numbers
        /\ P \in Int /\ A \in Int
    BY <1>1, <2>0, PartHolds DEF Good, Gets
  <2>2. Holds(s5[neg2], P)
    BY <2>0, <2>1, HoldsOf DEF Gets
  <2>4. Changes(s5, neg2, s6) /\ Holds(s6[neg2], P - A) /\ s6[neg2].hi <= Capacity(neg2)
    BY <1>n, <2>1, <2>2, <2>3, SubSAWOf
  <2> HIDE DEF s6
  <2> QED  BY <2>1, <2>4, GetsOf
<1> HIDE DEF s6
<1>8. Good(e) /\ Val(e[one]) = (A + C) + M /\ Val(e[neg1]) = (A + C) - M /\ Val(e[neg2]) = 2 * (((A + C) - M) + C) - A
  BY <1>0, <1>n, <1>3, <1>4, <1>5, <1>6, <1>7 DEF Gets
<1>9. \A z \in Names : z \notin {outer, one, neg1, neg2} => e[z] = s[z]
  BY <1>0, <1>2, <1>3, <1>4, <1>5, <1>6, <1>7 DEF Gets, Changes
<1>10. (A + C) + M = A + M + C /\ (A + C) - M = A - M + C /\ 2 * (((A + C) - M) + C) - A = A - 2 * M + 4 * C
  BY <1>1
<1> QED  BY <1>8, <1>9, <1>10 DEF e, Evaluates

LEMMA EvaluateStep == Core /\ Evaluate => Core' /\ Algebra!Evaluate
<1> SUFFICES ASSUME Core, Evaluate PROVE Core' /\ Algebra!Evaluate
  OBVIOUS
<1> DEFINE s1 == EvaluateOperand(t, "m0", "m1", "m2", "p_outer", "p1", "p_neg1", "p_neg2")
           s2 == EvaluateOperand(s1, "n0", "n1", "n2", "q_outer", "q1", "q_neg1", "q_neg2")
<1>1. /\ pc = "toom3" /\ pc' = "multiply" /\ t' = s2
      /\ UNCHANGED <<alg, lenM, lenN>> /\ UNCHANGED res
  BY DEF Evaluate, TempsStep
<1>2. alg = "toom3" /\ Frame /\ Good(t) /\ t["r0"].sign = 1
  BY <1>1, Toom3Label DEF KaratsubaLabels
<1>3. /\ "m0" \in Slices /\ "m1" \in Slices /\ "m2" \in Slices
      /\ "n0" \in Slices /\ "n1" \in Slices /\ "n2" \in Slices
      /\ \A x \in Points \cup {"p_outer", "q_outer"} : x \in Temps
  BY DEF Slices, Temps, Points
<1>4. /\ Capacity("p_outer") = PartLen + 1 /\ Capacity("q_outer") = PartLen + 1
      /\ Capacity("p_neg1") = PartLen + 1 /\ Capacity("q_neg1") = PartLen + 1
      /\ Capacity("p1") \in Nat /\ Capacity("p1") >= PartLen + 2
      /\ Capacity("q1") \in Nat /\ Capacity("q1") >= PartLen + 2
      /\ Capacity("p_neg2") \in Nat /\ Capacity("p_neg2") >= PartLen + 2
      /\ Capacity("q_neg2") \in Nat /\ Capacity("q_neg2") >= PartLen + 2
  BY <1>2, Toom3Capacities, OperandsOf
<1>5. Evaluates(t, s1, a0, a1, a2, "p_outer", "p1", "p_neg1", "p_neg2")
  BY <1>2, <1>3, <1>4, EvaluateOperandOf DEF Points, a0, a1, a2
<1> HIDE DEF s1
<1>6. Evaluates(s1, s2, b0, b1, b2, "q_outer", "q1", "q_neg1", "q_neg2")
  <2>1. Good(s1)
    BY <1>5 DEF Evaluates
  <2> QED  BY <1>2, <1>3, <1>4, <2>1, EvaluateOperandOf DEF Points, b0, b1, b2
<1> HIDE DEF s2
<1>7. /\ Good(t') /\ MultiplyValues'
      /\ \A z \in {"r0", "r1", "r_neg1", "r_neg2", "rinf"} : t'[z] = t[z]
  <2>0. {"r0", "r1", "r_neg1", "r_neg2", "rinf"} \subseteq Names /\ Points \subseteq Names
    BY DEF Names, Temps, Points
  <2>1. \A z \in {"r0", "r1", "r_neg1", "r_neg2", "rinf"} : s2[z] = s1[z] /\ s1[z] = t[z]
    BY <1>5, <1>6, <2>0 DEF Evaluates
  <2>2. s2["p1"] = s1["p1"] /\ s2["p_neg1"] = s1["p_neg1"] /\ s2["p_neg2"] = s1["p_neg2"]
    BY <1>6, <2>0 DEF Evaluates, Points
  <2>3. /\ Val(s2["p1"]) = a0 + a1 + a2 /\ Val(s2["p_neg1"]) = a0 - a1 + a2
        /\ Val(s2["p_neg2"]) = a0 - 2 * a1 + 4 * a2
        /\ Val(s2["q1"]) = b0 + b1 + b2 /\ Val(s2["q_neg1"]) = b0 - b1 + b2
        /\ Val(s2["q_neg2"]) = b0 - 2 * b1 + 4 * b2 /\ Good(s2)
    BY <1>5, <1>6, <2>2 DEF Evaluates
  <2>4. Framed
    BY <1>1, <2>3, FramedOf
  <2> QED  BY <1>1, <2>1, <2>3, <2>4, PartsSame DEF MultiplyValues
<1>8. Framed
  BY <1>1, <1>7, FramedOf
<1>9. ValuesInv'
  BY <1>1, <1>7 DEF ValuesInv, KaratsubaLabels
<1>10. Core'
  <2>1. t'["r0"].sign = 1 /\ \A x \in {"r1", "r_neg1", "r_neg2", "rinf"} : t'[x].sign = 1
    BY <1>1, <1>7 DEF Core, Unsigned
  <2> QED  BY <1>1, <1>2, <1>7, <1>9, <2>1, GoodNext DEF Algebra!Labels, KaratsubaLabels
<1>11. Algebra!Evaluate
  <2>1. UNCHANGED Algebra!operands
    BY <1>8, AlgebraFrame
  <2>2. UNCHANGED Algebra!products
    BY <1>7 DEF Algebra!products, Val
  <2>3. /\ a0 \in Nat /\ a1 \in Nat /\ a2 \in Nat /\ b0 \in Nat /\ b1 \in Nat /\ b2 \in Nat
    BY <1>2, OperandsOf
  <2>4. /\ Val(t'["p1"]) = a0 + a1 + a2              /\ Val(t'["q1"]) = b0 + b1 + b2
        /\ Val(t'["p_neg1"]) = a0 - a1 + a2          /\ Val(t'["q_neg1"]) = b0 - b1 + b2
        /\ Val(t'["p_neg2"]) = a0 - 2 * a1 + 4 * a2  /\ Val(t'["q_neg2"]) = b0 - 2 * b1 + 4 * b2
    BY <1>7, <1>8, PartsSame DEF MultiplyValues
  <2>5. /\ Val(t'["p1"]) = mParts[0] + mParts[2] + mParts[1] /\ Val(t'["q1"]) = nParts[0] + nParts[2] + nParts[1]
        /\ Val(t'["p_neg1"]) = mParts[0] + mParts[2] - mParts[1]
        /\ Val(t'["q_neg1"]) = nParts[0] + nParts[2] - nParts[1]
        /\ Val(t'["p_neg2"]) = 2 * (Val(t'["p_neg1"]) + mParts[2]) - mParts[0]
        /\ Val(t'["q_neg2"]) = 2 * (Val(t'["q_neg1"]) + nParts[2]) - nParts[0]
    BY <2>3, <2>4, PartsAt
  <2> QED  BY <1>1, <2>1, <2>2, <2>5 DEF Algebra!Evaluate, Algebra!Step, Algebra!Goto, Algebra!Double, mParts, nParts
<1> QED  BY <1>10, <1>11

-----------------------------------------------------------------------------
(* The recursive products *)

ExpandsAt(a, b, c, d, e, f) ==
  /\ (a + b + c) * (d + e + f)
       = a*d + (a*e + b*d) + (a*f + b*e + c*d) + (b*f + c*e) + c*f
  /\ (a - b + c) * (d - e + f)
       = a*d - (a*e + b*d) + (a*f + b*e + c*d) - (b*f + c*e) + c*f
  /\ (a - 2*b + 4*c) * (d - 2*e + 4*f)
       = a*d - 2 * (a*e + b*d) + 4 * (a*f + b*e + c*d) - 8 * (b*f + c*e) + 16 * (c*f)

LEMMA ExpandAt ==
  ASSUME NEW a \in Nat, NEW b \in Nat, NEW c \in Nat, NEW d \in Nat, NEW e \in Nat, NEW f \in Nat
  PROVE  ExpandsAt(a, b, c, d, e, f)
<1>1. (a + b + c) * (d + e + f)
       = a*d + (a*e + b*d) + (a*f + b*e + c*d) + (b*f + c*e) + c*f
  BY SMT
<1>2. (a - b + c) * (d - e + f)
       = a*d - (a*e + b*d) + (a*f + b*e + c*d) - (b*f + c*e) + c*f
  BY SMT
<1>3. (a - 2*b + 4*c) * (d - 2*e + 4*f)
       = a*d - 2 * (a*e + b*d) + 4 * (a*f + b*e + c*d) - 8 * (b*f + c*e) + 16 * (c*f)
  BY SMT
<1> QED  BY <1>1, <1>2, <1>3 DEF ExpandsAt

\* The product polynomial at the points.
LEMMA PointProducts ==
  ASSUME Frame
  PROVE  /\ (a0 + a1 + a2) * (b0 + b1 + b2) = at1
         /\ (a0 - a1 + a2) * (b0 - b1 + b2) = atNeg1
         /\ (a0 - 2 * a1 + 4 * a2) * (b0 - 2 * b1 + 4 * b2) = atNeg2
<1>1. ExpandsAt(a0, a1, a2, b0, b1, b2)
  BY OperandsOf, ExpandAt
<1> QED  BY <1>1 DEF ExpandsAt, at1, atNeg1, atNeg2, c0, c1, c2, c3, c4

\* r gets the magnitude p, and stays positive when it is.
Multiplies(s, r, s1, p) ==
  /\ Good(s1) /\ s1[r].mag = p /\ (s[r].sign = 1 => s1[r].sign = 1)
  /\ \A z \in Names : z # r => s1[z] = s[z]

LEMMA GoodProduct ==
  ASSUME NEW s, Good(s), NEW r \in Temps, NEW x \in Names, NEW y \in Names,
         NEW u, NEW v, s[x] = u, s[y] = v, Capacity(r) \in Nat, u.n + v.n <= Capacity(r)
  PROVE  Multiplies(s, r, Product(s, r, x, y), u.mag * v.mag)
<1> DEFINE s1 == Product(s, r, x, y)
<1>1. s \in Numbers /\ s[r].hi <= Capacity(r) /\ r \in Names
  BY NamesApart DEF Good
<1>2. /\ Changes(s, r, s1) /\ Dense(s1[r]) /\ s1[r].mag = s[x].mag * s[y].mag /\ s1[r].hi <= Capacity(r)
      /\ s[r].sign = 1 => s1[r].sign = 1
  BY <1>1, ProductOf
<1> HIDE DEF s1
<1>3. Good(s1)
  BY <1>2, GoodStep
<1> QED  BY <1>2, <1>3 DEF Multiplies, Changes, s1

LEMMA GoodProductSign ==
  ASSUME NEW s, Good(s), NEW r \in Temps, NEW x \in Names, NEW y \in Names, alg = "toom3",
         NEW u, NEW v, s[x] = u, s[y] = v, s[r].mag = u.mag * v.mag
  PROVE  Gets(s, r, ProductSign(s, r, x, y), Val(u) * Val(v))
<1> DEFINE s1 == ProductSign(s, r, x, y)
<1>1. s \in Numbers /\ s[r].hi <= Capacity(r) /\ r \in Names /\ Dense(s[r])
  BY NamesApart DEF Good
<1>2. Changes(s, r, s1) /\ Holds(s1[r], Val(s[x]) * Val(s[y])) /\ s1[r].hi = s[r].hi
  BY <1>1, ProductSignOf
<1> HIDE DEF s1
<1>3. Gets(s, r, s1, Val(u) * Val(v))
  BY <1>1, <1>2, GetsOf
<1> QED  BY <1>3 DEF s1

LEMMA AlgebraSigned == \A v, w \in Int : Algebra!SignedProduct(v, w) = v * w
<1> SUFFICES ASSUME NEW v \in Int, NEW w \in Int PROVE Algebra!SignedProduct(v, w) = v * w
  OBVIOUS
<1>1. CASE v < 0 /\ w < 0
  BY <1>1, SMT DEF Algebra!SignedProduct, Algebra!Sgn, Algebra!Mag
<1>2. CASE v < 0 /\ ~(w < 0)
  BY <1>2, SMT DEF Algebra!SignedProduct, Algebra!Sgn, Algebra!Mag
<1>3. CASE ~(v < 0) /\ w < 0
  BY <1>3, SMT DEF Algebra!SignedProduct, Algebra!Sgn, Algebra!Mag
<1>4. CASE ~(v < 0) /\ ~(w < 0)
  BY <1>4, SMT DEF Algebra!SignedProduct, Algebra!Sgn, Algebra!Mag
<1> QED  BY <1>1, <1>2, <1>3, <1>4

LEMMA PointLimbs ==
  ASSUME NEW s, Good(s), alg = "toom3", NEW x \in Temps, NEW c \in Nat, Abs(Val(s[x])) < Weight(c)
  PROVE  s[x].n \in Nat /\ s[x].n <= c
<1>1. s[x] \in Header /\ Dense(s[x])
  BY NamesApart, NumbersOf DEF Good
<1>2. s[x].mag = Abs(Val(s[x])) /\ s[x].mag \in Nat
  BY <1>1, HeaderOf
<1> QED  BY <1>1, <1>2, LimbsWithin DEF Dense

\* The limbs of the points.
LEMMA PointsFit ==
  ASSUME Frame, Good(t), alg = "toom3", MultiplyValues
  PROVE  /\ \A x \in {"p1", "q1", "p_neg1", "q_neg1"} : t[x].n \in Nat /\ t[x].n <= PartLen + 1
         /\ \A x \in {"p_neg2", "q_neg2"} : t[x].n \in Nat /\ t[x].n <= PartLen + 2
<1> DEFINE k == PartLen  w == Weight(PartLen)
<1>1. /\ a0 \in Nat /\ a1 \in Nat /\ a2 \in Nat /\ b0 \in Nat /\ b1 \in Nat /\ b2 \in Nat
      /\ a0 < w /\ a1 < w /\ a2 < w /\ b0 < w /\ b1 < w /\ b2 < w
      /\ k \in Nat /\ k + 1 \in Nat /\ k + 2 \in Nat /\ w \in Nat
  BY OperandsOf, Toom3Parts
<1>2. Weight(k + 1) \in Nat /\ Weight(k + 1) >= 4 * w /\ Weight(k + 2) \in Nat /\ Weight(k + 2) >= 16 * w
  BY <1>1, PartSums
<1> HIDE DEF w
<1>3. /\ Abs(a0 + a1 + a2) < Weight(k + 1) /\ Abs(b0 + b1 + b2) < Weight(k + 1)
      /\ Abs(a0 - a1 + a2) < Weight(k + 1) /\ Abs(b0 - b1 + b2) < Weight(k + 1)
      /\ Abs(a0 - 2 * a1 + 4 * a2) < Weight(k + 2) /\ Abs(b0 - 2 * b1 + 4 * b2) < Weight(k + 2)
  BY <1>1, <1>2 DEF Abs
<1>4. /\ \A x \in {"p1", "q1", "p_neg1", "q_neg1"} : x \in Temps /\ Abs(Val(t[x])) < Weight(k + 1)
      /\ \A x \in {"p_neg2", "q_neg2"} : x \in Temps /\ Abs(Val(t[x])) < Weight(k + 2)
  BY <1>3 DEF MultiplyValues, Temps
<1> HIDE DEF k
<1>5. /\ \A x \in {"p1", "q1", "p_neg1", "q_neg1"} : t[x].n \in Nat /\ t[x].n <= k + 1
      /\ \A x \in {"p_neg2", "q_neg2"} : t[x].n \in Nat /\ t[x].n <= k + 2
  BY <1>1, <1>4, PointLimbs
<1> QED  BY <1>5 DEF k

\* The limbs of the factors of Toom-3's recursive products.
LEMMA FactorsFit ==
  ASSUME Frame, Good(t), alg = "toom3", MultiplyValues
  PROVE  /\ Capacity("r0") \in Nat /\ t["m0"].n + t["n0"].n <= Capacity("r0")
         /\ Capacity("r1") \in Nat /\ t["p1"].n + t["q1"].n <= Capacity("r1")
         /\ Capacity("r_neg1") \in Nat /\ t["p_neg1"].n + t["q_neg1"].n <= Capacity("r_neg1")
         /\ Capacity("r_neg2") \in Nat /\ t["p_neg2"].n + t["q_neg2"].n <= Capacity("r_neg2")
         /\ Capacity("rinf") \in Nat /\ t["m2"].n + t["n2"].n <= Capacity("rinf")
<1>1. /\ Capacity("r_neg1") = 2 * PartLen + 7 /\ Capacity("r_neg2") = 2 * PartLen + 7
      /\ Capacity("r1") = 2 * PartLen + 8 /\ Capacity("r0") = 2 * PartLen
      /\ Capacity("rinf") = Part(lenM, 2) + Part(lenN, 2) + 1 /\ PartLen \in Nat
      /\ Part(lenM, 2) \in Nat /\ Part(lenN, 2) \in Nat
  BY Toom3Capacities, OperandsOf DEF Splits
<1>2. /\ t["p1"].n \in Nat /\ t["p1"].n <= PartLen + 1 /\ t["q1"].n \in Nat /\ t["q1"].n <= PartLen + 1
      /\ t["p_neg1"].n \in Nat /\ t["p_neg1"].n <= PartLen + 1
      /\ t["q_neg1"].n \in Nat /\ t["q_neg1"].n <= PartLen + 1
      /\ t["p_neg2"].n \in Nat /\ t["p_neg2"].n <= PartLen + 2
      /\ t["q_neg2"].n \in Nat /\ t["q_neg2"].n <= PartLen + 2
  BY PointsFit
<1>3. /\ t["m0"].n \in Nat /\ t["m0"].n <= PartLen /\ t["n0"].n \in Nat /\ t["n0"].n <= PartLen
  BY Toom3Parts, HeaderOf DEF Slices
<1>4. t["m2"].n = Part(lenM, 2) /\ t["n2"].n = Part(lenN, 2)
  BY DEF Frame, PartsKept, PartKept
<1> QED  BY <1>1, <1>2, <1>3, <1>4

LEMMA MultiplyStep == Core /\ Multiply => Core' /\ Algebra!Multiply
<1> SUFFICES ASSUME Core, Multiply PROVE Core' /\ Algebra!Multiply
  OBVIOUS
<1> DEFINE s1 == Product(t, "r0", "m0", "n0")
           s2 == Product(s1, "r1", "p1", "q1")
           s3 == Product(s2, "r_neg1", "p_neg1", "q_neg1")
           s4 == Product(s3, "r_neg2", "p_neg2", "q_neg2")
           s5 == Product(s4, "rinf", "m2", "n2")
           s6 == ProductSign(s5, "r1", "p1", "q1")
           s7 == ProductSign(s6, "r_neg1", "p_neg1", "q_neg1")
           s8 == ProductSign(s7, "r_neg2", "p_neg2", "q_neg2")
<1>1. /\ pc = "multiply" /\ pc' = "r3 = (r3 - r1) / 3" /\ t' = s8
      /\ UNCHANGED <<alg, lenM, lenN>> /\ UNCHANGED res
  BY DEF Multiply, TempsStep
<1>2. alg = "toom3" /\ Frame /\ Good(t) /\ t["r0"].sign = 1 /\ t["rinf"].sign = 1 /\ MultiplyValues
  BY <1>1, Toom3Label DEF KaratsubaLabels, Core, Unsigned, ValuesInv
<1>3. /\ "r0" \in Temps /\ "r1" \in Temps /\ "r_neg1" \in Temps /\ "r_neg2" \in Temps /\ "rinf" \in Temps
      /\ {"m0", "m2", "n0", "n2"} \cup Points \cup {"r0", "r1", "r_neg1", "r_neg2", "rinf"} \subseteq Names
  BY DEF Names, Slices, Temps, Points
<1>4. Multiplies(t, "r0", s1, c0)
  BY <1>2, <1>3, FactorsFit, GoodProduct DEF c0, a0, b0
<1> HIDE DEF s1
<1>5. Multiplies(s1, "r1", s2, t["p1"].mag * t["q1"].mag)
  <2>1. Good(s1) /\ s1["p1"] = t["p1"] /\ s1["q1"] = t["q1"]
    BY <1>3, <1>4 DEF Multiplies, Points
  <2> QED  BY <1>2, <1>3, <2>1, FactorsFit, GoodProduct DEF Points
<1> HIDE DEF s2
<1>6. Multiplies(s2, "r_neg1", s3, t["p_neg1"].mag * t["q_neg1"].mag)
  <2>1. Good(s2) /\ s2["p_neg1"] = t["p_neg1"] /\ s2["q_neg1"] = t["q_neg1"]
    BY <1>3, <1>4, <1>5 DEF Multiplies, Points
  <2> QED  BY <1>2, <1>3, <2>1, FactorsFit, GoodProduct DEF Points
<1> HIDE DEF s3
<1>7. Multiplies(s3, "r_neg2", s4, t["p_neg2"].mag * t["q_neg2"].mag)
  <2>1. Good(s3) /\ s3["p_neg2"] = t["p_neg2"] /\ s3["q_neg2"] = t["q_neg2"]
    BY <1>3, <1>4, <1>5, <1>6 DEF Multiplies, Points
  <2> QED  BY <1>2, <1>3, <2>1, FactorsFit, GoodProduct DEF Points
<1> HIDE DEF s4
<1>8. Multiplies(s4, "rinf", s5, c4)
  <2>1. Good(s4) /\ s4["m2"] = t["m2"] /\ s4["n2"] = t["n2"]
    BY <1>3, <1>4, <1>5, <1>6, <1>7 DEF Multiplies
  <2> QED  BY <1>2, <1>3, <2>1, FactorsFit, GoodProduct DEF c4, a2, b2
<1> HIDE DEF s5
<1>9. /\ Good(s5) /\ \A z \in Points : s5[z] = t[z]
      /\ s5["r0"].mag = c0 /\ s5["rinf"].mag = c4 /\ s5["r0"].sign = 1 /\ s5["rinf"].sign = 1
      /\ s5["r1"].mag = t["p1"].mag * t["q1"].mag
      /\ s5["r_neg1"].mag = t["p_neg1"].mag * t["q_neg1"].mag
      /\ s5["r_neg2"].mag = t["p_neg2"].mag * t["q_neg2"].mag
  <2>1. \A z \in Points : s1[z] = t[z] /\ s2[z] = s1[z] /\ s3[z] = s2[z] /\ s4[z] = s3[z] /\ s5[z] = s4[z]
    BY <1>3, <1>4, <1>5, <1>6, <1>7, <1>8 DEF Multiplies, Points
  <2>2. s2["r0"] = s1["r0"] /\ s3["r0"] = s2["r0"] /\ s4["r0"] = s3["r0"] /\ s5["r0"] = s4["r0"]
    BY <1>3, <1>5, <1>6, <1>7, <1>8 DEF Multiplies
  <2>3. s3["r1"] = s2["r1"] /\ s4["r1"] = s3["r1"] /\ s5["r1"] = s4["r1"]
    BY <1>3, <1>6, <1>7, <1>8 DEF Multiplies
  <2>4. s4["r_neg1"] = s3["r_neg1"] /\ s5["r_neg1"] = s4["r_neg1"] /\ s5["r_neg2"] = s4["r_neg2"]
    BY <1>3, <1>7, <1>8 DEF Multiplies
  <2>5. s4["rinf"] = s3["rinf"] /\ s3["rinf"] = s2["rinf"] /\ s2["rinf"] = s1["rinf"] /\ s1["rinf"] = t["rinf"]
    BY <1>3, <1>4, <1>5, <1>6, <1>7 DEF Multiplies
  <2>6. /\ Good(s5) /\ s1["r0"].mag = c0 /\ s1["r0"].sign = 1 /\ s5["rinf"].mag = c4 /\ s5["rinf"].sign = 1
        /\ s2["r1"].mag = t["p1"].mag * t["q1"].mag /\ s3["r_neg1"].mag = t["p_neg1"].mag * t["q_neg1"].mag
        /\ s4["r_neg2"].mag = t["p_neg2"].mag * t["q_neg2"].mag
    BY <1>2, <1>4, <1>5, <1>6, <1>7, <1>8, <2>5 DEF Multiplies
  <2> QED  BY <2>1, <2>2, <2>3, <2>4, <2>6
<1>10. Gets(s5, "r1", s6, Val(t["p1"]) * Val(t["q1"]))
  <2>1. s5["p1"] = t["p1"] /\ s5["q1"] = t["q1"] /\ "p1" \in Names /\ "q1" \in Names
    BY <1>3, <1>9 DEF Points
  <2> QED  BY <1>2, <1>3, <1>9, <2>1, GoodProductSign
<1> HIDE DEF s6
<1>11. Gets(s6, "r_neg1", s7, Val(t["p_neg1"]) * Val(t["q_neg1"]))
  <2>1. s6["p_neg1"] = t["p_neg1"] /\ s6["q_neg1"] = t["q_neg1"] /\ "p_neg1" \in Names /\ "q_neg1" \in Names
        /\ s6["r_neg1"] = s5["r_neg1"] /\ Good(s6)
    BY <1>3, <1>9, <1>10 DEF Points, Gets
  <2> QED  BY <1>2, <1>3, <1>9, <2>1, GoodProductSign
<1> HIDE DEF s7
<1>12. Gets(s7, "r_neg2", s8, Val(t["p_neg2"]) * Val(t["q_neg2"]))
  <2>1. s7["p_neg2"] = t["p_neg2"] /\ s7["q_neg2"] = t["q_neg2"] /\ "p_neg2" \in Names /\ "q_neg2" \in Names
        /\ s7["r_neg2"] = s5["r_neg2"] /\ Good(s7)
    BY <1>3, <1>9, <1>10, <1>11 DEF Points, Gets
  <2> QED  BY <1>2, <1>3, <1>9, <2>1, GoodProductSign
<1> HIDE DEF s8
<1>13. /\ Good(t') /\ (\A z \in Points : t'[z] = t[z]) /\ t'["r0"] = s5["r0"] /\ t'["rinf"] = s5["rinf"]
       /\ Val(t'["r1"]) = Val(t["p1"]) * Val(t["q1"])
       /\ Val(t'["r_neg1"]) = Val(t["p_neg1"]) * Val(t["q_neg1"])
       /\ Val(t'["r_neg2"]) = Val(t["p_neg2"]) * Val(t["q_neg2"])
  <2>1. \A z \in Points : s8[z] = s7[z] /\ s7[z] = s6[z] /\ s6[z] = s5[z]
    BY <1>3, <1>10, <1>11, <1>12 DEF Gets, Points
  <2>2. \A z \in {"r0", "rinf"} : s8[z] = s7[z] /\ s7[z] = s6[z] /\ s6[z] = s5[z]
    BY <1>3, <1>10, <1>11, <1>12 DEF Gets
  <2>3. s8["r1"] = s7["r1"] /\ s7["r1"] = s6["r1"] /\ s8["r_neg1"] = s7["r_neg1"]
    BY <1>3, <1>11, <1>12 DEF Gets
  <2> QED  BY <1>1, <1>9, <1>10, <1>11, <1>12, <2>1, <2>2, <2>3 DEF Gets
<1>14. Framed
  BY <1>1, <1>13, FramedOf
<1>15. Products5(c0, at1, atNeg1, atNeg2, c4)'
  <2>1. Val(t'["r1"]) = at1 /\ Val(t'["r_neg1"]) = atNeg1 /\ Val(t'["r_neg2"]) = atNeg2
    BY <1>2, <1>13, PointProducts DEF MultiplyValues
  <2>2. t'["r0"] \in Header /\ t'["rinf"] \in Header
    BY <1>3, <1>13, NumbersOf DEF Good
  <2>3. Val(t'["r0"]) = c0 /\ Val(t'["rinf"]) = c4
    BY <1>9, <1>13, <2>2, HeaderOf
  <2> QED  BY <1>14, <2>1, <2>3, PartsSame DEF Products5
<1>16. Core'
  <2>1. ValuesInv'
    BY <1>1, <1>15 DEF ValuesInv, KaratsubaLabels
  <2> QED  BY <1>1, <1>2, <1>9, <1>13, <2>1, GoodNext DEF Algebra!Labels, KaratsubaLabels
<1>17. Algebra!Multiply
  <2>1. UNCHANGED Algebra!operands /\ UNCHANGED Algebra!points
    BY <1>13, <1>14, AlgebraFrame, PointsSame
  <2>2. Val(t'["r0"]) = mParts[0] * nParts[0] /\ Val(t'["rinf"]) = mParts[2] * nParts[2]
    BY <1>14, <1>15, PartsSame, PartsAt DEF Products5, c0, c4
  <2>3. \A x \in Points : Val(t[x]) \in Int
    <3>1. \A x \in Points : t[x] \in Header
      BY <1>2, <1>3, NumbersOf DEF Good
    <3> QED  BY <3>1, HeaderOf
  <2>4. /\ Val(t'["r1"]) = Algebra!SignedProduct(Val(t["p1"]), Val(t["q1"]))
        /\ Val(t'["r_neg1"]) = Algebra!SignedProduct(Val(t["p_neg1"]), Val(t["q_neg1"]))
        /\ Val(t'["r_neg2"]) = Algebra!SignedProduct(Val(t["p_neg2"]), Val(t["q_neg2"]))
    BY <1>13, <2>3, AlgebraSigned DEF Points
  <2> QED  BY <1>1, <2>1, <2>2, <2>4 DEF Algebra!Multiply, Algebra!Step, Algebra!Goto, mParts, nParts
<1> QED  BY <1>16, <1>17

-----------------------------------------------------------------------------
(* The recomposition *)

\* r gets the non-negative value v.
Adds(s, r, s1, v) ==
  /\ Good(s1) /\ s1[r].mag = v /\ s1[r].sign = 1 /\ \A z \in Names : z # r => s1[z] = s[z]

LEMMA GoodShift ==
  ASSUME NEW s, Good(s), NEW r \in Temps, NEW x \in Names, NEW shift \in Nat, NEW sum,
         s[r].sign = 1, Dense(s[r]), Dense(s[x]), shift = 0 => s[x].sign = 1,
         sum = s[r].mag + s[x].mag * Weight(shift),
         Capacity(r) \in Nat, sum < Weight(Capacity(r))
  PROVE  Adds(s, r, AddShift(s, r, x, shift), sum)
<1> DEFINE s1 == AddShift(s, r, x, shift)
           v == s[r].mag
           w == s[x].mag
<1>1. s \in Numbers /\ s[r].hi <= Capacity(r) /\ r \in Names
  BY NamesApart DEF Good
<1>2. v \in Nat /\ w \in Nat
  BY <1>1, NumbersOf, HeaderOf
<1> HIDE DEF v, w
<1>3. s[r].mag = v /\ s[x].mag = w /\ sum = v + w * Weight(shift)
  BY DEF v, w
<1>4. /\ Changes(s, r, s1) /\ Holds(s1[r], v + w * Weight(shift)) /\ s1[r].sign = 1
      /\ s1[r].hi <= Capacity(r) /\ s1[r].mag = v + w * Weight(shift)
  BY <1>1, <1>2, <1>3, AddShiftOf
<1> HIDE DEF s1
<1>5. Good(s1)
  BY <1>4, GoodStep DEF Holds
<1> QED  BY <1>3, <1>4, <1>5 DEF Adds, Changes, s1

\* A temporary that stands for a natural number has it as its magnitude.
LEMMA MagOf ==
  ASSUME NEW s, Good(s), NEW x \in Temps, NEW v \in Nat, Val(s[x]) = v
  PROVE  s[x].mag = v
<1>1. s[x] \in Header
  BY NamesApart, NumbersOf DEF Good
<1>2. s[x].mag = Abs(v)
  BY <1>1, HeaderOf
<1> QED  BY <1>2 DEF Abs

\* The partial sums of the product fit the limbs of the product.
LEMMA PartialSums ==
  ASSUME Frame, alg = "toom3", NEW w, w = Weight(PartLen), NEW e1, NEW e2, NEW e3, NEW e4,
         e1 = c1 * w, e2 = c2 * (w * w), e3 = c3 * ((w * w) * w), e4 = c4 * ((w * w) * (w * w))
  PROVE  /\ e1 \in Nat /\ e2 \in Nat /\ e3 \in Nat /\ e4 \in Nat /\ c0 \in Nat
         /\ product = c0 + e1 + e2 + e3 + e4 /\ product < Weight(lenM + lenN)
         /\ c0 < Weight(lenM + lenN) /\ c0 + e1 < Weight(lenM + lenN) /\ c0 + e1 + e2 < Weight(lenM + lenN)
         /\ c0 + e1 + e2 + e3 < Weight(lenM + lenN)
<1>1. w \in Nat /\ w * w \in Nat /\ (w * w) * w \in Nat /\ (w * w) * (w * w) \in Nat
  BY OperandsOf, WeightsOf
<1>2. e1 \in Nat /\ e2 \in Nat /\ e3 \in Nat /\ e4 \in Nat /\ c0 \in Nat
  BY <1>1, CoefficientsNat, NatProducts
<1>3. product = c0 + e1 + e2 + e3 + e4
  BY DEF product, Poly5
<1>4. product < Weight(lenM + lenN)
  BY ProductBound
<1>5. Weight(lenM + lenN) \in Nat
  BY Toom3Capacities, WeightGrows
<1> QED  BY <1>2, <1>3, <1>4, <1>5

LEMMA Toom3SumStep == Core /\ Toom3Sum => Core' /\ Algebra!Toom3Sum
<1> SUFFICES ASSUME Core, Toom3Sum PROVE Core' /\ Algebra!Toom3Sum
  OBVIOUS
<1> DEFINE k == PartLen  w == Weight(PartLen)  r == "q_neg2"
           e1 == c1 * w  e2 == c2 * (w * w)  e3 == c3 * ((w * w) * w)  e4 == c4 * ((w * w) * (w * w))
           s0 == [t EXCEPT !["q_neg2"] = Zset(@)]
           s1 == AddShift(s0, "q_neg2", "r0", 0)
           s2 == AddShift(s1, "q_neg2", "r1", k)
           s3 == AddShift(s2, "q_neg2", "r_neg1", 2 * k)
           s4 == AddShift(s3, "q_neg2", "r_neg2", 3 * k)
           s5 == AddShift(s4, "q_neg2", "rinf", 4 * k)
<1>1. /\ pc = "toom3 sum" /\ pc' = "done" /\ t' = s5
      /\ UNCHANGED <<alg, lenM, lenN>> /\ res' = t'["q_neg2"].mag
  BY DEF Toom3Sum, TempsStep
<1>2. alg = "toom3" /\ Frame /\ Good(t) /\ t["r0"].sign = 1 /\ Products5(c0, c1, c2, c3, c4)
  BY <1>1, Toom3Label DEF KaratsubaLabels, Core, ValuesInv
<1>3. /\ "r0" \in Temps /\ "r1" \in Temps /\ "r_neg1" \in Temps /\ "r_neg2" \in Temps /\ "rinf" \in Temps
      /\ "q_neg2" \in Temps /\ Temps \subseteq Names
  BY DEF Names, Temps
<1>4. /\ t["r0"].mag = c0 /\ t["r1"].mag = c1 /\ t["r_neg1"].mag = c2 /\ t["r_neg2"].mag = c3
      /\ t["rinf"].mag = c4
      /\ c0 \in Nat /\ c1 \in Nat /\ c2 \in Nat /\ c3 \in Nat /\ c4 \in Nat
  BY <1>2, <1>3, MagOf, CoefficientsNat DEF Products5
<1>5. /\ e1 \in Nat /\ e2 \in Nat /\ e3 \in Nat /\ e4 \in Nat
      /\ product = c0 + e1 + e2 + e3 + e4 /\ product < Weight(Capacity("q_neg2"))
      /\ c0 < Weight(Capacity("q_neg2")) /\ c0 + e1 < Weight(Capacity("q_neg2"))
      /\ c0 + e1 + e2 < Weight(Capacity("q_neg2")) /\ c0 + e1 + e2 + e3 < Weight(Capacity("q_neg2"))
      /\ Capacity("q_neg2") \in Nat
  BY <1>2, PartialSums, Toom3Capacities
<1>6. /\ e1 = c1 * Weight(k) /\ e2 = c2 * Weight(2 * k) /\ e3 = c3 * Weight(3 * k) /\ e4 = c4 * Weight(4 * k)
      /\ k \in Nat /\ 2 * k \in Nat /\ 3 * k \in Nat /\ 4 * k \in Nat /\ k >= 1 /\ c0 = c0 * Weight(0)
  <2>1. k \in Nat /\ k >= 1
    BY <1>2, OperandsOf
  <2>2. /\ Weight(2 * k) = w * w /\ Weight(3 * k) = (w * w) * w /\ Weight(4 * k) = (w * w) * (w * w)
    BY <2>1, WeightsOf
  <2>3. c0 = c0 * Weight(0)
    BY <1>4, WeightOf
  <2> QED  BY <2>1, <2>2, <2>3
<1>7. \A x \in Temps : Dense(t[x])
  BY <1>2 DEF Good
<1> HIDE DEF e1, e2, e3, e4, k
<1>8. Good(s0) /\ s0["q_neg2"].mag = 0 /\ s0["q_neg2"].sign = 1 /\ \A z \in Names : z # "q_neg2" => s0[z] = t[z]
  <2> DEFINE u == Zset(t["q_neg2"])
  <2>1. t["q_neg2"] \in Header /\ t \in Numbers
    BY <1>2, <1>3, NumbersOf DEF Good
  <2>2. Fields(u, 0, 0, 1, t["q_neg2"].hi)
    BY <2>1, ZsetOf
  <2>3. s0 = [t EXCEPT !["q_neg2"] = u]
    OBVIOUS
  <2> HIDE DEF u, s0
  <2>4. Changes(t, "q_neg2", s0) /\ s0["q_neg2"] = u
    BY <1>3, <2>1, <2>2, <2>3, ChangesOf DEF Fields
  <2>5. Dense(u) /\ u.hi <= Capacity("q_neg2")
    BY <1>2, <1>3, <2>2, LimbsZero DEF Fields, Dense, Good
  <2>6. Good(s0)
    BY <1>2, <1>3, <2>4, <2>5, GoodStep
  <2> QED  BY <2>2, <2>4, <2>6 DEF Changes, Fields
<1> HIDE DEF s0
<1>9. Adds(s0, "q_neg2", s1, c0)
  <2>1. s0["r0"] = t["r0"] /\ Dense(s0["r0"]) /\ Dense(s0["q_neg2"])
        /\ Good(s0) /\ s0["q_neg2"].sign = 1 /\ s0["q_neg2"].mag = 0
    BY <1>2, <1>3, <1>8 DEF Good
  <2>2. s0["r0"].mag = c0 /\ s0["r0"].sign = 1
    BY <1>2, <1>4, <2>1
  <2>3. c0 = s0["q_neg2"].mag + s0["r0"].mag * Weight(0)
    BY <1>4, <1>5, <1>6, <2>1, <2>2
  <2>4. c0 < Weight(Capacity("q_neg2")) /\ Capacity("q_neg2") \in Nat
        /\ 0 \in Nat /\ (0 = 0 => s0["r0"].sign = 1)
    BY <1>5, <1>6, <2>2
  <2> HIDE DEF s1
  <2>5. Adds(s0, "q_neg2", AddShift(s0, "q_neg2", "r0", 0), c0)
    BY <1>3, <2>1, <2>3, <2>4, GoodShift
  <2> QED  BY <2>5 DEF s1
<1> HIDE DEF s1
<1>10. Adds(s1, "q_neg2", s2, c0 + e1)
  <2>1. s1["r1"] = t["r1"] /\ Dense(s1["r1"]) /\ Dense(s1["q_neg2"])
        /\ Good(s1) /\ s1["q_neg2"].sign = 1 /\ s1["q_neg2"].mag = c0
    BY <1>2, <1>3, <1>8, <1>9 DEF Good, Adds
  <2>2. s1["r1"].mag = c1
    BY <1>2, <1>4, <2>1
  <2>3. c0 + e1 = s1["q_neg2"].mag + s1["r1"].mag * Weight(k)
    BY <1>4, <1>5, <1>6, <2>1, <2>2
  <2>4. c0 + e1 < Weight(Capacity("q_neg2")) /\ Capacity("q_neg2") \in Nat
        /\ k \in Nat /\ (k = 0 => s1["r1"].sign = 1)
    BY <1>5, <1>6, <2>2
  <2> HIDE DEF s2
  <2>5. Adds(s1, "q_neg2", AddShift(s1, "q_neg2", "r1", k), c0 + e1)
    BY <1>3, <2>1, <2>3, <2>4, GoodShift
  <2> QED  BY <2>5 DEF s2
<1> HIDE DEF s2
<1>11. Adds(s2, "q_neg2", s3, c0 + e1 + e2)
  <2>1. s2["r_neg1"] = t["r_neg1"] /\ Dense(s2["r_neg1"]) /\ Dense(s2["q_neg2"])
        /\ Good(s2) /\ s2["q_neg2"].sign = 1 /\ s2["q_neg2"].mag = c0 + e1
    BY <1>2, <1>3, <1>8, <1>9, <1>10 DEF Good, Adds
  <2>2. s2["r_neg1"].mag = c2
    BY <1>2, <1>4, <2>1
  <2>3. c0 + e1 + e2 = s2["q_neg2"].mag + s2["r_neg1"].mag * Weight(2 * k)
    BY <1>4, <1>5, <1>6, <2>1, <2>2
  <2>4. c0 + e1 + e2 < Weight(Capacity("q_neg2")) /\ Capacity("q_neg2") \in Nat
        /\ 2 * k \in Nat /\ (2 * k = 0 => s2["r_neg1"].sign = 1)
    BY <1>5, <1>6, <2>2
  <2> HIDE DEF s3
  <2>5. Adds(s2, "q_neg2", AddShift(s2, "q_neg2", "r_neg1", 2 * k), c0 + e1 + e2)
    BY <1>3, <2>1, <2>3, <2>4, GoodShift
  <2> QED  BY <2>5 DEF s3
<1> HIDE DEF s3
<1>12. Adds(s3, "q_neg2", s4, c0 + e1 + e2 + e3)
  <2>1. s3["r_neg2"] = t["r_neg2"] /\ Dense(s3["r_neg2"]) /\ Dense(s3["q_neg2"])
        /\ Good(s3) /\ s3["q_neg2"].sign = 1 /\ s3["q_neg2"].mag = c0 + e1 + e2
    BY <1>2, <1>3, <1>8, <1>9, <1>10, <1>11 DEF Good, Adds
  <2>2. s3["r_neg2"].mag = c3
    BY <1>2, <1>4, <2>1
  <2>3. c0 + e1 + e2 + e3 = s3["q_neg2"].mag + s3["r_neg2"].mag * Weight(3 * k)
    BY <1>4, <1>5, <1>6, <2>1, <2>2
  <2>4. c0 + e1 + e2 + e3 < Weight(Capacity("q_neg2")) /\ Capacity("q_neg2") \in Nat
        /\ 3 * k \in Nat /\ (3 * k = 0 => s3["r_neg2"].sign = 1)
    BY <1>5, <1>6, <2>2
  <2> HIDE DEF s4
  <2>5. Adds(s3, "q_neg2", AddShift(s3, "q_neg2", "r_neg2", 3 * k), c0 + e1 + e2 + e3)
    BY <1>3, <2>1, <2>3, <2>4, GoodShift
  <2> QED  BY <2>5 DEF s4
<1> HIDE DEF s4
<1>13. Adds(s4, "q_neg2", s5, product)
  <2>1. s4["rinf"] = t["rinf"] /\ Dense(s4["rinf"]) /\ Dense(s4["q_neg2"])
        /\ Good(s4) /\ s4["q_neg2"].sign = 1 /\ s4["q_neg2"].mag = c0 + e1 + e2 + e3
    BY <1>2, <1>3, <1>8, <1>9, <1>10, <1>11, <1>12 DEF Good, Adds
  <2>2. s4["rinf"].mag = c4
    BY <1>2, <1>4, <2>1
  <2>3. product = s4["q_neg2"].mag + s4["rinf"].mag * Weight(4 * k)
    BY <1>4, <1>5, <1>6, <2>1, <2>2
  <2>4. product < Weight(Capacity("q_neg2")) /\ Capacity("q_neg2") \in Nat
        /\ 4 * k \in Nat /\ (4 * k = 0 => s4["rinf"].sign = 1)
    BY <1>5, <1>6, <2>2
  <2> HIDE DEF s5
  <2>5. Adds(s4, "q_neg2", AddShift(s4, "q_neg2", "rinf", 4 * k), product)
    BY <1>3, <2>1, <2>3, <2>4, GoodShift
  <2> QED  BY <2>5 DEF s5
<1> HIDE DEF s5
<1>14. /\ Good(t') /\ res' = product /\ Val(t'["q_neg2"]) = product
       /\ \A z \in Names : z # "q_neg2" => t'[z] = t[z]
  <2>1. \A z \in Names : z # "q_neg2" => s5[z] = s4[z] /\ s4[z] = s3[z] /\ s3[z] = s2[z] /\ s2[z] = s1[z]
          /\ s1[z] = s0[z] /\ s0[z] = t[z]
    BY <1>8, <1>9, <1>10, <1>11, <1>12, <1>13 DEF Adds
  <2>2. Good(s5) /\ s5["q_neg2"].mag = product /\ s5["q_neg2"].sign = 1
    BY <1>13 DEF Adds
  <2>3. s5["q_neg2"] \in Header
    BY <1>3, <2>2, NumbersOf DEF Good
  <2>4. Val(s5["q_neg2"]) = product
    BY <2>2, <2>3, HeaderOf
  <2> QED  BY <1>1, <2>1, <2>2, <2>4
<1>15. Framed
  BY <1>1, <1>14, FramedOf
<1>16. Core'
  <2>1. ValuesInv'
    BY <1>1, <1>14, <1>15, PartsSame DEF ValuesInv, KaratsubaLabels
  <2>2. t'["r0"].sign = 1
    BY <1>2, <1>3, <1>14
  <2> QED  BY <1>1, <1>2, <1>14, <2>1, <2>2, GoodNext DEF Algebra!Labels, KaratsubaLabels
<1>17. Algebra!Toom3Sum
  <2>1. UNCHANGED Algebra!operands
    BY <1>15, AlgebraFrame
  <2>2. UNCHANGED Algebra!products
    BY <1>3, <1>14 DEF Algebra!products, Val
  <2>3. \A z \in {"p1", "q1", "p_neg1", "q_neg1", "p_neg2"} : Val(t'[z]) = Val(t[z])
    BY <1>14 DEF Names, Temps
  <2>4. Algebra!Mag(c1) = c1 /\ Algebra!Mag(c2) = c2 /\ Algebra!Mag(c3) = c3
    BY <1>4 DEF Algebra!Mag
  <2>5. res' = Val(t["r0"]) + Algebra!Mag(Val(t["r1"])) * w + Algebra!Mag(Val(t["r_neg1"])) * (w * w)
                 + Algebra!Mag(Val(t["r_neg2"])) * ((w * w) * w) + Val(t["rinf"]) * ((w * w) * (w * w))
    BY <1>2, <1>5, <1>14, <2>4 DEF Products5, e1, e2, e3, e4
  <2> QED  BY <1>1, <1>14, <2>1, <2>2, <2>3, <2>5
           DEF Algebra!Toom3Sum, Algebra!Step, Algebra!Goto
<1> QED  BY <1>16, <1>17

-----------------------------------------------------------------------------
(* The steps of Karatsuba *)

LEMMA KaratsubaLabel ==
  ASSUME Core, pc \in KaratsubaLabels
  PROVE  alg = "karatsuba" /\ Frame /\ Good(t) /\ t["r0"].sign = 1 /\ a2 = 0 /\ b2 = 0
<1>1. pc # "done"
  BY DEF KaratsubaLabels
<1> QED  BY <1>1, CoreFrame, GoodNow DEF Core, Unsigned, ValuesInv

\* The product polynomial of operands of two parts.
LEMMA TwoParts ==
  ASSUME Frame, a2 = 0, b2 = 0
  PROVE  /\ c0 = a0 * b0 /\ c2 = a1 * b1 /\ c3 = 0 /\ c4 = 0
         /\ (a0 + a1) * (b0 + b1) = c0 + c1 + c2
<1>1. a0 \in Nat /\ a1 \in Nat /\ b0 \in Nat /\ b1 \in Nat
  BY OperandsOf
<1>2. /\ c0 = a0 * b0 /\ c1 = a0 * b1 + a1 * b0 /\ c2 = a0 * 0 + a1 * b1 + 0 * b0
      /\ c3 = a1 * 0 + 0 * b1 /\ c4 = 0 * 0
  BY DEF c0, c1, c2, c3, c4
<1>3. c2 = a1 * b1 /\ c3 = 0 /\ c4 = 0
  BY <1>1, <1>2, SMT
<1>4. (a0 + a1) * (b0 + b1) = a0 * b0 + (a0 * b1 + a1 * b0) + a1 * b1
  <2>1. \A x, y, z, u \in Nat : (x + y) * (z + u) = x * z + (x * u + y * z) + y * u
    BY SMT
  <2> QED  BY <1>1, <2>1
<1> QED  BY <1>2, <1>3, <1>4

\* The sums of the parts and their product fit their temporaries.
LEMMA KaratsubaFits ==
  ASSUME Frame, alg = "karatsuba", a2 = 0, b2 = 0
  PROVE  /\ Capacity("p1") \in Nat /\ Capacity("q1") \in Nat /\ Capacity("r1") \in Nat
         /\ Capacity("r0") \in Nat /\ Capacity("rinf") \in Nat
         /\ Capacity("r1") = Capacity("p1") + Capacity("q1")
         /\ c0 + c1 + c2 < Weight(Capacity("r1"))
         /\ Larger(Part(lenM, 1), Part(lenM, 0)) + 1 <= Capacity("p1")
         /\ Larger(Part(lenN, 1), Part(lenN, 0)) + 1 <= Capacity("q1")
         /\ Part(lenM, 0) + Part(lenN, 0) <= Capacity("r0")
         /\ Part(lenM, 1) + Part(lenN, 1) <= Capacity("rinf")
<1>1. /\ Capacity("p1") = Larger(Part(lenM, 0), Part(lenM, 1)) + 1
      /\ Capacity("q1") = Larger(Part(lenN, 0), Part(lenN, 1)) + 1
      /\ Capacity("r0") = lenM + lenN
      /\ Capacity("r1") = Capacity("p1") + Capacity("q1")
      /\ Capacity("rinf") = Part(lenM, 1) + Part(lenN, 1)
  BY KaratsubaCapacities
<1>2. /\ Part(lenM, 0) \in Nat /\ Part(lenM, 1) \in Nat /\ Part(lenN, 0) \in Nat /\ Part(lenN, 1) \in Nat
      /\ Part(lenM, 0) <= lenM /\ Part(lenN, 0) <= lenN /\ lenM \in Nat /\ lenN \in Nat
  BY OperandsOf, LongerOf DEF Splits, Frame
<1>3. /\ Capacity("p1") \in Nat /\ Capacity("q1") \in Nat /\ Capacity("r1") \in Nat
      /\ Capacity("r0") \in Nat /\ Capacity("rinf") \in Nat
      /\ Larger(Part(lenM, 1), Part(lenM, 0)) + 1 <= Capacity("p1")
      /\ Larger(Part(lenN, 1), Part(lenN, 0)) + 1 <= Capacity("q1")
      /\ Part(lenM, 0) + Part(lenN, 0) <= Capacity("r0")
      /\ Part(lenM, 1) + Part(lenN, 1) <= Capacity("rinf")
  BY <1>1, <1>2 DEF Larger
<1>4. ASSUME NEW i \in Nat, NEW j \in Nat, NEW x \in Nat, NEW y \in Nat, x < Weight(i), y < Weight(j)
      PROVE  x + y \in Nat /\ x + y < Weight(Larger(i, j) + 1)
  <2> DEFINE l == Larger(i, j)
  <2>1. l \in Nat /\ i <= l /\ j <= l
    BY LargerOf
  <2> HIDE DEF l
  <2>2. /\ Weight(i) \in Nat /\ Weight(j) \in Nat /\ Weight(l) \in Nat /\ Weight(i) <= Weight(l)
        /\ Weight(j) <= Weight(l) /\ Weight(l + 1) \in Nat /\ Weight(l + 1) >= 4 * Weight(l)
    BY <2>1, WeightMonotone, WeightStep
  <2>3. x + y \in Nat /\ x + y < Weight(l + 1)
    BY <1>4, <2>2
  <2> QED  BY <2>3 DEF l
<1>5. /\ a0 \in Nat /\ a1 \in Nat /\ b0 \in Nat /\ b1 \in Nat
      /\ a0 < Weight(Part(lenM, 0)) /\ a1 < Weight(Part(lenM, 1))
      /\ b0 < Weight(Part(lenN, 0)) /\ b1 < Weight(Part(lenN, 1))
  BY OperandsOf
<1>6. /\ a0 + a1 \in Nat /\ a0 + a1 < Weight(Capacity("p1"))
      /\ b0 + b1 \in Nat /\ b0 + b1 < Weight(Capacity("q1"))
  BY <1>1, <1>2, <1>4, <1>5
<1>7. (a0 + a1) * (b0 + b1) < Weight(Capacity("p1") + Capacity("q1"))
  BY <1>3, <1>6, ProductBelow
<1> QED  BY <1>1, <1>3, <1>7, TwoParts

\* The sums of Karatsuba: nothing compares them, so that they may have zeros on top.
LEMMA GoodPart ==
  ASSUME NEW s, Good(s), alg = "karatsuba", NEW r \in {"p1", "q1"}, NEW x \in Slices, NEW y \in Slices,
         Whole(t[x]), Whole(t[y]), t[x].sign = 1, t[y].sign = 1, t[x].n \in Nat, t[y].n \in Nat,
         Capacity(r) \in Nat, Larger(t[x].n, t[y].n) + 1 <= Capacity(r)
  PROVE  LET s1 == AddWC(s, r, x, y)
         IN  Adds(s, r, s1, t[x].mag + t[y].mag) /\ s1[r].n <= Capacity(r)
<1> DEFINE s1 == AddWC(s, r, x, y)
<1>1. s \in Numbers /\ r \in Temps /\ r \in Names /\ x \in Names /\ y \in Names /\ s[x] = t[x] /\ s[y] = t[y]
      /\ s[r].hi <= Capacity(r)
  BY NamesApart DEF Good, Temps
<1>2. /\ Changes(s, r, s1) /\ s1[r].mag = t[x].mag + t[y].mag
      /\ s1[r].n <= Larger(t[x].n, t[y].n) + 1
      /\ s1[r].hi \in {s[r].hi, Larger(s[r].hi, s1[r].n)} /\ s1[r].sign = 1
  BY <1>1, AddWCOf
<1> HIDE DEF s1
<1>3. s1[r].n \in Nat /\ s[r].hi \in Nat
  BY <1>1, <1>2, NumbersOf, HeaderOf DEF Changes
<1>4. s1[r].n <= Capacity(r)
  <2>1. Larger(t[x].n, t[y].n) \in Nat
    BY LargerOf
  <2>2. \A i, l, c \in Nat : i <= l + 1 /\ l + 1 <= c => i <= c
    OBVIOUS
  <2> QED  BY <1>2, <1>3, <2>1, <2>2
<1>5. s1[r].hi <= Capacity(r)
  BY <1>1, <1>2, <1>3, <1>4 DEF Larger
<1>6. Good(s1)
  BY <1>1, <1>2, <1>5, GoodStep
<1> QED  BY <1>2, <1>4, <1>6 DEF Adds, Changes, s1

\* A magnitude is subtracted from one that is not smaller.
LEMMA GoodBorrow ==
  ASSUME NEW s, Good(s), NEW r \in Temps, NEW x \in Temps, r \notin {"p1", "q1"}, x \notin {"p1", "q1"},
         NEW v \in Nat, NEW w \in Nat, w <= v, Val(s[r]) = v, Val(s[x]) = w,
         Capacity(r) \in Nat, v < Weight(Capacity(r))
  PROVE  Gets(s, r, SubWB(s, r, r, x), v - w)
<1> DEFINE s1 == SubWB(s, r, r, x)
<1>1. /\ s \in Numbers /\ r \in Names /\ x \in Names /\ s[r].hi <= Capacity(r)
      /\ Dense(s[r]) /\ Dense(s[x])
  BY NamesApart DEF Good
<1>2. s[r] \in Header /\ s[x] \in Header /\ s[r].mag = v /\ s[x].mag = w
  BY <1>1, MagOf, NumbersOf
<1>3. Whole(s[r]) /\ Whole(s[x])
  BY <1>1, <1>2, DenseWhole
<1>4. /\ Changes(s, r, s1) /\ s1[r].mag = v - w
      /\ s1[r].hi \in {s[r].hi, Larger(s[r].hi, s[r].n)} /\ Dense(s1[r])
      /\ Val(s1[r]) = s[r].sign * (v - w)
  BY <1>1, <1>2, <1>3, SubWBOf
<1> HIDE DEF s1
<1>5. s[r].sign \in {1, -1} /\ s[r].hi \in Nat /\ (s[r].sign = -1 => v = - v)
  BY <1>2, HeaderOf
<1>6. Val(s1[r]) = v - w
  BY <1>4, <1>5
<1>7. s[r].n \in Nat /\ s[r].n <= Capacity(r)
  BY <1>1, <1>2, LimbsWithin DEF Dense
<1>8. s1[r].hi <= Capacity(r)
  BY <1>1, <1>4, <1>5, <1>7 DEF Larger
<1>9. Good(s1)
  BY <1>4, <1>8, GoodStep
<1> QED  BY <1>4, <1>6, <1>9 DEF Gets, Changes, s1

LEMMA KaratsubaProductsStep == Core /\ KaratsubaProducts => Core' /\ Algebra!KaratsubaProducts
<1> SUFFICES ASSUME Core, KaratsubaProducts PROVE Core' /\ Algebra!KaratsubaProducts
  OBVIOUS
<1> DEFINE s1 == AddWC(t, "p1", "m1", "m0")
           s2 == AddWC(s1, "q1", "n1", "n0")
           s3 == Product(s2, "r0", "m0", "n0")
           s4 == Product(s3, "rinf", "m1", "n1")
           s5 == Product(s4, "r1", "p1", "q1")
<1>1. /\ pc = "karatsuba" /\ pc' = "z1-z2" /\ t' = s5
      /\ UNCHANGED <<alg, lenM, lenN>> /\ UNCHANGED res
  BY DEF KaratsubaProducts, TempsStep
<1>2. alg = "karatsuba" /\ Frame /\ Good(t) /\ t["r0"].sign = 1 /\ a2 = 0 /\ b2 = 0
  BY <1>1, KaratsubaLabel DEF KaratsubaLabels
<1>3. t["r1"].sign = 1 /\ t["rinf"].sign = 1 /\ Val(t["r_neg1"]) = 0 /\ Val(t["r_neg2"]) = 0
  BY <1>1 DEF Core, Unsigned, ValuesInv
<1>4. /\ "r0" \in Temps /\ "r1" \in Temps /\ "rinf" \in Temps /\ "p1" \in Temps /\ "q1" \in Temps
      /\ "m0" \in Slices /\ "m1" \in Slices /\ "n0" \in Slices /\ "n1" \in Slices
      /\ Slices \subseteq Names /\ Temps \subseteq Names
      /\ {"p_neg1", "q_neg1", "p_neg2", "q_neg2", "r_neg1", "r_neg2"} \subseteq Names
  BY DEF Names, Slices, Temps
<1>5. /\ t["m0"].n = Part(lenM, 0) /\ t["m1"].n = Part(lenM, 1)
      /\ t["n0"].n = Part(lenN, 0) /\ t["n1"].n = Part(lenN, 1)
      /\ Part(lenM, 0) \in Nat /\ Part(lenM, 1) \in Nat /\ Part(lenN, 0) \in Nat /\ Part(lenN, 1) \in Nat
      /\ Whole(t["m0"]) /\ Whole(t["m1"]) /\ Whole(t["n0"]) /\ Whole(t["n1"])
      /\ t["m0"].sign = 1 /\ t["m1"].sign = 1 /\ t["n0"].sign = 1 /\ t["n1"].sign = 1
  <2>1. /\ Part(lenM, 0) \in Nat /\ Part(lenM, 1) \in Nat /\ Part(lenN, 0) \in Nat /\ Part(lenN, 1) \in Nat
    BY <1>2, OperandsOf DEF Splits
  <2> QED  BY <1>2, <2>1 DEF Frame, PartsKept, PartKept, Whole
<1>6. a0 \in Nat /\ a1 \in Nat /\ b0 \in Nat /\ b1 \in Nat
  BY <1>2, OperandsOf
<1>7. Adds(t, "p1", s1, a1 + a0) /\ s1["p1"].n <= Capacity("p1")
  BY <1>2, <1>4, <1>5, KaratsubaFits, GoodPart DEF a0, a1
<1> HIDE DEF s1
<1>8. Adds(s1, "q1", s2, b1 + b0) /\ s2["q1"].n <= Capacity("q1")
  <2>1. Good(s1)
    BY <1>7 DEF Adds
  <2> QED  BY <1>2, <1>4, <1>5, <2>1, KaratsubaFits, GoodPart DEF b0, b1
<1> HIDE DEF s2
<1>9. Good(s2) /\ \A z \in Names : z \notin {"p1", "q1"} => s2[z] = t[z]
  BY <1>7, <1>8 DEF Adds
<1>10. Multiplies(s2, "r0", s3, c0)
  <2>1. s2["m0"] = t["m0"] /\ s2["n0"] = t["n0"] /\ t["m0"].n + t["n0"].n <= Capacity("r0") /\ Capacity("r0") \in Nat
    BY <1>2, <1>4, <1>5, <1>9, KaratsubaFits
  <2> QED  BY <1>4, <1>9, <2>1, GoodProduct DEF c0, a0, b0
<1> HIDE DEF s3
<1>11. Multiplies(s3, "rinf", s4, c2)
  <2>1. s3["m1"] = t["m1"] /\ s3["n1"] = t["n1"] /\ Good(s3)
    BY <1>4, <1>9, <1>10 DEF Multiplies
  <2>2. t["m1"].n + t["n1"].n <= Capacity("rinf") /\ Capacity("rinf") \in Nat
    BY <1>2, <1>5, KaratsubaFits
  <2>3. c2 = a1 * b1
    BY <1>2, TwoParts
  <2>4. Multiplies(s3, "rinf", s4, a1 * b1)
    BY <1>4, <2>1, <2>2, GoodProduct DEF a1, b1
  <2> QED  BY <2>3, <2>4
<1> HIDE DEF s4
<1>12. /\ s4["p1"] = s1["p1"] /\ s4["q1"] = s2["q1"] /\ Good(s4)
       /\ \A z \in Names : z \notin {"p1", "q1", "r0", "rinf"} => s4[z] = t[z]
  <2>1. s2["p1"] = s1["p1"]
    BY <1>4, <1>8 DEF Adds
  <2> QED  BY <1>4, <1>9, <1>10, <1>11, <2>1 DEF Multiplies
<1>13. Multiplies(s4, "r1", s5, (a1 + a0) * (b1 + b0))
  <2>1. /\ s1["p1"].mag = a1 + a0 /\ s2["q1"].mag = b1 + b0
        /\ s1["p1"].n <= Capacity("p1") /\ s2["q1"].n <= Capacity("q1")
    BY <1>7, <1>8 DEF Adds
  <2>2. s1["p1"] \in Header /\ s2["q1"] \in Header
    BY <1>4, <1>7, <1>9, NumbersOf DEF Adds, Good
  <2>3. s1["p1"].n \in Nat /\ s2["q1"].n \in Nat
    BY <2>2, HeaderOf
  <2>4. s1["p1"].n + s2["q1"].n <= Capacity("r1") /\ Capacity("r1") \in Nat
    BY <1>2, <2>1, <2>3, KaratsubaFits
  <2>5. Multiplies(s4, "r1", Product(s4, "r1", "p1", "q1"), s1["p1"].mag * s2["q1"].mag)
    BY <1>4, <1>12, <2>4, GoodProduct
  <2> QED  BY <2>1, <2>5
<1> HIDE DEF s5
<1>14. /\ Good(t') /\ t'["p1"] = s1["p1"] /\ t'["q1"] = s2["q1"]
       /\ t'["r0"].mag = c0 /\ t'["r0"].sign = 1 /\ t'["rinf"].mag = c2 /\ t'["rinf"].sign = 1
       /\ t'["r1"].mag = (a1 + a0) * (b1 + b0) /\ t'["r1"].sign = 1
       /\ \A z \in Names : z \notin {"p1", "q1", "r0", "rinf", "r1"} => t'[z] = t[z]
  <2>1. s5["p1"] = s4["p1"] /\ s5["q1"] = s4["q1"] /\ s5["r0"] = s4["r0"] /\ s5["rinf"] = s4["rinf"]
    BY <1>4, <1>13 DEF Multiplies
  <2>2. s4["r0"] = s3["r0"] /\ s3["rinf"] = s2["rinf"] /\ s2["rinf"] = t["rinf"] /\ s2["r0"] = t["r0"]
        /\ s4["r1"] = t["r1"]
    BY <1>4, <1>9, <1>10, <1>11, <1>12 DEF Multiplies
  <2>3. s3["r0"].mag = c0 /\ s3["r0"].sign = 1
    BY <1>2, <1>10, <2>2 DEF Multiplies
  <2>4. s4["rinf"].mag = c2 /\ s4["rinf"].sign = 1
    BY <1>3, <1>11, <2>2 DEF Multiplies
  <2>5. s5["r1"].mag = (a1 + a0) * (b1 + b0) /\ s5["r1"].sign = 1 /\ Good(s5)
    BY <1>3, <1>13, <2>2 DEF Multiplies
  <2>6. \A z \in Names : z \notin {"p1", "q1", "r0", "rinf", "r1"} => s5[z] = t[z]
    BY <1>12, <1>13 DEF Multiplies
  <2> QED  BY <1>1, <1>12, <2>1, <2>2, <2>3, <2>4, <2>5, <2>6
<1>15. Framed
  BY <1>1, <1>14, FramedOf
<1>16. \A x \in Temps : t'[x].sign = 1 => Val(t'[x]) = t'[x].mag
  <2>1. \A x \in Temps : t'[x] \in Header
    BY <1>4, <1>14, NumbersOf DEF Good
  <2> QED  BY <2>1, HeaderOf
<1>17. (a1 + a0) * (b1 + b0) = c0 + c1 + c2 /\ a1 + a0 = a0 + a1 /\ b1 + b0 = b0 + b1
  <2>1. a1 + a0 = a0 + a1 /\ b1 + b0 = b0 + b1
    BY <1>6
  <2> QED  BY <1>2, <2>1, TwoParts
<1>18. Val(t'["r0"]) = c0 /\ Val(t'["r1"]) = c0 + c1 + c2 /\ Val(t'["rinf"]) = c2
  BY <1>4, <1>14, <1>16, <1>17
<1>19. t'["r_neg1"] = t["r_neg1"] /\ t'["r_neg2"] = t["r_neg2"]
  BY <1>4, <1>14
<1>20. Core'
  <2>1. Products5(c0, c0 + c1 + c2, 0, 0, c2)'
    BY <1>3, <1>15, <1>18, <1>19, PartsSame DEF Products5
  <2>2. ValuesInv'
    BY <1>1, <1>2, <1>15, <2>1, PartsSame DEF ValuesInv, KaratsubaLabels
  <2> QED  BY <1>1, <1>2, <1>14, <2>2, GoodNext DEF Algebra!Labels, KaratsubaLabels
<1>21. Algebra!KaratsubaProducts
  <2>1. UNCHANGED Algebra!operands
    BY <1>15, AlgebraFrame
  <2>2. Val(t'["p1"]) = a0 + a1 /\ Val(t'["q1"]) = b0 + b1
    <3>1. /\ s1["p1"].mag = a1 + a0 /\ s2["q1"].mag = b1 + b0 /\ s1["p1"].sign = 1 /\ s2["q1"].sign = 1
      BY <1>7, <1>8 DEF Adds
    <3> QED  BY <1>4, <1>14, <1>16, <1>17, <3>1
  <2>3. Val(t'["r1"]) = Val(t'["p1"]) * Val(t'["q1"])
    BY <1>2, <1>18, <2>2, TwoParts
  <2>4. \A z \in {"p_neg1", "q_neg1", "p_neg2", "q_neg2", "r_neg1", "r_neg2"} : Val(t'[z]) = Val(t[z])
    BY <1>4, <1>14
  <2>5. /\ Val(t'["p1"]) = mParts[0] + mParts[1] /\ Val(t'["q1"]) = nParts[0] + nParts[1]
        /\ Val(t'["r0"]) = mParts[0] * nParts[0] /\ Val(t'["rinf"]) = mParts[1] * nParts[1]
    BY <1>2, <1>18, <2>2, TwoParts, PartsAt
  <2> QED  BY <1>1, <2>1, <2>3, <2>4, <2>5
           DEF Algebra!KaratsubaProducts, Algebra!Step, Algebra!Goto, mParts, nParts
<1> QED  BY <1>20, <1>21

LEMMA SubtractZ2Step == Core /\ SubtractZ2 => Core' /\ Algebra!SubtractZ2
<1> SUFFICES ASSUME Core, SubtractZ2 PROVE Core' /\ Algebra!SubtractZ2
  OBVIOUS
<1> DEFINE s1 == SubWB(t, "r1", "r1", "rinf")
<1>1. /\ pc = "z1-z2" /\ pc' = "z1-z0" /\ t' = s1
      /\ UNCHANGED <<alg, lenM, lenN>> /\ UNCHANGED res
  BY DEF SubtractZ2, TempsStep
<1>2. alg = "karatsuba" /\ Frame /\ Good(t) /\ t["r0"].sign = 1 /\ a2 = 0 /\ b2 = 0
  BY <1>1, KaratsubaLabel DEF KaratsubaLabels
<1>3. Products5(c0, c0 + c1 + c2, 0, 0, c2)
  BY <1>1 DEF Core, ValuesInv
<1>4. /\ c0 + c1 + c2 \in Nat /\ c2 \in Nat /\ c2 <= c0 + c1 + c2 /\ (c0 + c1 + c2) - c2 = c0 + c1
      /\ Capacity("r1") \in Nat /\ c0 + c1 + c2 < Weight(Capacity("r1"))
  <2>1. c0 \in Nat /\ c1 \in Nat /\ c2 \in Nat
    BY <1>2, CoefficientsNat
  <2>2. Capacity("r1") \in Nat /\ c0 + c1 + c2 < Weight(Capacity("r1"))
    BY <1>2, KaratsubaFits
  <2>3. Weight(Capacity("r1")) \in Nat
    BY <2>2, WeightGrows
  <2> QED  BY <2>1, <2>2, <2>3
<1>5. Gets(t, "r1", s1, (c0 + c1 + c2) - c2)
  BY <1>2, <1>3, <1>4, GoodBorrow DEF Products5, Temps
<1> HIDE DEF s1
<1>6. /\ Good(t') /\ Val(t'["r1"]) = c0 + c1
      /\ \A z \in Names : z # "r1" => t'[z] = t[z]
  BY <1>1, <1>4, <1>5 DEF Gets
<1>7. Framed
  BY <1>1, <1>6, FramedOf
<1>8. /\ t'["r0"] = t["r0"] /\ t'["r_neg1"] = t["r_neg1"] /\ t'["r_neg2"] = t["r_neg2"] /\ t'["rinf"] = t["rinf"]
      /\ \A x \in Points : t'[x] = t[x]
  BY <1>6 DEF Names, Temps, Points
<1>9. ValuesInv'
  <2>1. Products5(c0, c0 + c1, 0, 0, c2)'
    BY <1>3, <1>6, <1>7, <1>8, PartsSame DEF Products5
  <2>2. a2' = 0 /\ b2' = 0
    BY <1>2, <1>7, PartsSame
  <2> QED  BY <1>1, <2>1, <2>2 DEF ValuesInv, KaratsubaLabels
<1>10. Core'
  BY <1>1, <1>2, <1>6, <1>8, <1>9, GoodNext DEF Algebra!Labels, KaratsubaLabels
<1>11. Algebra!SubtractZ2
  <2>1. Val(t'["r1"]) = Val(t["r1"]) - Val(t["rinf"])
    BY <1>3, <1>4, <1>6 DEF Products5
  <2>2. UNCHANGED Algebra!operands /\ UNCHANGED Algebra!points
    BY <1>7, <1>8, AlgebraFrame, PointsSame
  <2> QED  BY <1>1, <1>8, <2>1, <2>2 DEF Algebra!SubtractZ2, Algebra!Step, Algebra!Goto
<1> QED  BY <1>10, <1>11

LEMMA SubtractZ0Step == Core /\ SubtractZ0 => Core' /\ Algebra!SubtractZ0
<1> SUFFICES ASSUME Core, SubtractZ0 PROVE Core' /\ Algebra!SubtractZ0
  OBVIOUS
<1> DEFINE s1 == SubWB(t, "r1", "r1", "r0")
<1>1. /\ pc = "z1-z0" /\ pc' = "karatsuba sum" /\ t' = s1
      /\ UNCHANGED <<alg, lenM, lenN>> /\ UNCHANGED res
  BY DEF SubtractZ0, TempsStep
<1>2. alg = "karatsuba" /\ Frame /\ Good(t) /\ t["r0"].sign = 1 /\ a2 = 0 /\ b2 = 0
  BY <1>1, KaratsubaLabel DEF KaratsubaLabels
<1>3. Products5(c0, c0 + c1, 0, 0, c2)
  BY <1>1 DEF Core, ValuesInv
<1>4. /\ c0 + c1 \in Nat /\ c0 \in Nat /\ c0 <= c0 + c1 /\ (c0 + c1) - c0 = c1
      /\ Capacity("r1") \in Nat /\ c0 + c1 < Weight(Capacity("r1"))
  <2>1. c0 \in Nat /\ c1 \in Nat /\ c2 \in Nat
    BY <1>2, CoefficientsNat
  <2>2. Capacity("r1") \in Nat /\ c0 + c1 + c2 < Weight(Capacity("r1"))
    BY <1>2, KaratsubaFits
  <2>3. Weight(Capacity("r1")) \in Nat
    BY <2>2, WeightGrows
  <2> QED  BY <2>1, <2>2, <2>3
<1>5. Gets(t, "r1", s1, (c0 + c1) - c0)
  BY <1>2, <1>3, <1>4, GoodBorrow DEF Products5, Temps
<1> HIDE DEF s1
<1>6. /\ Good(t') /\ Val(t'["r1"]) = c1
      /\ \A z \in Names : z # "r1" => t'[z] = t[z]
  BY <1>1, <1>4, <1>5 DEF Gets
<1>7. Framed
  BY <1>1, <1>6, FramedOf
<1>8. /\ t'["r0"] = t["r0"] /\ t'["r_neg1"] = t["r_neg1"] /\ t'["r_neg2"] = t["r_neg2"] /\ t'["rinf"] = t["rinf"]
      /\ \A x \in Points : t'[x] = t[x]
  BY <1>6 DEF Names, Temps, Points
<1>9. ValuesInv'
  <2>1. Products5(c0, c1, 0, 0, c2)'
    BY <1>3, <1>6, <1>7, <1>8, PartsSame DEF Products5
  <2>2. a2' = 0 /\ b2' = 0
    BY <1>2, <1>7, PartsSame
  <2> QED  BY <1>1, <2>1, <2>2 DEF ValuesInv, KaratsubaLabels
<1>10. Core'
  BY <1>1, <1>2, <1>6, <1>8, <1>9, GoodNext DEF Algebra!Labels, KaratsubaLabels
<1>11. Algebra!SubtractZ0
  <2>1. Val(t'["r1"]) = Val(t["r1"]) - Val(t["r0"])
    BY <1>3, <1>4, <1>6 DEF Products5
  <2>2. UNCHANGED Algebra!operands /\ UNCHANGED Algebra!points
    BY <1>7, <1>8, AlgebraFrame, PointsSame
  <2> QED  BY <1>1, <1>8, <2>1, <2>2 DEF Algebra!SubtractZ0, Algebra!Step, Algebra!Goto
<1> QED  BY <1>10, <1>11

LEMMA KaratsubaSumStep == Core /\ KaratsubaSum => Core' /\ Algebra!KaratsubaSum
<1> SUFFICES ASSUME Core, KaratsubaSum PROVE Core' /\ Algebra!KaratsubaSum
  OBVIOUS
<1> DEFINE k == PartLen  w == Weight(PartLen)
           e1 == c1 * w  e2 == c2 * (w * w)
           s1 == AddShift(t, "r0", "r1", k)
           s2 == AddShift(s1, "r0", "rinf", 2 * k)
<1>1. /\ pc = "karatsuba sum" /\ pc' = "done" /\ t' = s2
      /\ UNCHANGED <<alg, lenM, lenN>> /\ res' = t'["r0"].mag
  BY DEF KaratsubaSum, TempsStep
<1>2. alg = "karatsuba" /\ Frame /\ Good(t) /\ t["r0"].sign = 1 /\ a2 = 0 /\ b2 = 0
  BY <1>1, KaratsubaLabel DEF KaratsubaLabels
<1>3. Products5(c0, c1, 0, 0, c2)
  BY <1>1 DEF Core, ValuesInv
<1>4. /\ "r0" \in Temps /\ "r1" \in Temps /\ "rinf" \in Temps /\ Temps \subseteq Names
  BY DEF Names, Temps
<1>5. /\ t["r0"].mag = c0 /\ t["r1"].mag = c1 /\ t["rinf"].mag = c2
      /\ c0 \in Nat /\ c1 \in Nat /\ c2 \in Nat
  BY <1>2, <1>3, <1>4, MagOf, CoefficientsNat DEF Products5
<1>6. Dense(t["r0"]) /\ Dense(t["r1"]) /\ Dense(t["rinf"])
  BY <1>2, <1>4 DEF Good
<1>7. /\ w \in Nat /\ k \in Nat /\ k >= 1 /\ 2 * k \in Nat /\ Weight(2 * k) = w * w /\ w * w \in Nat
  <2>1. k \in Nat /\ k >= 1 /\ 2 * k \in Nat
    BY <1>2, OperandsOf
  <2>2. w \in Nat /\ Weight(2 * k) = w * w /\ w * w \in Nat
    BY <2>1, WeightsOf
  <2> QED  BY <2>1, <2>2
<1>8. /\ e1 \in Nat /\ e2 \in Nat /\ product = c0 + e1 + e2
      /\ product < Weight(Capacity("r0")) /\ c0 + e1 < Weight(Capacity("r0")) /\ Capacity("r0") \in Nat
  <2>1. e1 \in Nat /\ e2 \in Nat
    BY <1>5, <1>7, NatProducts
  <2>2. product = c0 + e1 + e2
    <3>1. c3 = 0 /\ c4 = 0
      BY <1>2, TwoParts
    <3>2. (w * w) * w \in Nat /\ (w * w) * (w * w) \in Nat
      BY <1>7, NatProducts
    <3>3. c3 * ((w * w) * w) = 0 /\ c4 * ((w * w) * (w * w)) = 0
      BY <3>1, <3>2
    <3>4. product = c0 + e1 + e2 + c3 * ((w * w) * w) + c4 * ((w * w) * (w * w))
      BY DEF product, Poly5
    <3> QED  BY <1>5, <2>1, <3>3, <3>4
  <2>3. Capacity("r0") \in Nat /\ Capacity("r0") = lenM + lenN
    BY <1>2, KaratsubaFits, KaratsubaCapacities
  <2>4. product < Weight(Capacity("r0"))
    BY <1>2, <2>3, ProductBound
  <2>5. Weight(Capacity("r0")) \in Nat
    BY <2>3, WeightGrows
  <2> QED  BY <1>5, <2>1, <2>2, <2>3, <2>4, <2>5
<1>9. c1 * Weight(k) = e1 /\ c2 * Weight(2 * k) = e2
  BY <1>7
<1> HIDE DEF e1, e2, k
<1>10. Adds(t, "r0", s1, c0 + e1)
  <2>1. /\ c0 + e1 = t["r0"].mag + t["r1"].mag * Weight(k) /\ k \in Nat /\ k # 0
    BY <1>5, <1>7, <1>9
  <2> HIDE DEF s1
  <2>2. Adds(t, "r0", AddShift(t, "r0", "r1", k), c0 + e1)
    BY <1>2, <1>4, <1>6, <1>8, <2>1, GoodShift
  <2> QED  BY <2>2 DEF s1
<1> HIDE DEF s1
<1>11. Adds(s1, "r0", s2, product)
  <2>1. /\ Good(s1) /\ s1["rinf"] = t["rinf"] /\ Dense(s1["r0"]) /\ s1["r0"].sign = 1 /\ s1["r0"].mag = c0 + e1
    BY <1>4, <1>10 DEF Adds, Good
  <2>2. product = s1["r0"].mag + s1["rinf"].mag * Weight(2 * k) /\ 2 * k \in Nat /\ 2 * k # 0
    BY <1>5, <1>7, <1>8, <1>9, <2>1
  <2> HIDE DEF s2
  <2>3. Adds(s1, "r0", AddShift(s1, "r0", "rinf", 2 * k), product)
    BY <1>4, <1>6, <1>8, <2>1, <2>2, GoodShift
  <2> QED  BY <2>3 DEF s2
<1> HIDE DEF s2
<1>12. /\ Good(t') /\ res' = product /\ Val(t'["r0"]) = product /\ t'["r0"].sign = 1
       /\ \A z \in Names : z # "r0" => t'[z] = t[z]
  <2>1. \A z \in Names : z # "r0" => s2[z] = s1[z] /\ s1[z] = t[z]
    BY <1>10, <1>11 DEF Adds
  <2>2. Good(s2) /\ s2["r0"].mag = product /\ s2["r0"].sign = 1
    BY <1>11 DEF Adds
  <2>3. s2["r0"] \in Header
    BY <1>4, <2>2, NumbersOf DEF Good
  <2>4. Val(s2["r0"]) = product
    BY <2>2, <2>3, HeaderOf
  <2> QED  BY <1>1, <2>1, <2>2, <2>4
<1>13. Framed
  BY <1>1, <1>12, FramedOf
<1>14. Core'
  <2>1. ValuesInv'
    BY <1>1, <1>12, <1>13, PartsSame DEF ValuesInv, KaratsubaLabels
  <2> QED  BY <1>1, <1>2, <1>12, <2>1, GoodNext DEF Algebra!Labels, KaratsubaLabels
<1>15. Algebra!KaratsubaSum
  <2>1. UNCHANGED Algebra!operands
    BY <1>13, AlgebraFrame
  <2>2. /\ t'["r1"] = t["r1"] /\ t'["r_neg1"] = t["r_neg1"] /\ t'["r_neg2"] = t["r_neg2"] /\ t'["rinf"] = t["rinf"]
        /\ \A x \in Points : t'[x] = t[x]
    BY <1>12 DEF Names, Temps, Points
  <2>3. UNCHANGED Algebra!points
    BY <2>2, PointsSame
  <2>4. Algebra!Mag(c1) = c1
    BY <1>5 DEF Algebra!Mag
  <2>5. res' = Val(t["r0"]) + Algebra!Mag(Val(t["r1"])) * w + Val(t["rinf"]) * (w * w)
    BY <1>3, <1>8, <1>12, <2>4 DEF Products5, e1, e2
  <2> QED  BY <1>1, <1>12, <2>1, <2>2, <2>3, <2>5
           DEF Algebra!KaratsubaSum, Algebra!Step, Algebra!Goto
<1> QED  BY <1>14, <1>15

-----------------------------------------------------------------------------
(* The initial states *)

LEMMA CapacityNat ==
  ASSUME Frame, NEW x \in Temps
  PROVE  0 <= Capacity(x)
<1>1. CASE alg = "toom3"
  <2>1. PartLen \in Nat /\ Part(lenM, 2) \in Nat /\ Part(lenN, 2) \in Nat
    BY OperandsOf DEF Splits
  <2> QED  BY <1>1, <2>1, Toom3Capacities DEF Temps
<1>2. CASE alg = "karatsuba"
  <2>1. x \notin {"p1", "q1", "r0", "r1", "rinf"} => Capacity(x) = 0
    BY <1>2 DEF Capacity
  <2>2. /\ Part(lenM, 0) \in Nat /\ Part(lenM, 1) \in Nat /\ Part(lenN, 0) \in Nat /\ Part(lenN, 1) \in Nat
        /\ lenM \in Nat /\ lenN \in Nat
    BY OperandsOf, LongerOf DEF Splits, Frame
  <2>3. x \in {"p1", "q1", "r0", "r1", "rinf"} => 0 <= Capacity(x)
    BY <1>2, <2>2, KaratsubaCapacities DEF Larger
  <2> QED  BY <2>1, <2>3
<1> QED  BY <1>1, <1>2 DEF Frame

\* A part as TempsInit slices it.
Sliced(u, v, len) ==
  /\ u \in Header /\ u.mag = v /\ u.n = len /\ u.sign = 1 /\ v \in Nat /\ v < Weight(len)
  /\ alg = "toom3" => Limbs(v) = len

LEMMA SliceOf ==
  ASSUME NEW v \in Nat, NEW len \in Nat
  PROVE  Slice(v, len) \in Header /\ Slice(v, len).mag = v /\ Slice(v, len).n = len /\ Slice(v, len).sign = 1
BY DEF Slice, Header

LEMMA InitSlices ==
  ASSUME TempsInit, PartsDense
  PROVE  /\ alg \in {"karatsuba", "toom3"} /\ pc = alg /\ lenM \in Lengths /\ lenN \in Lengths
         /\ t \in Numbers /\ \A x \in Temps : t[x] = Blank
         /\ \E v : Sliced(t["m0"], v, Part(lenM, 0))
         /\ \E v : Sliced(t["n0"], v, Part(lenN, 0))
         /\ \E v : Sliced(t["m1"], v, Part(lenM, 1))
         /\ \E v : Sliced(t["n1"], v, Part(lenN, 1))
         /\ \E v : Sliced(t["m2"], v, Part(lenM, 2))
         /\ \E v : Sliced(t["n2"], v, Part(lenN, 2))
         /\ alg = "karatsuba" => t["m2"].mag = 0 /\ t["n2"].mag = 0
<1>1. alg \in Algs /\ alg \in {"karatsuba", "toom3"} /\ pc = alg /\ lenM \in Lengths /\ lenN \in Lengths
  BY TempsAssumption DEF TempsInit
<1>2. PICK m0 \in PartValues(alg, Part(lenM, 0)), n0 \in PartValues(alg, Part(lenN, 0)),
           m1 \in PartValues(alg, Part(lenM, 1)), n1 \in PartValues(alg, Part(lenN, 1)),
           m2 \in IF alg = "toom3" THEN PartValues(alg, Part(lenM, 2)) ELSE {0},
           n2 \in IF alg = "toom3" THEN PartValues(alg, Part(lenN, 2)) ELSE {0} :
           /\ Normalised(lenM, m0, m1, m2) /\ Normalised(lenN, n0, n1, n2)
           /\ t = [x \in Names |->
                CASE x = "m0" -> Slice(m0, Part(lenM, 0)) [] x = "n0" -> Slice(n0, Part(lenN, 0))
                  [] x = "m1" -> Slice(m1, Part(lenM, 1)) [] x = "n1" -> Slice(n1, Part(lenN, 1))
                  [] x = "m2" -> Slice(m2, Part(lenM, 2)) [] x = "n2" -> Slice(n2, Part(lenN, 2))
                  [] x \in Temps -> Blank]
  BY DEF TempsInit
<1> DEFINE g(x) == CASE x = "m0" -> Slice(m0, Part(lenM, 0)) [] x = "n0" -> Slice(n0, Part(lenN, 0))
                  [] x = "m1" -> Slice(m1, Part(lenM, 1)) [] x = "n1" -> Slice(n1, Part(lenN, 1))
                  [] x = "m2" -> Slice(m2, Part(lenM, 2)) [] x = "n2" -> Slice(n2, Part(lenN, 2))
                  [] x \in Temps -> Blank
<1>3. ASSUME NEW len \in {lenM, lenN}, NEW i \in 0 .. 2, NEW v \in PartValues(alg, Part(len, i))
      PROVE  v \in Nat /\ v < Weight(Part(len, i)) /\ (alg = "toom3" => Limbs(v) = Part(len, i))
  <2>1. Part(len, i) \in Nat /\ Part(len, i) <= len /\ len \in Nat
    BY <1>1, PartOf, LongerOf DEF Splits
  <2>2. Part(len, i) \in 0 .. len
    BY <2>1
  <2> QED  BY <1>1, <2>2 DEF PartsDense
<1>4. \A len \in {lenM, lenN} : \A i \in 0 .. 2 : Part(len, i) \in Nat /\ 0 < Weight(Part(len, i))
  <2>1. \A len \in {lenM, lenN} : \A i \in 0 .. 2 : Part(len, i) \in Nat
    BY <1>1, PartOf DEF Splits
  <2>2. \A l \in Nat : 0 < Weight(l)
    BY WeightGrows
  <2> QED  BY <2>1, <2>2
<1>5. /\ t["m0"] = Slice(m0, Part(lenM, 0)) /\ t["n0"] = Slice(n0, Part(lenN, 0))
      /\ t["m1"] = Slice(m1, Part(lenM, 1)) /\ t["n1"] = Slice(n1, Part(lenN, 1))
      /\ t["m2"] = Slice(m2, Part(lenM, 2)) /\ t["n2"] = Slice(n2, Part(lenN, 2))
      /\ \A x \in Temps : t[x] = Blank
      /\ DOMAIN t = Names /\ t = [x \in Names |-> t[x]]
  <2>1. /\ "m0" \in Names /\ "m1" \in Names /\ "m2" \in Names
        /\ "n0" \in Names /\ "n1" \in Names /\ "n2" \in Names
        /\ \A x \in Temps : x \in Names /\ x \notin {"m0", "m1", "m2", "n0", "n1", "n2"}
    BY DEF Names, Slices, Temps
  <2>0. "m0" \notin Temps /\ "m1" \notin Temps /\ "m2" \notin Temps
        /\ "n0" \notin Temps /\ "n1" \notin Temps /\ "n2" \notin Temps
    BY <2>1
  <2>2. t = [x \in Names |-> g(x)]
    BY <1>2
  <2>3. /\ g("m0") = Slice(m0, Part(lenM, 0)) /\ g("n0") = Slice(n0, Part(lenN, 0))
    BY <2>0
  <2>4. /\ g("m1") = Slice(m1, Part(lenM, 1)) /\ g("n1") = Slice(n1, Part(lenN, 1))
    BY <2>0
  <2>5. /\ g("m2") = Slice(m2, Part(lenM, 2)) /\ g("n2") = Slice(n2, Part(lenN, 2))
    BY <2>0
  <2>6. \A x \in Temps : g(x) = Blank
    BY <2>1
  <2> HIDE DEF g
  <2>7. \A x \in Names : t[x] = g(x)
    BY <2>2
  <2>8. DOMAIN t = Names /\ t = [x \in Names |-> t[x]]
    BY <2>2
  <2> QED  BY <2>1, <2>3, <2>4, <2>5, <2>6, <2>7, <2>8
<1> HIDE DEF g
<1>6. /\ m0 \in Nat /\ m0 < Weight(Part(lenM, 0)) /\ (alg = "toom3" => Limbs(m0) = Part(lenM, 0))
      /\ n0 \in Nat /\ n0 < Weight(Part(lenN, 0)) /\ (alg = "toom3" => Limbs(n0) = Part(lenN, 0))
      /\ m1 \in Nat /\ m1 < Weight(Part(lenM, 1)) /\ (alg = "toom3" => Limbs(m1) = Part(lenM, 1))
      /\ n1 \in Nat /\ n1 < Weight(Part(lenN, 1)) /\ (alg = "toom3" => Limbs(n1) = Part(lenN, 1))
  BY <1>3
<1>7. /\ m2 \in Nat /\ m2 < Weight(Part(lenM, 2)) /\ (alg = "toom3" => Limbs(m2) = Part(lenM, 2))
      /\ n2 \in Nat /\ n2 < Weight(Part(lenN, 2)) /\ (alg = "toom3" => Limbs(n2) = Part(lenN, 2))
      /\ (alg = "karatsuba" => m2 = 0 /\ n2 = 0)
  <2>1. CASE alg = "toom3"
    BY <1>3, <2>1
  <2>2. CASE alg = "karatsuba"
    <3>1. m2 = 0 /\ n2 = 0
      BY <2>2
    <3> QED  BY <1>4, <2>2, <3>1
  <2> QED  BY <1>1, <2>1, <2>2
<1>8. /\ Sliced(t["m0"], m0, Part(lenM, 0)) /\ Sliced(t["n0"], n0, Part(lenN, 0))
      /\ Sliced(t["m1"], m1, Part(lenM, 1)) /\ Sliced(t["n1"], n1, Part(lenN, 1))
      /\ Sliced(t["m2"], m2, Part(lenM, 2)) /\ Sliced(t["n2"], n2, Part(lenN, 2))
  <2>1. /\ Part(lenM, 0) \in Nat /\ Part(lenM, 1) \in Nat /\ Part(lenM, 2) \in Nat
        /\ Part(lenN, 0) \in Nat /\ Part(lenN, 1) \in Nat /\ Part(lenN, 2) \in Nat
    BY <1>4
  <2> QED  BY <1>5, <1>6, <1>7, <2>1, SliceOf DEF Sliced
<1>9. t \in Numbers
  <2>1. Blank \in Header
    BY DEF Blank, Header
  <2>2. \A x \in Names : t[x] \in Header
    BY <1>5, <1>8, <2>1 DEF Sliced, Names, Slices
  <2> QED  BY <1>5, <2>2 DEF Numbers
<1>10. alg = "karatsuba" => t["m2"].mag = 0 /\ t["n2"].mag = 0
  BY <1>7, <1>8 DEF Sliced
<1> QED  BY <1>1, <1>5, <1>8, <1>9, <1>10

LEMMA InitCore == TempsInit /\ PartsDense => Core /\ Algebra!AlgebraInit
<1> SUFFICES ASSUME TempsInit, PartsDense PROVE Core /\ Algebra!AlgebraInit
  OBVIOUS
<1>1. /\ alg \in {"karatsuba", "toom3"} /\ pc = alg /\ lenM \in Lengths /\ lenN \in Lengths
      /\ t \in Numbers /\ \A x \in Temps : t[x] = Blank
      /\ alg = "karatsuba" => a2 = 0 /\ b2 = 0
  BY InitSlices DEF a2, b2
<1>2. PartsKept
  <2>1. ASSUME NEW u, NEW v, NEW len, Sliced(u, v, len) PROVE PartKept(u, len)
    BY <2>1 DEF Sliced, PartKept, Dense
  <2> QED  BY <2>1, InitSlices DEF PartsKept
<1>3. Frame
  BY <1>1, <1>2 DEF Frame
<1>4. \A x \in Temps : Val(t[x]) = 0 /\ Dense(t[x]) /\ t[x].hi = 0 /\ t[x].sign = 1
  BY <1>1, LimbsZero DEF Blank, Val, Dense
<1>5. /\ "r0" \in Temps /\ "r1" \in Temps /\ "r_neg1" \in Temps /\ "r_neg2" \in Temps /\ "rinf" \in Temps
      /\ \A x \in Points : x \in Temps
  BY DEF Temps, Points
<1>6. WithinCapacity
  BY <1>3, <1>4, CapacityNat DEF WithinCapacity
<1>7. Unsigned /\ TempsDense
  BY <1>4, <1>5 DEF Unsigned, TempsDense
<1>8. ValuesInv
  BY <1>1, <1>4, <1>5 DEF ValuesInv, KaratsubaLabels
<1>9. Core
  BY <1>1, <1>2, <1>6, <1>7, <1>8 DEF Core, Algebra!Labels, KaratsubaLabels
<1>10. Algebra!AlgebraInit
  <2>1. mParts \in [0 .. 2 -> Nat] /\ nParts \in [0 .. 2 -> Nat]
    <3>1. \A i \in 0 .. 2 : i = 0 \/ i = 1 \/ i = 2
      OBVIOUS
    <3>2. \A i \in 0 .. 2 : mParts[i] \in Nat /\ nParts[i] \in Nat
      BY <1>3, <3>1, OperandsOf, PartsAt
    <3> QED  BY <3>2 DEF mParts, nParts
  <2>2. Weight(PartLen) \in Nat
    BY <1>3, OperandsOf
  <2>3. pc = "toom3" \/ (pc = "karatsuba" /\ mParts[2] = 0 /\ nParts[2] = 0)
    BY <1>1, PartsAt
  <2>4. res = 0
    BY DEF TempsInit
  <2> QED  BY <1>4, <1>5, <2>1, <2>2, <2>3, <2>4 DEF Algebra!AlgebraInit, Points, mParts, nParts
<1> QED  BY <1>9, <1>10

-----------------------------------------------------------------------------
(* The theorems *)

LEMMA StutterCore == Core /\ UNCHANGED temporaries => Core' /\ UNCHANGED Algebra!algebra
<1> SUFFICES ASSUME Core, UNCHANGED temporaries PROVE Core' /\ UNCHANGED Algebra!algebra
  OBVIOUS
<1>1. t' = t /\ pc' = pc /\ res' = res /\ UNCHANGED <<alg, lenM, lenN>>
  BY DEF temporaries
<1>2. Framed
  BY <1>1 DEF Framed
<1>3. /\ a2' = a2 /\ b2' = b2 /\ c0' = c0 /\ c1' = c1 /\ c2' = c2 /\ c3' = c3 /\ c4' = c4
      /\ product' = product /\ at1' = at1 /\ atNeg1' = atNeg1 /\ atNeg2' = atNeg2
  BY <1>2, PartsSame
<1>4. MultiplyValues => MultiplyValues'
  BY <1>1, <1>2, PartsSame DEF MultiplyValues
<1>5. ValuesInv'
  <2>1. ValuesInv
    BY DEF Core
  <2>2. CASE pc \in KaratsubaLabels
    BY <1>1, <1>3, <2>1, <2>2 DEF ValuesInv, Products5, KaratsubaLabels
  <2>3. CASE pc \in {"multiply", "done"}
    BY <1>1, <1>3, <1>4, <2>1, <2>3 DEF ValuesInv, KaratsubaLabels
  <2>4. CASE pc \in {"r3 = (r3 - r1) / 3", "r1 = (r1 - r2) / 2", "r2 = r2 - r0", "r3 = (r2 - r3) / 2"}
    BY <1>1, <1>3, <2>1, <2>4 DEF ValuesInv, Products5, KaratsubaLabels
  <2>5. CASE pc \in {"r3 = r3 + 2 rinf", "r2 = r2 + r1 - rinf", "r1 = r1 - r3", "toom3 sum"}
    BY <1>1, <1>3, <2>1, <2>5 DEF ValuesInv, Products5, KaratsubaLabels
  <2>6. CASE pc = "toom3"
    BY <1>1, <2>6 DEF ValuesInv, KaratsubaLabels
  <2> QED  BY <2>2, <2>3, <2>4, <2>5, <2>6 DEF Core, Algebra!Labels, KaratsubaLabels
<1>6. PartsKept'
  <2>1. /\ Part(lenM, 0)' = Part(lenM, 0) /\ Part(lenN, 0)' = Part(lenN, 0)
        /\ Part(lenM, 1)' = Part(lenM, 1) /\ Part(lenN, 1)' = Part(lenN, 1)
        /\ Part(lenM, 2)' = Part(lenM, 2) /\ Part(lenN, 2)' = Part(lenN, 2)
    BY <1>2, ShapeSame
  <2> QED  BY <1>1, <2>1 DEF Core, PartsKept, PartKept
<1>7. WithinCapacity'
  BY <1>1, <1>2, ShapeSame DEF Core, WithinCapacity
<1>8. Unsigned' /\ TempsDense'
  BY <1>1 DEF Core, Unsigned, TempsDense
<1>9. Core'
  BY <1>1, <1>5, <1>6, <1>7, <1>8 DEF Core
<1>10. UNCHANGED Algebra!algebra
  <2>1. UNCHANGED <<mParts, nParts, Weight(PartLen)>>
    BY <1>2, PartsSame, ShapeSame
  <2>2. \A x : Val(t[x])' = Val(t[x])
    BY <1>1
  <2> QED  BY <1>1, <2>1, <2>2 DEF Algebra!algebra, mParts, nParts
<1> QED  BY <1>9, <1>10

LEMMA NextCore == Core /\ [TempsNext]_temporaries => Core' /\ [Algebra!AlgebraNext]_(Algebra!algebra)
<1>1. Core /\ (KaratsubaProducts \/ SubtractZ2 \/ SubtractZ0 \/ KaratsubaSum) => Core' /\ Algebra!AlgebraNext
  BY KaratsubaProductsStep, SubtractZ2Step, SubtractZ0Step, KaratsubaSumStep
     DEF Algebra!AlgebraNext, Algebra!Karatsuba
<1>2. Core /\ (Evaluate \/ Multiply \/ Toom3Sum) => Core' /\ Algebra!AlgebraNext
  BY EvaluateStep, MultiplyStep, Toom3SumStep DEF Algebra!AlgebraNext, Algebra!Toom3
<1>3. Core /\ (\/ Interpolate1 \/ Interpolate2 \/ Interpolate3 \/ Interpolate4
               \/ Interpolate5 \/ Interpolate6 \/ Interpolate7) => Core' /\ Algebra!AlgebraNext
  BY Interpolate1Step, Interpolate2Step, Interpolate3Step, Interpolate4Step, Interpolate5Step,
     Interpolate6Step, Interpolate7Step DEF Algebra!AlgebraNext, Algebra!Toom3
<1> QED  BY <1>1, <1>2, <1>3, StutterCore DEF TempsNext

\* Every temporary of either algorithm stands for what the coefficients of the
\* product polynomial say, without leading zeros, within its limbs.
THEOREM TempsInvariant == PartsDense => (TempsSpec => []TempsIInv)
<1> SUFFICES ASSUME PartsDense PROVE TempsSpec => []TempsIInv
  OBVIOUS
<1>1. TempsInit => TempsIInv
  BY InitCore, CoreOf
<1>2. Core /\ [TempsNext]_temporaries => Core'
  BY NextCore
<1>3. TempsIInv <=> Core
  BY CoreOf
<1> QED  BY <1>1, <1>2, <1>3, PTL DEF TempsSpec

\* No kernel of mul.c writes beyond the limbs that its frame took with
\* BIGINT_TEMP, for operands of any length and a radix of at least four.
THEOREM TempsWithinCapacity == PartsDense => (TempsSpec => []WithinCapacity)
<1>1. TempsIInv => WithinCapacity
  BY DEF TempsIInv
<1> QED  BY <1>1, TempsInvariant, PTL

\* The kernels, which work on limb lengths and drop carries and signs, compute
\* the integers of the algebra that the comments of mul.c state.
THEOREM TempsImplementsAlgebra == PartsDense => (TempsSpec => ImplementsAlgebra)
<1> SUFFICES ASSUME PartsDense PROVE TempsSpec => ImplementsAlgebra
  OBVIOUS
<1>1. TempsInit => Algebra!AlgebraInit
  BY InitCore
<1>2. TempsInit => Core
  BY InitCore
<1>3. Core /\ [TempsNext]_temporaries => Core' /\ [Algebra!AlgebraNext]_(Algebra!algebra)
  BY NextCore
<1> QED  BY <1>1, <1>2, <1>3, PTL DEF TempsSpec, ImplementsAlgebra, Algebra!AlgebraSpec

\* p(-2) = 2(p(-1) + m2) - m0, the comment above the evaluation, is true when
\* no part has a zero top limb.  Without that the kernels' comparison fails it.
THEOREM TempsEvaluatedAtNeg2 == PartsDense => (TempsSpec => []EvaluatedAtNeg2)
<1>1. TempsIInv => EvaluatedAtNeg2
  <2> SUFFICES ASSUME TempsIInv, pc = "multiply"
               PROVE  Val(t["p_neg2"]) = 2 * (Val(t["p_neg1"]) + t["m2"].mag) - t["m0"].mag
    BY DEF EvaluatedAtNeg2
  <2>1. MultiplyValues /\ Frame
    BY CoreOf, CoreFrame DEF Core, ValuesInv
  <2>2. a0 \in Nat /\ a1 \in Nat /\ a2 \in Nat
    BY <2>1, OperandsOf
  <2>3. Val(t["p_neg2"]) = 2 * (Val(t["p_neg1"]) + a2) - a0
    BY <2>1, <2>2 DEF MultiplyValues
  <2> QED  BY <2>3 DEF a0, a2
<1> QED  BY <1>1, TempsInvariant, PTL
=============================================================================
