----------------------------- MODULE MulFrames -----------------------------
(***************************************************************************)
(* Multiplication on the numeric arena: the recursion of Karatsuba and     *)
(* Toom-3 (calc_algo/perf_based/mul.c), the dispatcher that starts it and  *)
(* the caller that sizes the arena for it (__BIGINT_MAGMUL__ of bigInt.c). *)
(*                                                                         *)
(* Numbers are abstracted to their lengths in limbs.  stack is the C call  *)
(* stack, innermost call last: a call has its algorithm, the lengths a and *)
(* b of its operands, the capacity room of its result, the offset mark at  *)
(* which it entered, and pc, which is 0 on entry and then the number of    *)
(* the recursive call to make next.  The FFT branch of the dispatcher,     *)
(* taken above BIGINT_SSA limbs, lies beyond MaxLen.                       *)
(***************************************************************************)
EXTENDS Integers, Sequences

CONSTANTS
  MaxLen,      \* bound: the longest operand, at most BIGINT_SSA
  SCHOOLBOOK, KARATSUBA,     \* the thresholds BIGINT_SCHOOLBOOK, BIGINT_KARATSUBA
  KWS, TWS,    \* the functions __BIGINT_KARATSUBA_WS__, __BIGINT_TOOM_3_WS__
  Operands,    \* operand lengths that callers multiply
  Trims,       \* leading zero limbs that a computed temporary may lose
  InitCap,     \* limbs of a fresh arena
  MaxDoublings,  \* bound: doublings of one arena_grow
  HeldLimbs    \* limbs that a kernel calling the dispatcher already holds

Lens == 0 .. MaxLen
Larger(m, n) == IF m >= n THEN m ELSE n
Smaller(m, n) == IF m <= n THEN m ELSE n
Above(m, n) == IF m > n THEN m - n ELSE 0

-----------------------------------------------------------------------------
(* How the algorithms split their operands. *)

Half(a, b) == Larger(a, b) \div 2
Low(n, m) == Smaller(n, m)
High(n, m) == Above(n, m)
\* Limbs of the sum of the two halves of an n-limb operand.
HalfSum(n, m) == Larger(Low(n, m), High(n, m)) + 1

Third(a, b) == (Larger(a, b) + 2) \div 3
Top(n, k) == Above(n, 2 * k)

IsBase(a, b) == a <= SCHOOLBOOK \/ b <= SCHOOLBOOK

-----------------------------------------------------------------------------
(* The workspace estimates: the equations the two functions satisfy. *)

KaratsubaWS(a, b) ==
  LET m  == Half(a, b)
      t1 == HalfSum(a, m)
      t2 == HalfSum(b, m)
  IN  IF IsBase(a, b) THEN 0
      ELSE t1 + t2 + (a + b) + (t1 + t2) + (High(a, m) + High(b, m))
           + Larger(Larger(KWS[Low(a, m), Low(b, m)], KWS[High(a, m), High(b, m)]),
                    KWS[t1, t2])

Toom3WS(a, b) ==
  LET k == Third(a, b)
  IN  IF IsBase(a, b) THEN 0
      ELSE (4*k + 6) + ((2*k + 3) + (k + 1)) + (8*k + (Top(a, k) + Top(b, k)) + 23) + (a + b)
           + Larger(TWS[k + 2, k + 2], TWS[Top(a, k), Top(b, k)])

\* Mutant: the Toom-3 range is sized by the shorter operand.
MulWSShorter(a, b) ==
  IF a <= SCHOOLBOOK /\ b <= SCHOOLBOOK THEN 0
  ELSE IF a < KARATSUBA /\ b < KARATSUBA THEN KWS[a, b]
  ELSE TWS[Smaller(a, b), Smaller(a, b)]

MulWS(a, b) ==
  IF a <= SCHOOLBOOK /\ b <= SCHOOLBOOK THEN 0
  ELSE IF a < KARATSUBA /\ b < KARATSUBA THEN KWS[a, b]
  ELSE TWS[a, b]

ASSUME MulAssumption ==
  /\ MaxLen \in Nat
  /\ SCHOOLBOOK \in Nat /\ 4 <= SCHOOLBOOK
  /\ KARATSUBA \in Nat /\ SCHOOLBOOK < KARATSUBA
  /\ Operands \subseteq Lens /\ Trims \subseteq Nat
  /\ InitCap \in Nat \ {0} /\ HeldLimbs \subseteq Nat /\ MaxDoublings \in Nat

ASSUME WorkspaceAssumption ==
  /\ KWS \in [Lens \X Lens -> Nat] /\ TWS \in [Lens \X Lens -> Nat]
  /\ \A a, b \in Lens : KWS[a, b] = KaratsubaWS(a, b) /\ TWS[a, b] = Toom3WS(a, b)

-----------------------------------------------------------------------------
(* The frames of the algorithms. *)

\* Mutant: z2 gets a spare limb that the estimate does not count.
KaratsubaLimbsSpare(a, b) ==
  LET m  == Half(a, b)
      t1 == HalfSum(a, m)
      t2 == HalfSum(b, m)
  IN  t1 + t2 + (High(a, m) + High(b, m) + 1) + (a + b) + (t1 + t2)

\* tmp1, tmp2, z2, z0 and z1 of __BIGINT_KARATSUBA__.
KaratsubaLimbs(a, b) ==
  LET m  == Half(a, b)
      t1 == HalfSum(a, m)
      t2 == HalfSum(b, m)
  IN  t1 + t2 + (High(a, m) + High(b, m)) + (a + b) + (t1 + t2)

\* The eight evaluation points of __BIGINT_TOOM_3__, one of them with the
\* a + b limbs in which the product is put together, and its five products.
Toom3Limbs(a, b) ==
  LET k == Third(a, b)
  IN  (k+1) + (k+1) + (k+2) + (k+2) + (k+1) + (a+b) + (k+2) + (k+1)
      + (2*k + 7) + (2*k + 8) + (2*k) + (2*k + 7) + (Top(a, k) + Top(b, k) + 1)

\* Lengths a computed temporary with n significant limbs at most can have.
Trimmed(n) == {n - t : t \in {t \in Trims : t <= n}}

Operation(a, b, room) == [a |-> a, b |-> b, room |-> room]
Computed(m, n, room) == {Operation(a, b, room) : a \in Trimmed(m), b \in Trimmed(n)}

\* Mutant: the high halves are subtracted without the test that clamps them.
KaratsubaCallsUnclamped(a, b, i) ==
  LET m  == Half(a, b)
      t1 == HalfSum(a, m)
      t2 == HalfSum(b, m)
  IN  CASE i = 1 -> {Operation(Low(a, m), Low(b, m), a + b)}
        [] i = 2 -> {Operation(a - m, b - m, High(a, m) + High(b, m))}
        [] i = 3 -> Computed(t1, t2, t1 + t2)
        [] OTHER -> {}

\* The recursive products z0, z2 and z1, in the order of the calls.
KaratsubaCalls(a, b, i) ==
  LET m  == Half(a, b)
      t1 == HalfSum(a, m)
      t2 == HalfSum(b, m)
  IN  CASE i = 1 -> {Operation(Low(a, m), Low(b, m), a + b)}
        [] i = 2 -> {Operation(High(a, m), High(b, m), High(a, m) + High(b, m))}
        [] i = 3 -> Computed(t1, t2, t1 + t2)
        [] OTHER -> {}

\* Mutant: the products of the evaluation points get no limbs for carries.
Toom3CallsTight(a, b, i) ==
  LET k == Third(a, b)
  IN  CASE i = 1 -> {Operation(Smaller(k, a), Smaller(k, b), 2 * k)}
        [] i \in {2, 3, 4} -> Computed(k + 2, k + 2, 2 * k + 2)
        [] i = 5 -> {Operation(Top(a, k), Top(b, k), Top(a, k) + Top(b, k) + 1)}
        [] OTHER -> {}

\* The recursive products r0, r1, r_neg1, r_neg2 and rinf.
Toom3Calls(a, b, i) ==
  LET k == Third(a, b)
  IN  CASE i = 1 -> {Operation(Smaller(k, a), Smaller(k, b), 2 * k)}
        [] i = 2 -> Computed(k + 2, k + 2, 2*k + 8)
        [] i = 3 -> Computed(k + 1, k + 1, 2*k + 7)
        [] i = 4 -> Computed(k + 2, k + 2, 2*k + 7)
        [] i = 5 -> {Operation(Top(a, k), Top(b, k), Top(a, k) + Top(b, k) + 1)}
        [] OTHER -> {}

FrameLimbs(f) == IF f.alg = "karatsuba" THEN KaratsubaLimbs(f.a, f.b) ELSE Toom3Limbs(f.a, f.b)
Calls(f, i) == IF f.alg = "karatsuba" THEN KaratsubaCalls(f.a, f.b, i) ELSE Toom3Calls(f.a, f.b, i)
NumCalls(f) == IF f.alg = "karatsuba" THEN 3 ELSE 5

-----------------------------------------------------------------------------
VARIABLES
  offset, cap, poisoined,     \* the numeric arena
  stack,                      \* the active calls, innermost last
  err,                        \* what the last call to return has put in *err
  entry,                      \* the offset at which the outermost call entered
  call                        \* the outermost call, and whether MAGMUL made it

vars == <<offset, cap, poisoined, stack, err, entry, call>>

Algorithms == {"karatsuba", "toom3"}
Frame == [alg : Algorithms, a : Lens, b : Lens, room : Nat, mark : Nat, pc : 0 .. 6]
Errors == {"BIGINT_SUCCESS", "DARENA_OVERFLOW", "DARENA_POISON"}

Idle == stack = <<>>
Inner == stack[Len(stack)]
Outer == SubSeq(stack, 1, Len(stack) - 1)
Push(alg, op, mark) == Append(stack,
  [alg |-> alg, a |-> op.a, b |-> op.b, room |-> op.room, mark |-> mark, pc |-> 0])

\* The algorithm that __BIGINT_MUL_DISP__ starts; its schoolbook branch is the
\* base case of either.
DispatchedAlg(a, b) == IF a <= KARATSUBA \/ b <= KARATSUBA THEN "karatsuba" ELSE "toom3"

\* __BIGINT_MUL_DISP__ called with limbs of the arena in use; the caller has
\* given the product a + b limbs.
MulDisp(a, b, used, presized) ==
  /\ stack' = Push(DispatchedAlg(a, b), Operation(a, b, a + b), used)
  /\ offset' = used /\ entry' = used
  /\ call' = [a |-> a, b |-> b, presized |-> presized]
  /\ err' = "BIGINT_SUCCESS"

\* arena_grow doubles the capacity until it holds the request.
Doubled(min_cap) ==
  {c \in min_cap .. 2 * min_cap - 1 : \E k \in 1 .. MaxDoublings : c = cap * 2^k}

\* __BIGINT_MAGMUL__: size the arena, or poison it, and dispatch.
MagMul(a, b) ==
  /\ Idle
  /\ \/ /\ poisoined
        /\ err' = "DARENA_POISON"
        /\ UNCHANGED <<offset, cap, poisoined, stack, entry, call>>
     \/ /\ ~poisoined /\ cap >= MulWS(a, b)
        /\ MulDisp(a, b, 0, TRUE)
        /\ UNCHANGED <<cap, poisoined>>
     \/ /\ ~poisoined /\ cap < MulWS(a, b)
        /\ cap' \in Doubled(MulWS(a, b))
        /\ MulDisp(a, b, 0, TRUE)
        /\ UNCHANGED poisoined
     \/ /\ ~poisoined /\ cap < MulWS(a, b)
        /\ poisoined' = TRUE /\ err' = "DARENA_POISON"
        /\ UNCHANGED <<offset, cap, stack, entry, call>>

\* A kernel that holds limbs of its own calls the dispatcher; how it sized the
\* arena is its business.
KernelMul(held, a, b) ==
  /\ Idle /\ ~poisoined /\ held <= cap
  /\ MulDisp(a, b, held, FALSE)
  /\ UNCHANGED <<cap, poisoined>>

\* The base case multiplies in place.
BaseCase ==
  /\ ~Idle /\ Inner.pc = 0 /\ IsBase(Inner.a, Inner.b)
  /\ stack' = Outer
  /\ err' = "BIGINT_SUCCESS"
  /\ UNCHANGED <<offset, cap, poisoined, entry, call>>

\* scratch_mark and the BIGINT_TEMPs: all temporaries, or a rewind and an error.
OpenFrame ==
  /\ ~Idle /\ Inner.pc = 0 /\ ~IsBase(Inner.a, Inner.b)
  /\ \/ /\ offset + FrameLimbs(Inner) <= cap
        /\ offset' = offset + FrameLimbs(Inner)
        /\ stack' = [stack EXCEPT ![Len(stack)].pc = 1]
        /\ UNCHANGED err
     \/ /\ offset + FrameLimbs(Inner) > cap
        /\ offset' = Inner.mark
        /\ stack' = Outer
        /\ err' = "DARENA_OVERFLOW"
  /\ UNCHANGED <<cap, poisoined, entry, call>>

\* The next recursive call of the innermost frame.
Recurse ==
  /\ ~Idle /\ Inner.pc \in 1 .. NumCalls(Inner) /\ err # "DARENA_OVERFLOW"
  /\ \E op \in Calls(Inner, Inner.pc) :
       stack' = [Push(Inner.alg, op, offset) EXCEPT ![Len(stack)].pc = @ + 1]
  /\ UNCHANGED <<offset, cap, poisoined, err, entry, call>>

\* Mutant: the error is passed on without the rewind.
PropagateWithoutRewind ==
  /\ ~Idle /\ Inner.pc > 1 /\ err = "DARENA_OVERFLOW"
  /\ stack' = Outer
  /\ UNCHANGED <<offset, cap, poisoined, err, entry, call>>

\* SCRATCH_OVF: a recursive call ran out of workspace.
PropagateOverflow ==
  /\ ~Idle /\ Inner.pc > 1 /\ err = "DARENA_OVERFLOW"
  /\ offset' = Inner.mark
  /\ stack' = Outer
  /\ UNCHANGED <<cap, poisoined, err, entry, call>>

\* Interpolation and recomposition, the copy to res and the rewind.
Recompose ==
  /\ ~Idle /\ Inner.pc = NumCalls(Inner) + 1 /\ err # "DARENA_OVERFLOW"
  /\ offset' = Inner.mark
  /\ stack' = Outer
  /\ err' = "BIGINT_SUCCESS"
  /\ UNCHANGED <<cap, poisoined, entry, call>>

Init ==
  /\ offset = 0 /\ cap = InitCap /\ poisoined = FALSE
  /\ stack = <<>> /\ err = "BIGINT_SUCCESS" /\ entry = 0
  /\ call = [a |-> 0, b |-> 0, presized |-> FALSE]

Next ==
  \/ \E a, b \in Operands : MagMul(a, b)
  \/ \E held \in HeldLimbs, a, b \in Operands : KernelMul(held, a, b)
  \/ BaseCase \/ OpenFrame \/ Recurse \/ PropagateOverflow \/ Recompose

Spec == Init /\ [][Next]_vars

-----------------------------------------------------------------------------
(* Properties *)

\* The arena's fields, the call stack and the statuses have their types.
TypeOK ==
  /\ offset \in Nat /\ cap \in Nat /\ poisoined \in BOOLEAN
  /\ stack \in Seq(Frame) /\ err \in Errors /\ entry \in Nat
  /\ call \in [a : Lens, b : Lens, presized : BOOLEAN]

\* The product of every active call has room for all limbs of its operands:
\* the schoolbook base case clears a + b limbs of its result and the
\* recursive cases copy that many into it, without looking at its capacity.
ResultFits == \A i \in 1 .. Len(stack) : stack[i].a + stack[i].b <= stack[i].room

\* When the outermost call is over, by whatever return, the arena's offset is
\* the one at which it entered: no frame leaks limbs and none rewinds too far.
Balanced == Idle => offset = entry

WS(f) == IF f.alg = "karatsuba" THEN KWS[f.a, f.b] ELSE TWS[f.a, f.b]
Outermost == [alg |-> DispatchedAlg(call.a, call.b), a |-> call.a, b |-> call.b]

\* A multiplication runs out of workspace only if the arena had less room, at
\* the offset where it entered, than the workspace function of the algorithm
\* the dispatcher chose asks for: the estimate covers every recursive call.
WorkspaceSuffices == err = "DARENA_OVERFLOW" => entry + WS(Outermost) > cap

\* MAGMUL never overflows the arena it has sized, although the workspace
\* dispatcher and the algorithm dispatcher compare with the thresholds
\* differently and may choose different algorithms.
MagMulFits == call.presized => err # "DARENA_OVERFLOW"

-----------------------------------------------------------------------------
(* The inductive invariant: how the frames lie in the arena. *)

Used(f) == IF f.pc = 0 THEN 0 ELSE FrameLimbs(f)

\* A frame that has taken its temporaries is no base case and has a next call
\* to make or is done; one that waits for a call has made one.
PcInv ==
  \A i \in 1 .. Len(stack) :
    /\ stack[i].pc > 0 => ~IsBase(stack[i].a, stack[i].b)
    /\ stack[i].pc <= NumCalls(stack[i]) + 1
    /\ i < Len(stack) => stack[i].pc > 1

\* The frames lie in the arena one behind the other, from entry to offset.
Contiguous ==
  /\ ~Idle => /\ stack[1].mark = entry
              /\ offset = Inner.mark + Used(Inner)
  /\ \A i \in 1 .. Len(stack) - 1 :
       stack[i + 1].mark = stack[i].mark + FrameLimbs(stack[i])

\* If the outermost call had enough workspace, every active call has.
Sufficient == entry + WS(Outermost) <= cap
Covered == Sufficient => \A i \in 1 .. Len(stack) : stack[i].mark + WS(stack[i]) <= cap

\* The arena that MAGMUL has sized has the workspace of the algorithm that the
\* dispatcher chose, which need not be the one it was sized for.
Presized == call.presized => Sufficient

IInv ==
  /\ TypeOK /\ ResultFits /\ Balanced /\ WorkspaceSuffices
  /\ PcInv /\ Contiguous /\ Covered
=============================================================================
