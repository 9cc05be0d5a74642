------------------------------- MODULE MCMul -------------------------------
(* Multiplication by its lengths and by its values: the recursion on the     *)
(* arena, and the algebra of one call.  Two machines that share no variable, *)
(* in one run; a behaviour is one of either, the other stays where it starts.*)
EXTENDS MCMulFrames, MCMulAlgebra

VARIABLE machine    \* which of the two machines moves

\* The algebra that stands still multiplies zeros.
Resting == pc = "toom3" /\ weight = 8 /\ \A i \in 0 .. 2 : m[i] = 0 /\ n[i] = 0

MCInit ==
  /\ Init /\ AlgebraInit
  /\ machine = "algebra" \/ (machine = "frames" /\ Resting)

FramesMove == machine = "frames" /\ UNCHANGED <<algebra, machine>>
AlgebraMoves == machine = "algebra" /\ UNCHANGED <<vars, machine>>

\* Next and AlgebraNext, action by action; a product that is done stays done.
MCNext ==
  \/ FramesMove /\ \E a, b \in Operands : MagMul(a, b)
  \/ FramesMove /\ \E held \in HeldLimbs, a, b \in Operands : KernelMul(held, a, b)
  \/ FramesMove /\ BaseCase
  \/ FramesMove /\ OpenFrame
  \/ FramesMove /\ Recurse
  \/ FramesMove /\ PropagateOverflow
  \/ FramesMove /\ Recompose
  \/ AlgebraMoves /\ KaratsubaProducts
  \/ AlgebraMoves /\ SubtractZ2
  \/ AlgebraMoves /\ SubtractZ0
  \/ AlgebraMoves /\ KaratsubaSum
  \/ AlgebraMoves /\ Evaluate
  \/ AlgebraMoves /\ Multiply
  \/ AlgebraMoves /\ Interpolate1
  \/ AlgebraMoves /\ Interpolate2
  \/ AlgebraMoves /\ Interpolate3
  \/ AlgebraMoves /\ Interpolate4
  \/ AlgebraMoves /\ Interpolate5
  \/ AlgebraMoves /\ Interpolate6
  \/ AlgebraMoves /\ Interpolate7
  \/ AlgebraMoves /\ Toom3Sum
  \/ AlgebraMoves /\ pc = "done" /\ UNCHANGED algebra

MCSpec == MCInit /\ [][MCNext]_<<vars, algebra, machine>>
=============================================================================
