----------------------------- MODULE MCMulTemps -----------------------------
(* MulTemps with 2-bit limbs.  Operands of 2 to 6 limbs are split into parts  *)
(* of 0 to 2 limbs (Toom-3) and 0 to 3 limbs (Karatsuba).                     *)
EXTENDS MulTemps

MCAlgs == {"karatsuba", "toom3"}
MCToom3 == {"toom3"}
MCLengths == {2, 3, 5, 6}

\* Toom-3 compares its parts by their stored lengths: the top limb of a part is
\* not zero.  Karatsuba compares nothing: its parts are any.
MCParts(a, len) ==
  IF a = "toom3" THEN {v \in {0, 1, 2, 3, 4, 6, 11, 15, 16, 63} : Limbs(v) = len}
  ELSE {v \in {0, 1, 5, 15, 16, 44, 63} : v < Weight(len)}

\* MCParts meets the hypothesis of the theorems about this module.
ASSUME MCPartsDense ==
  \A a \in MCAlgs, len \in 0 .. 6 : \A v \in MCParts(a, len) :
    v \in Nat /\ v < Weight(len) /\ (a = "toom3" => Limbs(v) = len)

\* Any parts, for the run that refutes a comment.
MCAnyParts(a, len) == {v \in {0, 1, 5, 15, 16, 44, 63} : v < Weight(len)}
=============================================================================
