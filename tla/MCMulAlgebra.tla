---------------------------- MODULE MCMulAlgebra ----------------------------
(* MulAlgebra with parts that are zero, one, small and nearly as large as the *)
(* smaller weight, so that the differences take either sign.                 *)
EXTENDS MulAlgebra

MCParts == {0, 1, 2, 7}
MCWeights == {8, 16}
=============================================================================
