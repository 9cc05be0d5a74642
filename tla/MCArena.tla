------------------------------ MODULE MCArena ------------------------------
(* Arena on a small instance for TLC: a 2-limb initial buffer that doubles   *)
(* to at most 4 limbs, requests of 1 to 3 limbs, three nested frames.        *)
EXTENDS Arena

MCRequests == {1, 2, 3}
=============================================================================
