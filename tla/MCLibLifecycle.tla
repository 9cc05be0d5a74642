--------------------------- MODULE MCLibLifecycle ---------------------------
(* LibLifecycle with two threads and two translation units.                  *)
EXTENDS LibLifecycle, TLC

CONSTANTS main, worker, u1, u2

MCThreads == {main, worker}
MCUnits == {u1, u2}

\* The units are alike; the threads are not, for one of them is the main one.
MCSymmetry == Permutations(MCUnits)
=============================================================================
