---------------------------- MODULE MCMulFrames ----------------------------
(* MulFrames with thresholds scaled down, so that operands of up to 16 limbs *)
(* recurse three frames deep and reach both algorithms on either side of the *)
(* thresholds.                                                               *)
EXTENDS MulFrames

MCOperands == {4, 5, 8, 9, 16}
MCTrims == {0, 1, 3}
MCHeldLimbs == {0, 7}

\* The workspace functions by their own recursion; beyond the thresholds the
\* recursive calls have shorter operands.
MCKWS[a \in Lens, b \in Lens] ==
  LET m  == Half(a, b)
      t1 == HalfSum(a, m)
      t2 == HalfSum(b, m)
  IN  IF IsBase(a, b) THEN 0
      ELSE 2 * (t1 + t2) + (a + b) + High(a, m) + High(b, m)
           + Larger(Larger(MCKWS[Low(a, m), Low(b, m)], MCKWS[High(a, m), High(b, m)]),
                    MCKWS[t1, t2])

MCTWS[a \in Lens, b \in Lens] ==
  LET k == Third(a, b)
  IN  IF IsBase(a, b) THEN 0
      ELSE 15*k + 33 + Top(a, k) + Top(b, k) + (a + b)
           + Larger(MCTWS[k + 2, k + 2], MCTWS[Top(a, k), Top(b, k)])
=============================================================================
