------------------------------ MODULE MCWordCalls ------------------------------
(***************************************************************************)
(* Words of 4 bits, inverses of 8, population counts of 16, scans of 64.    *)
(* Draws of 2 bytes, chunks of 3, pools of 4, at most 5 bytes asked for.    *)
(* Roots over limbs of 8 bits, or one word of 16 and doubles of 11; prime   *)
(* tests of lowest limbs below 700, divided up to 400, and the seven bases. *)
(* cryptInts of 2 limbs of 2 bytes, four calls on two of them; their        *)
(* helpers on arrays of 3 limbs of radix 4.                                 *)
(***************************************************************************)
EXTENDS WordCalls

MCWideWords == {0, 1, 3, 7, 8, 9, 13, 15}
MCSwarWords == {0, 1, 255, 256, 257, 4660, 21845, 26505, 32768, 43690, 65535}

\* Every single bit, with the lowest, with the highest, and every run from 0.
MCScanWords ==
  {{}} \cup UNION {{{k}, {k, 63}, {0, k}, 0 .. k} : k \in 0 .. 63}

MCRootValues ==
  (0 .. 40) \cup {63, 64, 215, 216, 217, 224, 225, 254, 255, 256, 257, 342, 343, 344, 510, 511, 512}
  \cup UNION {{r * r - 1, r * r, r * r + 1} : r \in {17, 31, 32, 45, 64, 100, 127, 128, 181, 255}}
  \cup {1023, 4096, 16384, 65535}

MCPowValues ==
  (0 .. 20) \cup (65519 .. 65535) \cup {2 ^ k : k \in 0 .. 15}
  \cup UNION {{r * r * r * r - 1, r * r * r * r, r * r * r * r + 1} : r \in 2 .. 15}
  \cup {6560, 6561, 6562}

MCIndices == {0, 1, 2, 3, 4, 5, 6, 8, 16, 33}

MCBases == <<2, 325, 9375, 28178, 450775, 9780504, 1794265022>>
MCLowLimbs == (0 .. 400) \cup {k \in 401 .. 700 : k % 2 = 1}

\* Zero, and a negative word whose lowest byte is zero.
MCCryptWords == {[limb |-> <<0, 0>>, sign |-> 1], [limb |-> <<0, 1>>, sign |-> -1]}
=============================================================================
