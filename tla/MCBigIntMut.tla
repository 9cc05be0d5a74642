----------------------------- MODULE MCBigIntMut -----------------------------
(* BigIntMut, BigIntCompare and BigIntFunc with limbs of two bytes of two values: four   *)
(* values a limb.                                                            *)
EXTENDS BigIntFunc

\* Zero, one, two, a limb of ones, a power of the radix, and pairs of limbs that
\* carry once or twice, or differ at the bottom only.
MCDigits == {<<>>, <<1>>, <<2>>, <<3>>, <<0, 1>>, <<1, 3>>, <<2, 3>>, <<3, 3>>}
MCOperands == {[d |-> <<>>, sign |-> 1]} \cup [d : MCDigits \ {<<>>}, sign : {1, -1}]

\* Every call.
MCOps ==
  {"mulu64", "divu64", "modu64", "muli64", "divi64", "modi64", "add", "sub", "mul",
   "getu64", "geti64", "copyu64", "copyi64", "dcopyu64", "dcopyi64", "copy", "dcopy",
   "ocopy", "set_safe", "tover_copy", "set", "reset", "normalize", "reserve", "resize", "shrink"}
  \cup UnaryOps \cup BinaryOps \cup {"fcopyu64", "fcopyi64", "canonicalize", "transfer",
                                     "mut_modadd", "modadd"}

\* call is a record of the last call that no action reads: two states that
\* differ there only have the same successors, and every step to them is checked.
MCView == <<x, call.op = "shrink", call.status \in Broken>>

\* The calls of the run that refutes CarryStored.
MCAddOps == {"getu64", "add"}
=============================================================================
