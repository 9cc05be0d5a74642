------------------------------- MODULE CallState -------------------------------
(***************************************************************************)
(* One call at a time of the functions that keep nothing between calls:     *)
(* the single-word arithmetic, the loops over words, the random numbers.    *)
(* A call is the record task of its arguments and locals.  It begins with   *)
(* status "running", takes one step per pass of its loop, and ends with     *)
(* another status, which its caller sees and takes away.                    *)
(*                                                                         *)
(* A call made by another carries the caller that waits for it in outer.    *)
(*                                                                         *)
(* "crash" and "undefined" are ends too: an address that is not mapped, and *)
(* a write or a read the language gives no meaning.  The next call then     *)
(* belongs to another process.                                              *)
(***************************************************************************)
EXTENDS Integers, Sequences, FiniteSets, FiniteSetsExt, TLC

VARIABLE task  \* the call in progress

Idle    == [op |-> "idle", status |-> "idle"]
Running == task.status = "running"
Stopped == task.status \notin {"idle", "running"}
Nested  == "outer" \in DOMAIN task
Ended   == Stopped /\ ~Nested

\* The calls of the operation op that are under way.
During(op) == Running /\ task.op = op

Smaller(m, n) == IF m < n THEN m ELSE n
Larger(m, n)  == IF m > n THEN m ELSE n

\* A caller on this thread enters a function.
Enter(t) == task = Idle /\ task' = t

\* The caller takes the result of a call that ended.
Leave == Ended /\ task' = Idle
=============================================================================
