-------------------------------- MODULE WordCalls --------------------------------
(***************************************************************************)
(* The functions that keep nothing between calls, as one caller sees them:  *)
(* a call begins, takes its passes, and ends.  Words, random numbers, roots *)
(* and prime tests share the rule by which a call ends.  The use of two     *)
(* cryptInts is a call, too, that of the client which builds and frees them.*)
(*                                                                         *)
(* Fairness: a call runs on its caller's thread and waits for nobody; what  *)
(* it asks of the system is answered, with success or with failure.  So a   *)
(* call that can take a step takes it (WF of the steps); no caller has to   *)
(* begin a call.                                                            *)
(***************************************************************************)
EXTENDS WordArith, EntropyCrt, BigIntRoots, PrimeTests, CryptInt

Init == task = Idle

Begin == task = Idle /\ (ArithBegins \/ EntropyBegins \/ RootBegins \/ PrimeBegins \/ CryptUtilBegins \/ CryptBegins)
Step  == ArithSteps \/ EntropySteps \/ RootSteps \/ PrimeSteps \/ CryptSteps
Next  == Begin \/ Step \/ Leave

Spec == Init /\ [][Next]_task /\ WF_task(Step)

\* Every call ends.  The retry loops of the random numbers have no other bound
\* than their counters, and each source may hand over to another
\* (intrinsics.c:184-422, crt_intrin.c:178-486).
CallsEnd == Running ~> Ended
=============================================================================
