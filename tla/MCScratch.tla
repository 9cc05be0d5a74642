----------------------------- MODULE MCScratch -----------------------------
(* The scratch arena, and one frame of Karatsuba or Toom-3 with temporaries  *)
(* taken from one: two machines that share no variable, in one run.  A       *)
(* behaviour is one of either machine; the other stays where it starts.      *)
EXTENDS MCArena, MCMulTemps

VARIABLE machine    \* which of the two machines moves

\* The frame that stands still multiplies the radix by itself.
Resting == alg = "karatsuba" /\ lenM = 2 /\ lenN = 2 /\ t["m0"].mag = 0 /\ t["n0"].mag = 0

MCInit ==
  /\ Init /\ TempsInit
  /\ machine = "temps" \/ (machine = "arena" /\ Resting)

ArenaMoves == machine = "arena" /\ UNCHANGED <<temporaries, machine>>
TempsMove == machine = "temps" /\ UNCHANGED <<vars, machine>>

\* Next and TempsNext, action by action; a product that is done stays done.
MCNext ==
  \/ ArenaMoves /\ UseArena
  \/ ArenaMoves /\ InitDynamol
  \/ ArenaMoves /\ Presize
  \/ ArenaMoves /\ GrowingCall
  \/ ArenaMoves /\ ForgetFrame
  \/ ArenaMoves /\ KernelMark
  \/ ArenaMoves /\ KernelAlloc
  \/ ArenaMoves /\ KernelRewind
  \/ ArenaMoves /\ Cleanup
  \/ TempsMove /\ KaratsubaProducts
  \/ TempsMove /\ SubtractZ2
  \/ TempsMove /\ SubtractZ0
  \/ TempsMove /\ KaratsubaSum
  \/ TempsMove /\ Evaluate
  \/ TempsMove /\ Multiply
  \/ TempsMove /\ Interpolate1
  \/ TempsMove /\ Interpolate2
  \/ TempsMove /\ Interpolate3
  \/ TempsMove /\ Interpolate4
  \/ TempsMove /\ Interpolate5
  \/ TempsMove /\ Interpolate6
  \/ TempsMove /\ Interpolate7
  \/ TempsMove /\ Toom3Sum
  \/ TempsMove /\ pc = "done" /\ UNCHANGED temporaries

MCSpec == MCInit /\ [][MCNext]_<<vars, temporaries, machine>>
=============================================================================
