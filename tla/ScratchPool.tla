---------------------------- MODULE ScratchPool ----------------------------
(***************************************************************************)
(* What the scratch arena promises its callers, without offsets or         *)
(* buffers: scratch limbs are held by nested frames, a limb is held by at  *)
(* most one frame and never granted twice while it is held, and closing a  *)
(* frame gives back exactly what that frame and the frames opened inside   *)
(* it hold.                                                                *)
(***************************************************************************)
EXTENDS Naturals, Sequences

CONSTANT Limb      \* the limbs of the pool

VARIABLE frames     \* the limbs each open frame holds, innermost last

Held == UNION {frames[i] : i \in 1 .. Len(frames)}

Init == frames = <<>>

Open == frames' = Append(frames, {})

Acquire(limbs) ==
  /\ frames # <<>>
  /\ limbs \cap Held = {}
  /\ frames' = [frames EXCEPT ![Len(frames)] = @ \cup limbs]

\* Ending frame i ends the frames left open inside it.
Close(i) == frames' = SubSeq(frames, 1, i - 1)

\* The library is cleaned up under its callers.
Reset == frames' = <<>>

Next ==
  \/ Open
  \/ \E limbs \in SUBSET Limb : Acquire(limbs)
  \/ \E i \in 1 .. Len(frames) : Close(i)
  \/ Reset

Spec == Init /\ [][Next]_frames
=============================================================================
