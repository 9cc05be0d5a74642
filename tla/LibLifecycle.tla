---------------------------- MODULE LibLifecycle ----------------------------
(***************************************************************************)
(* How libdnml comes up and goes down: _libdnml_init, _libdnml_cleanup and *)
(* the constructor of libdnml_base.h, the dispatch tables of               *)
(* intrinsics/intrin_base.c they fill and clear, and the two thread-local  *)
(* arenas of dynamol/_dynamol_arena.c.                                     *)
(*                                                                         *)
(* The flag _libinit is "static" in a header, so every translation unit    *)
(* has its own; the tables are shared by the process and the arenas belong *)
(* to a thread.  No lock protects any of them, so a thread inside          *)
(* _libdnml_init or _libdnml_cleanup may stop after every statement.       *)
(***************************************************************************)
EXTENDS Naturals, FiniteSets, Sequences, SequencesExt

CONSTANTS
  Threads, Main,   \* threads; the one that runs the constructors
  Units,           \* translation units that include libdnml_base.h
  Constructors     \* TRUE for GCC, Clang and MSVC, which call _libdnml_init before main

ASSUME LifecycleAssumption ==
  Main \in Threads /\ IsFiniteSet(Threads) /\ IsFiniteSet(Units) /\ Constructors \subseteq BOOLEAN

\* The tables in the order _libdnml_init fills them (_libdnml_fill_crt_galg,
\* which comes last, is an empty function) and clean-up clears them.
FillOrder  == <<"garith", "gbitops", "gmarith", "ghw",
                "crt_gcmp", "crt_gsec", "crt_gbitops", "crt_garith">>
ClearOrder == <<"crt_gbitops", "crt_garith", "crt_gcmp", "crt_gsec">>
Tables     == ToSet(FillOrder)

VARIABLES
  ctors,        \* the compiler knows constructors
  libinit,      \* [Units -> BOOLEAN]: _libinit of each translation unit
  caps,         \* the hardware capabilities were detected
  table,        \* [Tables -> "null", "portable" or "probed"]: the functions chosen
  numeric, io,  \* [Threads -> arena]: ___DASI_NUMERIC_ARENA_, ___DASI_IO_ARENA_
  call,         \* [Threads -> the call the thread is in]
  buffers,      \* arena buffers allocated and not freed
  constructed,  \* units whose constructor has returned
  ready,        \* an init returned DNML_LIB_INISUCCESS, no clean-up under way then or begun since
  cleaned       \* some clean-up has begun

lifecycle == <<ctors, libinit, caps, table, numeric, io, call, buffers, constructed, ready, cleaned>>

Idle       == [op |-> "none"]
InInit(t)  == call[t].op = "init"
InClean(t) == call[t].op = "cleanup"
NoArena    == [live |-> FALSE, poisoined |-> FALSE]

-----------------------------------------------------------------------------
(* Arenas *)

Held(a, t) == IF a[t].live THEN 1 ELSE 0

\* Mutant: init_arena without its test for a buffer already there.
InitThreadArenaAgain(a, t) ==
  \/ /\ a' = [a EXCEPT ![t] = [live |-> TRUE, poisoined |-> FALSE]]
     /\ buffers' = buffers + 1
  \/ /\ ~a[t].live
     /\ a' = [a EXCEPT ![t].poisoined = TRUE]
     /\ UNCHANGED buffers

\* init_arena: a no-op on a live arena, poisoned or not; else a calloc that
\* may fail and then poisons it.
InitThreadArena(a, t) ==
  \/ a[t].live /\ UNCHANGED <<a, buffers>>
  \/ /\ ~a[t].live
     /\ a' = [a EXCEPT ![t] = [live |-> TRUE, poisoined |-> FALSE]]
     /\ buffers' = buffers + 1
  \/ /\ ~a[t].live
     /\ a' = [a EXCEPT ![t].poisoined = TRUE]
     /\ UNCHANGED buffers

\* _USE_ARENA and _USE_IO_ARENA in a thread outside init and clean-up.
UseThreadArena(t) ==
  /\ call[t] = Idle
  /\ \/ numeric[t] = NoArena /\ InitThreadArena(numeric, t) /\ UNCHANGED io
     \/ io[t] = NoArena /\ InitThreadArena(io, t) /\ UNCHANGED numeric
  /\ UNCHANGED <<libinit, caps, table, call, constructed, ready, cleaned>>

\* A failed realloc in arena_grow poisons a live arena.
GrowFails(t) ==
  /\ call[t] = Idle
  /\ \/ numeric[t].live /\ numeric' = [numeric EXCEPT ![t].poisoined = TRUE] /\ UNCHANGED io
     \/ io[t].live /\ io' = [io EXCEPT ![t].poisoined = TRUE] /\ UNCHANGED numeric
  /\ UNCHANGED <<libinit, caps, table, call, buffers, constructed, ready, cleaned>>

-----------------------------------------------------------------------------
(* _libdnml_init *)

\* The process has started: every constructor has run, in the main thread.
Started == ctors => constructed = Units
MayCall(t, u) ==
  /\ call[t] = Idle
  /\ Started \/ (t = Main /\ u \notin constructed)

\* A call returns; before main it was the constructor of the unit.
Returns(t, u) ==
  /\ call' = [call EXCEPT ![t] = Idle]
  /\ constructed' = IF Started THEN constructed ELSE constructed \cup {u}

NobodyCleans == \A t \in Threads : ~InClean(t)

\* The early return when the unit's flag is set.
InitAgain(t, u) ==
  /\ MayCall(t, u) /\ libinit[u]
  /\ Returns(t, u)
  /\ ready' = (ready \/ NobodyCleans)
  /\ UNCHANGED <<libinit, caps, table, numeric, io, buffers, cleaned>>

\* Mutant: the flag is set on entry.
InitBeginsFlagged(t, u) ==
  /\ MayCall(t, u) /\ ~libinit[u]
  /\ libinit' = [libinit EXCEPT ![u] = TRUE]
  /\ call' = [call EXCEPT ![t] = [op |-> "init", unit |-> u, at |-> 0]]
  /\ UNCHANGED <<caps, table, numeric, io, buffers, constructed, ready, cleaned>>

InitBegins(t, u) ==
  /\ MayCall(t, u) /\ ~libinit[u]
  /\ call' = [call EXCEPT ![t] = [op |-> "init", unit |-> u, at |-> 0]]
  /\ UNCHANGED <<libinit, caps, table, numeric, io, buffers, constructed, ready, cleaned>>

Advance(t) == call' = [call EXCEPT ![t].at = @ + 1]

\* _libdnml_detect_hwcaps.
Detect(t) ==
  /\ InInit(t) /\ call[t].at = 0
  /\ caps' = TRUE
  /\ Advance(t)
  /\ UNCHANGED <<libinit, table, numeric, io, buffers, constructed, ready, cleaned>>

\* Each entry is chosen by the capabilities known now.
FillTable(t) ==
  /\ table' = [table EXCEPT ![FillOrder[call[t].at]] = IF caps THEN "probed" ELSE "portable"]
  /\ Advance(t)
  /\ UNCHANGED <<libinit, caps, numeric, io, buffers, constructed, ready, cleaned>>

\* _libdnml_fill_garith, _gbitops, _gmarith and _ghw, then the crt family.
FillPerf(t) == InInit(t) /\ call[t].at \in 1 .. 4 /\ FillTable(t)
FillCrt(t)  == InInit(t) /\ call[t].at \in 5 .. Len(FillOrder) /\ FillTable(t)

\* Mutant: a failed first arena does not end _init_dynamol_bigint.
InitNumericAnyway(t) ==
  /\ InInit(t) /\ call[t].at = Len(FillOrder) + 1
  /\ InitThreadArena(numeric, t)
  /\ Advance(t)
  /\ UNCHANGED <<libinit, caps, table, io, constructed, ready, cleaned>>

\* _init_dynamol_bigint, release build: the two arenas in turn; when one
\* cannot be had, DNML_ALLOC_OOM is returned and the flag stays clear.
InitNumeric(t) ==
  /\ InInit(t) /\ call[t].at = Len(FillOrder) + 1
  /\ InitThreadArena(numeric, t)
  /\ IF numeric'[t].live THEN Advance(t) /\ UNCHANGED constructed ELSE Returns(t, call[t].unit)
  /\ UNCHANGED <<libinit, caps, table, io, ready, cleaned>>
InitIO(t) ==
  /\ InInit(t) /\ call[t].at = Len(FillOrder) + 2
  /\ InitThreadArena(io, t)
  /\ IF io'[t].live THEN Advance(t) /\ UNCHANGED constructed ELSE Returns(t, call[t].unit)
  /\ UNCHANGED <<libinit, caps, table, numeric, ready, cleaned>>

\* _libinit = 1; return DNML_LIB_INISUCCESS.
InitReturns(t) ==
  /\ InInit(t) /\ call[t].at = Len(FillOrder) + 3
  /\ libinit' = [libinit EXCEPT ![call[t].unit] = TRUE]
  /\ ready' = (ready \/ NobodyCleans)
  /\ Returns(t, call[t].unit)
  /\ UNCHANGED <<caps, table, numeric, io, buffers, cleaned>>

-----------------------------------------------------------------------------
(* _libdnml_cleanup *)

\* It returns at once when the unit's flag is clear, which changes nothing.
CleanupBegins(t, u) ==
  /\ Started /\ call[t] = Idle /\ libinit[u]
  /\ call' = [call EXCEPT ![t] = [op |-> "cleanup", unit |-> u, at |-> 1]]
  /\ ready' = FALSE /\ cleaned' = TRUE
  /\ UNCHANGED <<libinit, caps, table, numeric, io, buffers, constructed>>

\* __dnml_crtifunc_cleanup clears the tables of the crt family only.
Clear(t) ==
  /\ InClean(t) /\ call[t].at \in 1 .. Len(ClearOrder)
  /\ table' = [table EXCEPT ![ClearOrder[call[t].at]] = "null"]
  /\ Advance(t)
  /\ UNCHANGED <<libinit, caps, numeric, io, buffers, constructed, ready, cleaned>>

\* Mutant: both buffers are freed whether or not the thread has them.
CleanDynamolTwice(t) ==
  /\ InClean(t) /\ call[t].at = Len(ClearOrder) + 1
  /\ buffers' = buffers - 2
  /\ numeric' = [numeric EXCEPT ![t] = NoArena] /\ io' = [io EXCEPT ![t] = NoArena]
  /\ Returns(t, call[t].unit)
  /\ UNCHANGED <<libinit, caps, table, ready, cleaned>>

\* _cleanup_dynamol frees the arenas of the calling thread; the flag stays set.
CleanDynamol(t) ==
  /\ InClean(t) /\ call[t].at = Len(ClearOrder) + 1
  /\ buffers' = buffers - Held(numeric, t) - Held(io, t)
  /\ numeric' = [numeric EXCEPT ![t] = NoArena] /\ io' = [io EXCEPT ![t] = NoArena]
  /\ Returns(t, call[t].unit)
  /\ UNCHANGED <<libinit, caps, table, ready, cleaned>>

-----------------------------------------------------------------------------
LifecycleInit ==
  /\ ctors \in Constructors
  /\ libinit = [u \in Units |-> FALSE] /\ caps = FALSE
  /\ table = [f \in Tables |-> "null"]
  /\ numeric = [t \in Threads |-> NoArena] /\ io = [t \in Threads |-> NoArena]
  /\ call = [t \in Threads |-> Idle]
  /\ buffers = 0 /\ constructed = {} /\ ready = FALSE /\ cleaned = FALSE

Step(t) == Detect(t) \/ FillPerf(t) \/ FillCrt(t) \/ InitNumeric(t) \/ InitIO(t) \/ InitReturns(t)
           \/ Clear(t) \/ CleanDynamol(t)
LifecycleNext ==
  /\ UNCHANGED ctors
  /\ \E t \in Threads :
       \/ Step(t)
       \/ \E u \in Units : InitAgain(t, u) \/ InitBegins(t, u) \/ CleanupBegins(t, u)
       \/ Started /\ (UseThreadArena(t) \/ GrowFails(t))

LifecycleSpec == LifecycleInit /\ [][LifecycleNext]_lifecycle

-----------------------------------------------------------------------------
(* Properties *)

ArenaState == [live : BOOLEAN, poisoined : BOOLEAN]
CallState  == {Idle} \cup [op : {"init"}, unit : Units, at : 0 .. Len(FillOrder) + 3]
                    \cup [op : {"cleanup"}, unit : Units, at : 1 .. Len(ClearOrder) + 1]

\* Flags, tables, arenas and calls have their types.
LifecycleTypeOK ==
  /\ libinit \in [Units -> BOOLEAN] /\ caps \in BOOLEAN
  /\ table \in [Tables -> {"null", "portable", "probed"}]
  /\ numeric \in [Threads -> ArenaState] /\ io \in [Threads -> ArenaState]
  /\ call \in [Threads -> CallState]
  /\ ctors \in BOOLEAN /\ buffers \in Nat /\ constructed \subseteq Units
  /\ ready \in BOOLEAN /\ cleaned \in BOOLEAN

Dispatched == \A f \in Tables : table[f] = "probed"

\* Until the first clean-up, once any _libdnml_init has returned
\* DNML_LIB_INISUCCESS every table holds the functions the detected hardware
\* calls for, although other units and threads go on filling the tables again.
ReadyMeansDispatched == ready /\ ~cleaned => Dispatched

\* The same whatever came before: DNML_LIB_INISUCCESS means the library is
\* initialised ("Library Initialization", libdnml_base.h).
SuccessMeansDispatched == ready => Dispatched

\* When _libdnml_init is about to set the flag, the thread has both arenas, also
\* after earlier calls that ran out of memory half-way: success is all or nothing.
SuccessHasArenas ==
  \A t \in Threads : InInit(t) /\ call[t].at = Len(FillOrder) + 3 => numeric[t].live /\ io[t].live

\* Every arena buffer allocated and not freed is the buffer of a live arena:
\* repeated constructors, inits, lazy uses and clean-ups neither lose nor free twice.
BuffersOwned ==
  buffers = Cardinality({t \in Threads : numeric[t].live}) + Cardinality({t \in Threads : io[t].live})

-----------------------------------------------------------------------------
(* The inductive invariant: where a thread inside _libdnml_init has got to,  *)
(* and what that says of the state it shares with the others.                *)

\* A thread past the detection knows the capabilities; past an arena, holds it.
StepsDone ==
  \A t \in Threads : InInit(t) =>
    /\ call[t].at >= 1 => caps
    /\ call[t].at >= Len(FillOrder) + 2 => numeric[t].live
    /\ call[t].at = Len(FillOrder) + 3 => io[t].live

\* Before the first clean-up the tables a thread has passed are chosen for good,
\* whoever fills them again, and a flag or a success says that all of them are.
FilledSoFar ==
  ~cleaned =>
    /\ \A t \in Threads : ~InClean(t)
    /\ \A t \in Threads : InInit(t) =>
         \A i \in 1 .. Len(FillOrder) : i < call[t].at => table[FillOrder[i]] = "probed"
    /\ (ready \/ \E u \in Units : libinit[u]) => Dispatched

LifecycleInv == LifecycleTypeOK /\ BuffersOwned /\ StepsDone /\ FilledSoFar
=============================================================================
