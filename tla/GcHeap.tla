------------------------------- MODULE GcHeap --------------------------------
(***************************************************************************)
(* What the mark-and-sweep context of ralloc (gc_context) promises: an     *)
(* object stays the caller's until it frees it or a sweep finds it         *)
(* unmarked; a sweep keeps what was marked and what was allocated since it *)
(* began, and nothing else; no memory is handed out twice.                 *)
(***************************************************************************)
CONSTANT Objects

VARIABLES
    alive,      \* the context exists
    owned,      \* objects handed out and not freed
    sweeping,   \* between gc_sweep_start and gc_sweep_end
    kept        \* objects that the sweep under way will keep

Init == /\ alive = TRUE
        /\ owned = {}
        /\ sweeping = FALSE
        /\ kept = {}

Alloc(o) == /\ alive
            /\ o \notin owned
            /\ owned' = owned \union {o}
            /\ kept' = IF sweeping THEN kept \union {o} ELSE {}
            /\ UNCHANGED <<alive, sweeping>>

Release(o) == /\ o \in owned
              /\ owned' = owned \ {o}
              /\ kept' = kept \ {o}
              /\ UNCHANGED <<alive, sweeping>>

SweepStart == /\ alive /\ ~ sweeping
              /\ sweeping' = TRUE
              /\ UNCHANGED <<alive, owned, kept>>

Mark(o) == /\ sweeping
           /\ o \in owned \ kept
           /\ kept' = kept \union {o}
           /\ UNCHANGED <<alive, owned, sweeping>>

SweepEnd == /\ sweeping
            /\ sweeping' = FALSE
            /\ owned' = kept
            /\ kept' = {}
            /\ UNCHANGED alive

(* The context is freed with everything in it.                             *)
Dispose == /\ alive /\ ~ sweeping
           /\ alive' = FALSE
           /\ owned' = {}
           /\ UNCHANGED <<sweeping, kept>>

Next == \/ \E o \in Objects : Alloc(o) \/ Release(o) \/ Mark(o)
        \/ SweepStart
        \/ SweepEnd
        \/ Dispose

Spec == Init /\ [][Next]_<<alive, owned, sweeping, kept>>
=============================================================================
