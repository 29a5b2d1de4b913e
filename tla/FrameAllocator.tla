--------------------------- MODULE FrameAllocator ---------------------------
(***************************************************************************)
(* What the physical page allocator promises its callers, whatever the     *)
(* free list looks like: while the system boots it collects frames; then a *)
(* frame is free, held by one caller, or kept by the allocator for itself. *)
(***************************************************************************)
CONSTANT Frame

VARIABLES free, held, kept, up

vars == <<free, held, kept, up>>

Init == free = {} /\ held = {} /\ kept = {} /\ up = FALSE

\* A frame comes in: it becomes free, or the allocator keeps it.
Accept(f) == /\ f \notin free \union kept
             /\ \/ free' = free \union {f} /\ UNCHANGED kept
                \/ kept' = kept \union {f} /\ UNCHANGED free

Collect(f) == ~up /\ Accept(f) /\ UNCHANGED <<held, up>>

Start == ~up /\ up' = TRUE /\ UNCHANGED <<free, held, kept>>

Alloc(f) == /\ up
            /\ f \in free
            /\ free' = free \ {f}
            /\ held' = held \union {f}
            /\ UNCHANGED <<kept, up>>

Free(f) == /\ up
           /\ f \in held
           /\ Accept(f)
           /\ held' = held \ {f}
           /\ UNCHANGED up

\* Out of memory: nothing is free and the kernel panics.
Panic == up /\ free = {} /\ up' = FALSE /\ UNCHANGED <<free, held, kept>>

Next == \/ Start \/ Panic
        \/ \E f \in Frame : Collect(f) \/ Alloc(f) \/ Free(f)

Spec == Init /\ [][Next]_vars
=============================================================================
