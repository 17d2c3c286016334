--------------------------- MODULE PageAllocator ---------------------------
(***************************************************************************)
(* What the physical page allocator promises once it is set up: a fixed    *)
(* set of pages, each of which is either free or owned by one caller.      *)
(***************************************************************************)
CONSTANT Page      \* all page numbers

VARIABLES ready,   \* the allocator is set up
          free,    \* pages nobody owns
          owned    \* pages handed out and not given back

vars == <<ready, free, owned>>

Init == ready = FALSE /\ free = {} /\ owned = {}

Setup ==
    /\ ~ready
    /\ ready' = TRUE
    /\ free' \in SUBSET Page
    /\ UNCHANGED owned

Allocate(p) ==
    /\ ready
    /\ p \in free
    /\ free' = free \ {p}
    /\ owned' = owned \cup {p}
    /\ UNCHANGED ready

Free(p) ==
    /\ ready
    /\ p \in owned
    /\ free' = free \cup {p}
    /\ owned' = owned \ {p}
    /\ UNCHANGED ready

Next ==
    \/ Setup
    \/ \E p \in free : Allocate(p)
    \/ \E p \in owned : Free(p)

Spec == Init /\ [][Next]_vars
=============================================================================
