------------------------------ MODULE FifoLock ------------------------------
(***************************************************************************)
(* What a kernel spinlock promises its callers: at most one context is     *)
(* inside the critical section, and contexts get in in the order in which  *)
(* they asked.  Spinlock.tla is shown to implement this specification.     *)
(***************************************************************************)
EXTENDS Sequences

CONSTANT Ctx        \* the execution contexts that use the lock

VARIABLES queue,    \* contexts that asked and have not left yet, oldest first
          holders   \* the contexts inside the critical section

vars == <<queue, holders>>

Init == queue = <<>> /\ holders = {}

Arrive(x) ==
    /\ \A i \in DOMAIN queue : queue[i] # x
    /\ queue' = Append(queue, x)
    /\ UNCHANGED holders

Enter ==
    /\ queue # <<>>
    /\ holders = {}
    /\ holders' = {Head(queue)}
    /\ UNCHANGED queue

Leave ==
    /\ queue # <<>>
    /\ holders = {Head(queue)}
    /\ holders' = {}
    /\ queue' = Tail(queue)

Next == Enter \/ Leave \/ \E x \in Ctx : Arrive(x)

Spec == Init /\ [][Next]_vars
=============================================================================
