----------------------------- MODULE AddressMap ------------------------------
(***************************************************************************)
(* What mmu.c promises its callers: every address space is a function from *)
(* addresses to mappings, and the kernel's half is the same in all.        *)
(***************************************************************************)
CONSTANTS Spaces, Kernel, Vas, KernelVas, Mappings

VARIABLES live, map

Unmapped == [present |-> FALSE]

Init ==
    /\ live = {Kernel}
    /\ map = [s \in {Kernel} |-> [va \in Vas |-> Unmapped]]

\* A change to the kernel's half is one to every space.
Put(s, va, m) ==
    /\ s \in live /\ va \in KernelVas => s = Kernel
    /\ map' = [t \in live |-> IF t = s \/ va \in KernelVas THEN [map[t] EXCEPT ![va] = m] ELSE map[t]]
    /\ UNCHANGED live

New(s) ==
    /\ s \notin live /\ live' = live \cup {s}
    /\ map' = [t \in live' |->
                IF t # s THEN map[t]
                ELSE [va \in Vas |-> IF va \in KernelVas THEN map[Kernel][va] ELSE Unmapped]]

Destroy(s) == s \in live \ {Kernel} /\ live' = live \ {s} /\ map' = [t \in live' |-> map[t]]

Next ==
    \E s \in Spaces \cup {Kernel} :
        \/ \E va \in Vas, m \in Mappings \cup {Unmapped} : Put(s, va, m)
        \/ New(s) \/ Destroy(s)

vars == <<live, map>>
Spec == Init /\ [][Next]_vars
=============================================================================
