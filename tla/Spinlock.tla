------------------------------ MODULE Spinlock ------------------------------
(***************************************************************************)
(* The ticket spinlock of include/sys/spinlock.h, used from code that an   *)
(* interrupt may cut short.                                                *)
(*                                                                         *)
(* Every CPU runs code at one of two levels.  "thread" is code that runs   *)
(* with interrupts enabled (the idle threads and kernel_main); "gate" is   *)
(* code entered through the interrupt descriptor table.  Every gate is an  *)
(* interrupt gate, so the CPU clears its interrupt flag on entry and the   *)
(* final iret restores it.  One context is one level of one CPU; while a   *)
(* CPU is in a gate its thread level does not run.                         *)
(*                                                                         *)
(* Tickets are uint16_t in the code: they wrap at TicketSpace = 2^16.      *)
(***************************************************************************)
EXTENDS Integers, FiniteSets, Sequences

CONSTANTS CPUs,         \* the processors
          TicketSpace   \* number of values of a ticket (2^16 in the code)

ASSUME SpinlockAssumption ==
    /\ IsFiniteSet(CPUs)
    /\ TicketSpace \in Nat \ {0}
    /\ Cardinality(CPUs) <= TicketSpace

Levels == {"thread", "gate"}
Ctx == CPUs \X Levels
Tickets == 0 .. (TicketSpace - 1)

VARIABLES next_ticket,  \* spinlock_t.next_ticket
          now_serving,  \* spinlock_t.now_serving
          ticket,       \* the local variable of spinlock_acquire, per context
          pc,           \* where each context is in the lock's functions
          flags,        \* the flags word saved by the irqsave variant: its IF bit,
                        \* or "none" when the plain variant was called
          irq_on,       \* the interrupt flag of each CPU
          level         \* the level each CPU is running at

vars == <<next_ticket, now_serving, ticket, pc, flags, irq_on, level>>

\* Addition of one to a uint16_t.
Inc(n) == IF n = TicketSpace - 1 THEN 0 ELSE n + 1

\* The context that CPU c is executing.
Running(c) == <<c, level[c]>>

spinlock_init ==
    /\ next_ticket = 0
    /\ now_serving = 0

Init ==
    /\ spinlock_init
    /\ ticket = [x \in Ctx |-> 0]
    /\ pc = [x \in Ctx |-> "out"]
    /\ flags = [x \in Ctx |-> "none"]
    /\ irq_on = [c \in CPUs |-> TRUE]
    /\ level = [c \in CPUs |-> "thread"]
-----------------------------------------------------------------------------
\* Mutant: the flags are saved but interrupts are left enabled.
SaveWithoutDisabling(c) ==
    LET x == Running(c) IN
    /\ pc[x] = "out"
    /\ pc' = [pc EXCEPT ![x] = "saved"]
    /\ flags' = [flags EXCEPT ![x] = IF irq_on[c] THEN "on" ELSE "off"]
    /\ UNCHANGED <<next_ticket, now_serving, ticket, irq_on, level>>

\* spinlock_acquire_irqsave, first half: local_irq_save.
IrqSave(c) ==
    LET x == Running(c) IN
    /\ pc[x] = "out"
    /\ pc' = [pc EXCEPT ![x] = "saved"]
    /\ flags' = [flags EXCEPT ![x] = IF irq_on[c] THEN "on" ELSE "off"]
    /\ irq_on' = [irq_on EXCEPT ![c] = FALSE]
    /\ UNCHANGED <<next_ticket, now_serving, ticket, level>>

\* Mutant: the fetch-and-add is done as a load that is never stored back.
TakeTicketWithoutAdd(c) ==
    LET x == Running(c) IN
    /\ \/ pc[x] = "saved"
       \/ pc[x] = "out" /\ ~irq_on[c]
    /\ ticket' = [ticket EXCEPT ![x] = next_ticket]
    /\ pc' = [pc EXCEPT ![x] = "spin"]
    /\ UNCHANGED <<next_ticket, now_serving, flags, irq_on, level>>

\* spinlock_acquire: the fetch-and-add.  The plain variant is called with
\* interrupts already disabled (schedule() after local_irq_disable, and code
\* in a gate), the other one after local_irq_save.  Left out is kernel_main,
\* which takes locks of the file system with interrupts on while no handler
\* uses them.
TakeTicket(c) ==
    LET x == Running(c) IN
    /\ \/ pc[x] = "saved"
       \/ pc[x] = "out" /\ ~irq_on[c]
    /\ ticket' = [ticket EXCEPT ![x] = next_ticket]
    /\ next_ticket' = Inc(next_ticket)
    /\ pc' = [pc EXCEPT ![x] = "spin"]
    /\ UNCHANGED <<now_serving, flags, irq_on, level>>

\* Mutant: a test-and-set lock, which any spinning context may win.
EnterWhenFree(c) ==
    LET x == Running(c) IN
    /\ pc[x] = "spin"
    /\ \A y \in Ctx : pc[y] # "held"
    /\ pc' = [pc EXCEPT ![x] = "held"]
    /\ UNCHANGED <<next_ticket, now_serving, ticket, flags, irq_on, level>>

\* spinlock_acquire: the spin loop ends when now_serving reaches the ticket.
Enter(c) ==
    LET x == Running(c) IN
    /\ pc[x] = "spin"
    /\ now_serving = ticket[x]
    /\ pc' = [pc EXCEPT ![x] = "held"]
    /\ UNCHANGED <<next_ticket, now_serving, ticket, flags, irq_on, level>>

\* spinlock_release.
Release(c) ==
    LET x == Running(c) IN
    /\ pc[x] = "held"
    /\ now_serving' = Inc(now_serving)
    /\ pc' = [pc EXCEPT ![x] = IF flags[x] = "none" THEN "out" ELSE "unlocked"]
    /\ UNCHANGED <<next_ticket, ticket, flags, irq_on, level>>

\* Mutant: interrupts are enabled on the way out whatever they were before.
RestoreEnabling(c) ==
    LET x == Running(c) IN
    /\ pc[x] = "unlocked"
    /\ irq_on' = [irq_on EXCEPT ![c] = TRUE]
    /\ flags' = [flags EXCEPT ![x] = "none"]
    /\ pc' = [pc EXCEPT ![x] = "out"]
    /\ UNCHANGED <<next_ticket, now_serving, ticket, level>>

\* spinlock_release_irqsave, second half: local_irq_restore.
IrqRestore(c) ==
    LET x == Running(c) IN
    /\ pc[x] = "unlocked"
    /\ irq_on' = [irq_on EXCEPT ![c] = (flags[x] = "on")]
    /\ flags' = [flags EXCEPT ![x] = "none"]
    /\ pc' = [pc EXCEPT ![x] = "out"]
    /\ UNCHANGED <<next_ticket, now_serving, ticket, level>>

\* An interrupt, an exception or int 0x80 enters through an interrupt gate.
GateEntry(c) ==
    /\ level[c] = "thread"
    /\ irq_on[c]
    /\ level' = [level EXCEPT ![c] = "gate"]
    /\ irq_on' = [irq_on EXCEPT ![c] = FALSE]
    /\ UNCHANGED <<next_ticket, now_serving, ticket, pc, flags>>

\* The handler returns with iret, which restores the flags of the thread.
GateReturn(c) ==
    /\ level[c] = "gate"
    /\ pc[Running(c)] = "out"
    /\ level' = [level EXCEPT ![c] = "thread"]
    /\ irq_on' = [irq_on EXCEPT ![c] = TRUE]
    /\ UNCHANGED <<next_ticket, now_serving, ticket, pc, flags>>

\* The steps a CPU takes without being asked: it never stops inside the lock's
\* functions, and a handler returns.
Progress(c) ==
    \/ TakeTicket(c) /\ pc[Running(c)] = "saved"
    \/ Enter(c)
    \/ Release(c)
    \/ IrqRestore(c)
    \/ GateReturn(c)

Step(c) ==
    \/ IrqSave(c)
    \/ TakeTicket(c)
    \/ Enter(c)
    \/ Release(c)
    \/ IrqRestore(c)
    \/ GateEntry(c)
    \/ GateReturn(c)

Next == \E c \in CPUs : Step(c)

Spec == Init /\ [][Next]_vars

FairSpec == Spec /\ \A c \in CPUs : WF_vars(Progress(c))
-----------------------------------------------------------------------------
PCs == {"out", "saved", "spin", "held", "unlocked"}

\* Type invariant: tickets stay in the range of a uint16_t and every context
\* is at a known place of the lock's functions.
TypeOK ==
    /\ next_ticket \in Tickets
    /\ now_serving \in Tickets
    /\ ticket \in [Ctx -> Tickets]
    /\ pc \in [Ctx -> PCs]
    /\ flags \in [Ctx -> {"none", "on", "off"}]
    /\ irq_on \in [CPUs -> BOOLEAN]
    /\ level \in [CPUs -> Levels]

\* The contexts that hold a ticket.
Ticketed == {x \in Ctx : pc[x] \in {"spin", "held"}}

\* spinlock_acquire returns to one context at a time, although the 16-bit
\* tickets wrap around and are reused.
MutualExclusion ==
    \A x, y \in Ctx : pc[x] = "held" /\ pc[y] = "held" => x = y

\* Interrupt handlers take the same locks as the code they interrupt.  The
\* irqsave variant must rule out that a handler spins for a lock that the
\* interrupted code of its own CPU holds or is about to take: nobody would
\* ever release it.
NoSelfDeadlock ==
    \A c \in CPUs : pc[<<c, "thread">>] = "out" \/ pc[<<c, "gate">>] = "out"

\* Nested saves and restores leave the interrupt flag as it was found: a
\* handler never runs with interrupts enabled, and a thread that is out of the
\* lock's functions never runs with interrupts disabled.
IrqDiscipline ==
    \A c \in CPUs :
        /\ level[c] = "gate" => ~irq_on[c]
        /\ level[c] = "thread" => (irq_on[c] <=> pc[<<c, "thread">>] = "out")

\* Both: what spinlock_acquire_irqsave is for.
InterruptSafe == NoSelfDeadlock /\ IrqDiscipline

\* A CPU that spins gets the lock, whoever else keeps coming back for it.
StarvationFree == \A x \in Ctx : pc[x] = "spin" ~> pc[x] = "held"
-----------------------------------------------------------------------------
(* The lock as a FIFO lock: tickets counted from now_serving order the     *)
(* contexts that hold one.                                                 *)

\* How far ticket t is from n, the counters wrapping around.
Dist(t, n) == IF t >= n THEN t - n ELSE t - n + TicketSpace

\* How many calls to spinlock_release away the turn of context x is.
Turn(x) == Dist(ticket[x], now_serving)

Line == [i \in 1 .. Cardinality(Ticketed) |->
            CHOOSE x \in Ticketed : Turn(x) = i - 1]

Fifo == INSTANCE FifoLock WITH
            queue <- Line,
            holders <- {x \in Ctx : pc[x] = "held"}

\* The ticket lock implements the first-come first-served lock: contexts enter
\* in the order of their fetch-and-add on next_ticket.
ImplementsFifoLock == Fifo!Spec
=============================================================================
