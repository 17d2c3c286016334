-------------------------------- MODULE Panic --------------------------------
(***************************************************************************)
(* The kernel's log and its end: klog.c with its lock and its one buffer,  *)
(* panic.c, the exceptions of arch/x86_64/interrupts.c that end in it or   *)
(* that report a task's fault without the lock, and smp_stop_cpus.         *)
(***************************************************************************)
EXTENDS Integers, FiniteSets

CONSTANTS Cpus

VARIABLES pc,         \* pc[c]: where a CPU is
          lock,       \* klog's lock: the CPU that has it, or Nobody
          log_buffer, \* the CPU whose text is in it, or Nobody
          panic_cpu,  \* the CPU that reports the panic, or Nobody
          nmi,        \* CPUs with an NMI that has not been taken
          toStop,     \* CPUs to which the reporter has yet to send one
          garbled,    \* history: a CPU printed another's text
          unlocked,   \* history: a CPU wrote the buffer without the lock while another used it
          reported, nested  \* the panic's report is out; it broke off

vars == <<pc, lock, log_buffer, panic_cpu, nmi, toStop, garbled, unlocked, reported, nested>>

Nobody == "nobody"
Halted(c) == pc[c] = "halted"
Goto(c, place) == pc' = [pc EXCEPT ![c] = place]

Init ==
    /\ pc = [c \in Cpus |-> "run"] /\ lock = Nobody /\ log_buffer = Nobody /\ panic_cpu = Nobody
    /\ nmi = {} /\ toStop = {} /\ garbled = FALSE /\ unlocked = FALSE /\ reported = FALSE /\ nested = FALSE

\* vsprintf into the buffer, and its way to the serial line.
BufferUsers == {c \in Cpus : pc[c] \in {"filled", "dumped", "report"}}
Fill(c, locked) ==
    /\ log_buffer' = c
    /\ unlocked' = (unlocked \/ (BufferUsers \ {c} # {} /\ (~locked \/ \E d \in BufferUsers : pc[d] # "filled")))
Emit(c) == garbled' = (garbled \/ log_buffer # c)
-----------------------------------------------------------------------------
(* klog                                                                    *)

klog(c) ==
    /\ pc[c] = "run" /\ Goto(c, "wait")
    /\ UNCHANGED <<lock, log_buffer, panic_cpu, nmi, toStop, garbled, unlocked, reported, nested>>

\* Mutant: the lock is not waited for.
LockFreeAlways == TRUE
LockFree == lock = Nobody
Acquire(c) ==
    /\ pc[c] = "wait" /\ LockFree
    /\ lock' = c /\ Fill(c, TRUE) /\ Goto(c, "filled")
    /\ UNCHANGED <<panic_cpu, nmi, toStop, garbled, reported, nested>>
Release(c) ==
    /\ pc[c] = "filled"
    /\ Emit(c) /\ lock' = Nobody /\ Goto(c, "run")
    /\ UNCHANGED <<log_buffer, panic_cpu, nmi, toStop, unlocked, reported, nested>>

\* page_fault_handler, gpf_handler and exception_handler for a fault of a task:
\* the registers and the stack go out by klog_nolock, then a line by klog.
UserFault(c) ==
    /\ pc[c] = "run" /\ Fill(c, FALSE) /\ Goto(c, "dumped")
    /\ UNCHANGED <<lock, panic_cpu, nmi, toStop, garbled, reported, nested>>
Dumped(c) ==
    /\ pc[c] = "dumped" /\ Emit(c) /\ Goto(c, "wait")
    /\ UNCHANGED <<lock, log_buffer, panic_cpu, nmi, toStop, unlocked, reported, nested>>
-----------------------------------------------------------------------------
(* panic                                                                   *)

\* A panic or a fault of the kernel, anywhere that the CPU is, with the lock too.
panic(c) ==
    /\ pc[c] \in {"run", "filled", "dumped"} /\ Goto(c, "panic")
    /\ UNCHANGED <<lock, log_buffer, panic_cpu, nmi, toStop, garbled, unlocked, reported, nested>>

\* Mutant: every CPU that panics reports.
FirstAlways(c) == TRUE
First(c) == panic_cpu = Nobody

\* panic_prepare, to the exchange.
panic_prepare(c) ==
    /\ pc[c] = "panic"
    /\ IF First(c)
       THEN panic_cpu' = c /\ toStop' = Cpus \ {c} /\ Goto(c, "stop") /\ UNCHANGED nested
       ELSE nested' = (nested \/ panic_cpu = c) /\ Goto(c, "halted") /\ UNCHANGED <<panic_cpu, toStop>>
    /\ UNCHANGED <<lock, log_buffer, nmi, garbled, unlocked, reported>>

\* Mutant: a CPU that holds the log is spared.
StopsAll(c, d) == d \in toStop /\ lock # d
Stops(c, d) == d \in toStop

\* A round of smp_stop_cpus, and its end.
smp_stop_cpus(c, d) ==
    /\ pc[c] = "stop" /\ Stops(c, d)
    /\ toStop' = toStop \ {d} /\ nmi' = nmi \cup {d}
    /\ UNCHANGED <<pc, lock, log_buffer, panic_cpu, garbled, unlocked, reported, nested>>
Stopped(c) ==
    /\ pc[c] = "stop" /\ ~\E d \in Cpus : Stops(c, d)
    /\ Fill(c, FALSE) /\ Goto(c, "report")
    /\ UNCHANGED <<lock, panic_cpu, nmi, toStop, garbled, reported, nested>>

\* exception_handler for an NMI: the CPU stops where it is.
NmiHalt(c) ==
    /\ c \in nmi /\ nmi' = nmi \ {c} /\ Goto(c, "halted")
    /\ UNCHANGED <<lock, log_buffer, panic_cpu, toStop, garbled, unlocked, reported, nested>>

\* Mutant: the report waits for the log's lock.
ReportsLocked == lock = Nobody
Reports == TRUE

\* The report and panic_complete; or the report faults, and panic_prepare finds
\* the CPU itself.
panic_complete(c) ==
    /\ pc[c] = "report" /\ Reports
    /\ Emit(c) /\ reported' = TRUE /\ Goto(c, "halted")
    /\ UNCHANGED <<lock, log_buffer, panic_cpu, nmi, toStop, unlocked, nested>>
ReportFaults(c) ==
    /\ pc[c] = "report" /\ Goto(c, "panic")
    /\ UNCHANGED <<lock, log_buffer, panic_cpu, nmi, toStop, garbled, unlocked, reported, nested>>

Next ==
    \E c \in Cpus :
       \/ klog(c) \/ Acquire(c) \/ Release(c) \/ UserFault(c) \/ Dumped(c)
       \/ panic(c) \/ panic_prepare(c) \/ Stopped(c) \/ NmiHalt(c) \/ panic_complete(c) \/ ReportFaults(c)
       \/ \E d \in Cpus : smp_stop_cpus(c, d)

\* An NMI arrives, and the CPU in panic goes on.
Progress ==
    \E c \in Cpus : \/ panic_prepare(c) \/ Stopped(c) \/ NmiHalt(c) \/ panic_complete(c)
                    \/ \E d \in Cpus : smp_stop_cpus(c, d)
Spec == Init /\ [][Next]_vars
-----------------------------------------------------------------------------
\* Type invariant.
TypeOK ==
    /\ pc \in [Cpus -> {"run", "wait", "filled", "dumped", "panic", "stop", "report", "halted"}]
    /\ {lock, log_buffer, panic_cpu} \subseteq Cpus \cup {Nobody}
    /\ nmi \cup toStop \subseteq Cpus /\ {garbled, unlocked, reported, nested} \subseteq BOOLEAN

\* However many CPUs panic together, one reports, and no other starts or stops
\* the report (panic_prepare's exchange).
OneReporter == \A c \in Cpus : pc[c] \in {"stop", "report"} => c = panic_cpu

\* A line of the log is another CPU's only if a CPU wrote the buffer without the
\* lock, as the dump of a task's registers and the panic's report do.
GarbledOnlyUnlocked == garbled => unlocked

\* Both (panic_prepare and klog).
PanicSafe == OneReporter /\ GarbledOnlyUnlocked
-----------------------------------------------------------------------------
(* Why they hold, in every state: the invariant that the steps keep.       *)

\* Nobody is no CPU.
Sane == Nobody \notin Cpus

\* Only the CPU that has the log's lock is between its acquisition and release.
Locked == \A c \in Cpus : pc[c] = "filled" => lock = c

\* A CPU that is about to print finds its own text, or another wrote without the lock.
OwnText == \A c \in BufferUsers : log_buffer = c \/ unlocked

IInv == TypeOK /\ OneReporter /\ Locked /\ OwnText /\ GarbledOnlyUnlocked
=============================================================================
