--------------------------------- MODULE Smp ---------------------------------
(***************************************************************************)
(* From the boot loader to all CPUs in the scheduler (arch/x86_64/boot.c,  *)
(* acpi.c, pit.c, lapic.c, cpu.c, smpboot.S, sys/clock.c, sys/timer.c,     *)
(* sched/scheduler.c).  The first CPU parses what it is given, sets up its *)
(* clocks with the help of interrupts, lays out a trampoline page for the  *)
(* others, starts them, waits, and unmaps the page.                        *)
(***************************************************************************)
EXTENDS Integers, Sequences, FiniteSets

CONSTANTS Ids,       \* local APIC ids of the CPUs that are there
          Absent,    \* ids of CPUs that the MADT may list and that cannot start
          MaxCpus    \* CONFIG_MAX_CPUS

VARIABLES given,     \* what the boot loader and the firmware provide
          madt,      \* the MADT's entries for local APICs, by id
          bsp,       \* the id of the CPU that boots
          stage,     \* of the first CPU
          cpus,      \* the ids in the array cpus, from index 0
          at,        \* the entry of the MADT or of cpus that comes next
          slot,      \* slot[l]: the stack in the trampoline's word for the id l
          mapped,    \* the trampoline page
          running_cpu_count,
          ap,        \* ap[l]: where a CPU is
          stack,     \* stack[l]: the stack it was started with
          ticks,     \* of the PIT
          ready,     \* what is set up
          panicked   \* the message of panic, "none", or "unset" if panic has no CPU data

vars == <<given, madt, bsp, stage, cpus, at, slot, mapped, running_cpu_count, ap, stack, ticks, ready, panicked>>

All == Ids \cup Absent
FromLoader == <<"memmap", "kernel_address", "rsdp", "initramfs">>
FromFirmware == <<"rsdp2", "xsdt", "FACP", "APIC", "MCFG">>
Needed == {"memmap", "kernel_address", "rsdp", "initramfs", "xsave", "rsdp2", "xsdt", "FACP", "APIC", "MCFG"}
WaitTicks == 2  \* bound for the ticks of clock_wait
NoStack == 0

Init ==
    /\ given \in {Needed} \cup {Needed \ {n} : n \in Needed}
    /\ madt \in {p \in UNION {[1 .. n -> All] : n \in 0 .. Cardinality(All)} :
                   /\ \A i, j \in DOMAIN p : p[i] = p[j] => i = j
                   /\ Ids \subseteq {p[i] : i \in DOMAIN p}}
    /\ bsp \in Ids
    /\ stage = "loader" /\ cpus = <<>> /\ at = 1
    /\ slot = [l \in All |-> NoStack] /\ mapped = FALSE /\ running_cpu_count = 1
    /\ ap = [l \in Ids |-> IF l = bsp THEN "boot" ELSE "off"] /\ stack = [l \in Ids |-> NoStack]
    /\ ticks = 0 /\ ready = {} /\ panicked = "none"

Alive == panicked = "none"
Boots == Alive /\ ap[bsp] = "boot"
Missing(names) == {i \in DOMAIN names : names[i] \notin given}
First(names) == names[CHOOSE i \in Missing(names) : \A j \in Missing(names) : i <= j]

\* panic_prepare reads the CPU's number through the base that smp_start_bsp
\* sets; before that what it finds there is undefined.
Panic(message) == panicked' = IF "gs" \in ready THEN message ELSE "unset"

Step(next) ==
    /\ stage' = next
    /\ UNCHANGED <<given, madt, bsp>>
-----------------------------------------------------------------------------
(* The first CPU.                                                          *)

\* parse_bootloader_info and find_initramfs
parse_bootloader_info ==
    /\ Boots /\ stage = "loader" /\ Step("bsp")
    /\ IF Missing(FromLoader) # {} THEN Panic(First(FromLoader)) ELSE UNCHANGED panicked
    /\ UNCHANGED <<cpus, at, slot, mapped, running_cpu_count, ap, stack, ticks, ready>>

\* smp_start_bsp: the first CPU is taken to have the local APIC 0.
smp_start_bsp ==
    /\ Boots /\ stage = "bsp" /\ Step("acpi")
    /\ cpus' = <<0>> /\ ready' = ready \cup {"gs"}
    /\ panicked' = IF "xsave" \in given THEN "none" ELSE "xsave" \* the base has been set
    /\ UNCHANGED <<at, slot, mapped, running_cpu_count, ap, stack, ticks>>

acpi_parse_rsdp ==
    /\ Boots /\ stage = "acpi" /\ Step("clock")
    /\ IF Missing(FromFirmware) # {} THEN Panic(First(FromFirmware)) ELSE UNCHANGED panicked
    /\ UNCHANGED <<cpus, at, slot, mapped, running_cpu_count, ap, stack, ticks, ready>>

\* Mutant: the clock is registered and its interrupt is not.
ClockSilent == {"ioapic"}
Clock == {"ioapic", "pit"}

\* ioapic_init, pit_init and the beginning of lapic_init, to the wait with
\* interrupts on.
pit_init ==
    /\ Boots /\ stage = "clock" /\ Step("calibrate")
    /\ ready' = ready \cup Clock
    /\ UNCHANGED <<cpus, at, slot, mapped, running_cpu_count, ap, stack, ticks, panicked>>

\* The PIT's interrupt counts while the first CPU calibrates.
irq_handler ==
    /\ Boots /\ stage = "calibrate" /\ "pit" \in ready /\ ticks < WaitTicks
    /\ ticks' = ticks + 1
    /\ UNCHANGED <<given, madt, bsp, stage, cpus, at, slot, mapped, running_cpu_count, ap, stack, ready, panicked>>

\* The end of clock_wait and of lapic_init: the timer is registered.
lapic_timer_calibrate ==
    /\ Boots /\ stage = "calibrate" /\ ticks >= WaitTicks /\ Step("discover")
    /\ ready' = ready \cup {"timer"}
    /\ UNCHANGED <<cpus, at, slot, mapped, running_cpu_count, ap, stack, ticks, panicked>>

\* A round of smp_discover_cpus, which asks neither whether a CPU is enabled nor
\* which one is running.
smp_discover_cpus ==
    /\ Boots /\ stage = "discover" /\ at <= Len(madt)
    /\ IF madt[at] = 0 THEN UNCHANGED <<cpus, panicked>>
       ELSE IF Len(cpus) >= MaxCpus THEN Panic("max_cpus") /\ UNCHANGED cpus
       ELSE cpus' = Append(cpus, madt[at]) /\ UNCHANGED panicked
    /\ at' = at + 1
    /\ UNCHANGED <<given, madt, bsp, stage, slot, mapped, running_cpu_count, ap, stack, ticks, ready>>

\* Mutant: one stack for all.
StackFirst(l) == 1
StackOf(l) == CHOOSE i \in DOMAIN cpus : cpus[i] = l

\* The trampoline with a stack for each CPU, and sched_init.
smp_init ==
    /\ Boots /\ stage = "discover" /\ at > Len(madt) /\ Step("start")
    /\ mapped' = TRUE
    /\ slot' = [l \in All |-> IF l \in {cpus[i] : i \in 2 .. Len(cpus)} THEN StackOf(l) ELSE NoStack]
    /\ ready' = ready \cup {"sched"} /\ at' = 2
    /\ UNCHANGED <<cpus, running_cpu_count, ap, stack, ticks, panicked>>

\* lapic_send_ipi, INIT and STARTUP.  To an id that no CPU has nothing happens,
\* and the CPU that boots resets itself.
lapic_send_ipi ==
    LET l == cpus[at]
    IN  /\ Boots /\ stage = "start" /\ at <= Len(cpus)
        /\ ap' = IF l \in Ids THEN [ap EXCEPT ![l] = IF l = bsp THEN "reset" ELSE "trampoline"] ELSE ap
        /\ at' = at + 1
        /\ UNCHANGED <<given, madt, bsp, stage, cpus, slot, mapped, running_cpu_count, stack, ticks, ready, panicked>>

\* Mutant: the first CPU does not wait for the last.
AllCountEarly == running_cpu_count >= Len(cpus) - 1
AllCount == running_cpu_count >= Len(cpus)

\* The end of smp_init and sched_start_cpu with timer_start.
AllStarted ==
    /\ Boots /\ stage = "start" /\ at > Len(cpus) /\ AllCount
    /\ Step("done") /\ mapped' = FALSE
    /\ IF "timer" \in ready THEN ap' = [ap EXCEPT ![bsp] = "idle"] /\ UNCHANGED panicked
       ELSE Panic("no_timer") /\ UNCHANGED ap
    /\ UNCHANGED <<cpus, at, slot, running_cpu_count, stack, ticks, ready>>
-----------------------------------------------------------------------------
(* The other CPUs.                                                         *)

\* ap_trampoline_start, to its jump into the kernel.
ap_trampoline_start(l) ==
    /\ Alive /\ ap[l] = "trampoline"
    /\ ap' = [ap EXCEPT ![l] = "start"] /\ stack' = [stack EXCEPT ![l] = slot[l]]
    /\ UNCHANGED <<given, madt, bsp, stage, cpus, at, slot, mapped, running_cpu_count, ticks, ready, panicked>>

smp_start_ap(l) ==
    /\ Alive /\ ap[l] = "start"
    /\ ap' = [ap EXCEPT ![l] = "counted"] /\ running_cpu_count' = running_cpu_count + 1
    /\ UNCHANGED <<given, madt, bsp, stage, cpus, at, slot, mapped, stack, ticks, ready, panicked>>

\* sched_start_cpu
sched_start_cpu(l) ==
    /\ Alive /\ ap[l] = "counted"
    /\ IF "timer" \in ready THEN ap' = [ap EXCEPT ![l] = "idle"] /\ UNCHANGED panicked
       ELSE Panic("no_timer") /\ UNCHANGED ap
    /\ UNCHANGED <<given, madt, bsp, stage, cpus, at, slot, mapped, running_cpu_count, stack, ticks, ready>>

Progress ==
    \/ parse_bootloader_info \/ smp_start_bsp \/ acpi_parse_rsdp \/ pit_init \/ irq_handler
    \/ lapic_timer_calibrate \/ smp_discover_cpus \/ smp_init \/ lapic_send_ipi \/ AllStarted
    \/ \E l \in Ids : ap_trampoline_start(l) \/ smp_start_ap(l) \/ sched_start_cpu(l)
Next == Progress
Spec == Init /\ [][Next]_vars
-----------------------------------------------------------------------------
\* Type invariant.
TypeOK ==
    /\ cpus \in Seq(All \cup {0}) /\ mapped \in BOOLEAN /\ running_cpu_count \in 1 .. MaxCpus
    /\ ap \in [Ids -> {"boot", "off", "trampoline", "start", "counted", "idle", "reset"}]
    /\ ready \subseteq {"gs", "ioapic", "pit", "timer", "sched"}

\* The trampoline page is there as long as a CPU runs in it: smp_init unmaps it
\* when all have counted themselves.
TrampolineMapped == (\E l \in Ids : ap[l] = "trampoline") => mapped

\* No two CPUs that were started have the same stack, and each has one.
OwnStack ==
    \A l, m \in Ids : ap[l] \in {"start", "counted", "idle"} /\ l # bsp =>
        /\ stack[l] # NoStack
        /\ ap[m] \in {"start", "counted", "idle"} /\ m \notin {l, bsp} => stack[l] # stack[m]

\* A CPU is in the scheduler only when its data, its idle thread and the timer
\* are there (sched_init, timer_device_register), and the first one only after
\* all that the MADT lists.
SchedulerReady ==
    /\ \A l \in Ids : ap[l] = "idle" => {"gs", "sched", "timer"} \subseteq ready
    /\ ap[bsp] = "idle" => \A i \in DOMAIN madt : madt[i] # 0 => madt[i] \in Ids /\ ap[madt[i]] \in {"counted", "idle"}

Bootable == given = Needed /\ Len(madt) <= MaxCpus /\ {madt[i] : i \in DOMAIN madt} = Ids /\ bsp = 0

\* A panic finds the CPU's data that it reads, except for the checks of what the
\* boot loader provides, which come before smp_start_bsp.
PanicHasCpuData ==
    panicked # "none" =>
        (panicked = "unset" <=> Missing(FromLoader) # {})
-----------------------------------------------------------------------------
(* Why they hold, in every state: the invariant that the steps keep.       *)

\* Finitely many CPUs, and room for the one that boots (CONFIG_MAX_CPUS).
Sane == IsFiniteSet(Ids) /\ MaxCpus \in Nat \ {0}

\* What the proof uses of finite sets and the number of their elements: FiniteSetTheorems
\* states it.
Finiteness ==
    /\ IsFiniteSet({}) /\ Cardinality({}) = 0
    /\ \A S : IsFiniteSet(S) => Cardinality(S) \in Nat
    /\ \A S, T : IsFiniteSet(S) /\ T \subseteq S =>
          IsFiniteSet(T) /\ Cardinality(T) <= Cardinality(S) /\ (Cardinality(T) = Cardinality(S) => T = S)
    /\ \A S, x : IsFiniteSet(S) =>
          Cardinality(S \cup {x}) = IF x \in S THEN Cardinality(S) ELSE Cardinality(S) + 1
    /\ \A n \in Nat \ {0} : \A f : IsFiniteSet({f[i] : i \in 2 .. n}) /\ Cardinality({f[i] : i \in 2 .. n}) <= n - 1

Types ==
    /\ bsp \in Ids /\ madt \in Seq(All) /\ cpus \in Seq(All \cup {0}) /\ at \in Nat \ {0}
    /\ slot \in [All -> Nat] /\ mapped \in BOOLEAN /\ running_cpu_count \in Nat
    /\ ap \in [Ids -> {"boot", "off", "trampoline", "start", "counted", "idle", "reset"}]
    /\ stack \in [Ids -> Nat] /\ ticks \in Nat /\ ready \subseteq {"gs", "ioapic", "pit", "timer", "sched"}
    /\ stage \in {"loader", "bsp", "acpi", "clock", "calibrate", "discover", "start", "done"}

Early == stage \in {"loader", "bsp", "acpi", "clock", "calibrate", "discover"}
Others == {cpus[i] : i \in 2 .. Len(cpus)}          \* the CPUs to start
Sent == {cpus[i] : i \in 2 .. at - 1}               \* the ones of smp_init's loop so far
Counted == {l \in Ids \ {bsp} : ap[l] \in {"counted", "idle"}}

\* The array of CPUs has each entry of the MADT but 0 once, after the CPU that boots.
Listed ==
    /\ stage \in {"loader", "bsp"} => cpus = <<>>
    /\ stage \notin {"loader", "bsp"} => cpus # <<>> /\ cpus[1] = 0
    /\ Early /\ stage # "discover" => at = 1
    /\ stage \in {"acpi", "clock", "calibrate"} => Len(cpus) = 1
    /\ \A i, j \in DOMAIN madt : madt[i] = madt[j] => i = j
    /\ \A i, j \in DOMAIN cpus : cpus[i] = cpus[j] => i = j
    /\ Len(cpus) <= MaxCpus
    /\ stage = "discover" /\ Alive => at <= Len(madt) + 1 /\ Others = {madt[i] : i \in 1 .. at - 1} \ {0}
    /\ stage \in {"start", "done"} => Others = {madt[i] : i \in DOMAIN madt} \ {0}

\* What the steps of the first CPU have set up.
SetUp ==
    /\ stage # "loader" /\ Alive => Missing(FromLoader) = {}
    /\ IF stage \in {"loader", "bsp"} THEN ready = {} ELSE "gs" \in ready
    /\ stage \in {"discover", "start", "done"} => "timer" \in ready
    /\ stage \in {"start", "done"} => "sched" \in ready /\ \A i \in 2 .. Len(cpus) : slot[cpus[i]] = i
    /\ mapped <=> stage = "start"

\* Where the CPUs are.
Places ==
    /\ Early => \A l \in Ids : ap[l] = IF l = bsp THEN "boot" ELSE "off"
    /\ stage \in {"start", "done"} => at \in 2 .. Len(cpus) + 1
    /\ \A l \in Ids \ {bsp} : ap[l] \in (IF ~Early /\ l \in Sent THEN {"trampoline", "start", "counted", "idle"} ELSE {"off"})
    /\ ap[bsp] \in (IF ~Early /\ bsp \in Sent THEN {"reset"} ELSE {"boot", "idle"})
    /\ ap[bsp] = "idle" => stage = "done"
    /\ stage = "done" => at = Len(cpus) + 1 /\ Others = Counted
    /\ \A l \in Ids \ {bsp} : ap[l] \in {"start", "counted", "idle"} => stack[l] = slot[l]
    /\ running_cpu_count = 1 + Cardinality(Counted)

IInv == Types /\ Listed /\ SetUp /\ Places /\ PanicHasCpuData

=============================================================================
