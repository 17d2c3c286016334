------------------------------ MODULE Machine -------------------------------
(***************************************************************************)
(* The parts of the kernel that start the machine and drive its devices,   *)
(* for TLC: the start of the CPUs and interrupt lines (Start), the screen, *)
(* the sleep queue, the PCI Express scan, the keyboard and the panic       *)
(* (Devices), and NVMe, disks and partitions, FAT and the loading of a     *)
(* program, which only TLC checks.  The parts share no variable.  In a     *)
(* behaviour one of them takes the steps, and `which' says which: two that *)
(* do not meet need no interleaving.                                       *)
(***************************************************************************)
EXTENDS Start, Devices

(* The parts that only TLC checks.                                         *)

VARIABLES ctl, nvme_pc, adm, io, nvme_page, call, failed,
          disks, chain, nodes, scan, done,
          bpb, files, sb, offset, room, written, out, fat_state,
          file, argv, envp, strings, maps, zeroed, img, seg, bias, entry, rsp, fds, exec_state

\* A queue of three entries goes round; reads of as many blocks as count can hold, and
\* more than the page.
Nvme == INSTANCE Nvme WITH AdminSize <- 6, IoSize <- 3, PerPage <- 2, Width <- 4, Lbas <- {0, 5},
    Blocks <- {0, 3, 4}, Cpus <- {1}, MaxIo <- 5, pc <- nvme_pc, page <- nvme_page
Disk == INSTANCE Disk WITH Ctls <- {0, 1}, Spaces <- {1, 2}, Minors <- 4, Slots <- 2, Starts <- {10}, BlockSize <- 2
Fat == INSTANCE Fat WITH Entries <- 6, MaxFiles <- 3, PerCluster <- {1, 4}, PageSize <- 8,
    Rooms <- {1, 3, 20}, NameRoom <- 4, state <- fat_state
Exec == INSTANCE Exec WITH Page <- 8, Word <- 2, ExecBase <- 64, DynBase <- 96, Start <- 16, End <- 216,
    Width <- 512, Auxv <- 22, Lens <- {0, 5}, state <- exec_state
-----------------------------------------------------------------------------
(* All of them.                                                            *)

CONSTANT Off

VARIABLE which

IrqVars == <<irq_madt, override, domain_end, virq_table, virq_alloc, redir,
             msi, doing, registered, pending, service, wrong>>
ScreenVars == <<cells, cursor_x, cursor_y, gfx_mode, screen_pc,
                open, drawing, text, row, col, top, screen_raced, outside>>
SmpVars == <<given, smp_madt, bsp, stage, cpus, smp_at, slot,
             mapped, running_cpu_count, ap, stack, ticks, ready, panicked>>
PcieVars == <<kind, multi, bar, reg, depth, scan_at, started, read, deep>>
SleepVars == <<next, prev, delta, status, walk, in, want, slept, odd, undef>>
KbdVars == <<mod, owner, cur_tty, ringbuffer, ring_head, ring_tail,
             irq, opening, has, held, lost, queue, kbd_raced>>
PanicVars == <<panic_pc, lock, log_buffer, panic_cpu, nmi,
               toStop, garbled, unlocked, reported, nested>>
NvmeVars == <<ctl, nvme_pc, adm, io, nvme_page, call, failed>>
DiskVars == <<disks, chain, nodes, scan, done>>
FatVars == <<bpb, files, sb, offset, room, written, out, fat_state>>
ExecVars == <<file, argv, envp, strings, maps, zeroed,
              img, seg, bias, entry, rsp, fds, exec_state>>
vars == <<which, IrqVars, ScreenVars, SmpVars, PcieVars, SleepVars, KbdVars,
          PanicVars, NvmeVars, DiskVars, FatVars, ExecVars>>

\* The other parts stay in the state before their first step, and the ones that only TLC
\* checks are Off.
Idle(part) ==
    /\ part # "irq" => irq_madt = <<>>
    /\ part # "smp" =>
          /\ given = Smp!Needed /\ bsp = CHOOSE l \in Ids : TRUE
          /\ smp_madt = CHOOSE p \in [1 .. Cardinality(Ids) -> Ids] : {p[i] : i \in DOMAIN p} = Ids
    /\ part # "pcie" =>
          /\ kind = [d \in Devs |-> [f \in Fns |-> "none"]] /\ multi = [d \in Devs |-> FALSE]
          /\ bar = CHOOSE b \in Pcie!Bars : TRUE
    /\ part # "nvme" =>
          /\ ctl = Off /\ nvme_pc = Off /\ adm = Off /\ io = Off /\ nvme_page = Off /\ call = Off /\ failed = Off
    /\ part # "disk" => disks = Off /\ chain = Off /\ nodes = Off /\ scan = Off /\ done = Off
    /\ part # "fat" =>
          /\ bpb = Off /\ files = Off /\ sb = Off /\ offset = Off /\ room = Off /\ written = Off /\ out = Off
          /\ fat_state = Off
    /\ part # "exec" =>
          /\ file = Off /\ argv = Off /\ envp = Off /\ strings = Off /\ maps = Off /\ zeroed = Off /\ img = Off
          /\ seg = Off /\ bias = Off /\ entry = Off /\ rsp = Off /\ fds = Off /\ exec_state = Off

Rest ==
    /\ IF which = "irq" THEN TRUE ELSE UNCHANGED IrqVars
    /\ IF which = "screen" THEN TRUE ELSE UNCHANGED ScreenVars
    /\ IF which = "smp" THEN TRUE ELSE UNCHANGED SmpVars
    /\ IF which = "pcie" THEN TRUE ELSE UNCHANGED PcieVars
    /\ IF which = "sleep" THEN TRUE ELSE UNCHANGED SleepVars
    /\ IF which \in {"kbd", "kbd2"} THEN TRUE ELSE UNCHANGED KbdVars
    /\ IF which = "panic" THEN TRUE ELSE UNCHANGED PanicVars
    /\ IF which = "nvme" THEN TRUE ELSE UNCHANGED NvmeVars
    /\ IF which = "disk" THEN TRUE ELSE UNCHANGED DiskVars
    /\ IF which = "fat" THEN TRUE ELSE UNCHANGED FatVars
    /\ IF which = "exec" THEN TRUE ELSE UNCHANGED ExecVars

Init ==
    /\ which \in {"irq", "smp", "screen", "sleep", "pcie", "kbd", "kbd2", "panic", "nvme", "disk", "fat", "exec"}
    /\ Idle(which)
    /\ Irq!Init /\ Smp!Init /\ Screen!Init /\ Sleep!Init /\ Pcie!Init /\ Kbd(1, Keys1)!Init /\ Panic!Init
    /\ which = "nvme" => Nvme!Init
    /\ which = "disk" => Disk!Init
    /\ which = "fat" => Fat!Init
    /\ which = "exec" => Exec!Init

Next ==
    /\ \/ which = "irq" /\ Irq!Next
       \/ which = "screen" /\ Screen!Next
       \/ which = "smp" /\ Smp!Next
       \/ which = "pcie" /\ Pcie!Next
       \/ which = "sleep" /\ Sleep!Next
       \/ which = "kbd" /\ Kbd(1, Keys1)!Next
       \/ which = "kbd2" /\ Kbd(2, Keys2)!Next
       \/ which = "panic" /\ Panic!Next
       \/ which = "nvme" /\ Nvme!Next
       \/ which = "disk" /\ Disk!Next
       \/ which = "fat" /\ Fat!Next
       \/ which = "exec" /\ Exec!Next
    /\ Rest /\ UNCHANGED which

\* The fairness of the parts, for the one that runs.
Progress ==
    /\ \/ which = "smp" /\ Smp!Progress
       \/ which = "panic" /\ Panic!Progress
       \/ which = "sleep" /\ Sleep!Progress
       \/ which = "pcie" /\ Pcie!Progress
       \/ which = "nvme" /\ Nvme!Progress
    /\ Rest /\ UNCHANGED which
Spec == Init /\ [][Next]_vars /\ WF_vars(Progress)
-----------------------------------------------------------------------------
\* Until the queue has gone round, a read has put the blocks asked for in the buffer,
\* in order; commands fit the page and the read, and are sent to queues that exist
\* (nvme_read, nvme_io_queue_init); as long as no command fails and none seems complete
\* in a queue that nobody has cleared before the controller has written it.
ReadsDisk == which = "nvme" => Nvme!TypeOK /\ Nvme!ReadsDisk /\ Nvme!CommandFits /\ Nvme!QueuesExist

\* A node of /dev reads the namespace and partition it is named after, unless another
\* controller has a namespace of the same id; the GPT's entries become partitions in
\* order (disk_parse_gpt, blockdev_lookup).  In a FAT the files are listed once each
\* and in order up to a long name of several entries, and memory that is not the
\* listing's is touched only in the cases that the module names (fatfs_getdents).
ReadsOwnDisk ==
    /\ which = "disk" => /\ Disk!TypeOK /\ Disk!PartitionsInOrder /\ Disk!ReadsOwnDisk
                         /\ Disk!FileBeginsRight
    /\ which = "fat" => /\ Fat!TypeOK /\ Fat!ListingExact /\ Fat!RootWhereItIs
                        /\ Fat!OverrunOneRecord /\ Fat!UndefinedOnlyWhen

\* When a program starts, every byte of its segments and of its interpreter's is at
\* its place, with the exceptions that the module names; it is entered where it
\* begins, with an aligned stack above which its strings lie, and with no descriptor
\* of the loader (elf_load, elf_exec, task_copy_args, binfmt_exec_task).
ProgramInPlace ==
    which = "exec" => /\ Exec!TypeOK /\ Exec!ImagesInPlace /\ Exec!EntersImage
                      /\ Exec!FaultsOnlyOnBareTail /\ Exec!StackLaidOut /\ Exec!LoaderCloses

-----------------------------------------------------------------------------
(* Waits that end.  A part stays the one that runs: each wait below comes  *)
(* to the end that is given for its part.                                  *)

Waiting(t) ==
    \/ which = "smp" /\ Smp!Bootable
    \/ which = "panic" /\ panic_cpu # Panic!Nobody
    \/ which = "sleep" /\ status[t] = "sleeping"
    \/ which = "pcie" /\ ~Pcie!FoundBridge
    \/ which = "nvme" /\ (nvme_pc # "done" \/ (call[1].at # "out" /\ call[1].blocks < 4))
Ended(t) ==
    \/ which = "smp" /\ \A l \in Ids : ap[l] = "idle"
    \/ which = "panic" /\ (\A c \in Cpus : panic_pc[c] = "halted") /\ (reported \/ nested)
    \/ which = "sleep" /\ (status[t] = "running" \/ odd \cap {"second", "signal"} # {})
    \/ which = "pcie" /\ scan_at = Pcie!Done
    \/ which = "nvme" /\ \/ nvme_pc = "done" /\ call[1].at = "out"
                         \/ nvme_pc = "undefined" \/ ctl.fatal \/ failed \cap {"cq", "sq", "early"} # {}
                         \/ Nvme!Wrapped \/ io.n = 5

\* Every CPU comes to the scheduler, if all that is needed was given, the MADT lists no
\* other CPUs and the local APIC 0 is in the CPU that boots (smp_init).  A panic stops
\* every CPU, one that holds or waits for the log's lock included, and its report comes
\* or is broken off by a fault: it waits for no lock (panic_prepare, smp_stop_cpus).
\* Alone, a sleeper wakes (sleep_queue_tick).  Without a bridge that pcie_is_bridge
\* recognises the scan ends (scan_bus).  The start of a disk controller ends, whatever is
\* in its queues before, if the controller starts and no data stay out; a read that
\* count can hold ends, if its queues were made, do not go round in it, and no entry is
\* taken for a completion before it is one (nvme_read).
WaitsEnd == \A t \in Sleepers : Waiting(t) ~> Ended(t)
=============================================================================
