# A verification project for the monolith kernel

TLA+ models of the monolith kernel, from the boot loader to the programs at the
prompt: locks, memory, tasks, files, network, devices. TLC checks them on small
instances. TLAPS proves for every value of the constants what is safe about
locks and page allocation, the start of the CPUs, interrupts, the devices other
than disks, and the network from the card to dhcpcl. `PROJECT.json` maps each
definition to the source lines it models and lists the hazards of the code,
each at its line, with the properties that would show it going wrong.

## The system

monolith is an SMP kernel for x86-64 (`qemu.sh` starts it with six processors,
the debug configuration with one).

| Part | State | Operations | Talks to |
|---|---|---|---|
| ticket spinlock, interrupt flag | two 16-bit counters, IF of each CPU | acquire, release, irqsave variants | everything |
| physical memory | memory map, bitmap, two counters | `pmm_init`, `pmm_allocate`, `pmm_free` | boot map, slab, vmm |
| heap | slab lists, headers, in-block free lists | `kmalloc`, `kfree` | pmm |
| mutex | flag, stack of waiters, task status | `mutex_lock`, `mutex_unlock` | scheduler, everything that sleeps |
| wait queues | list of nodes, task status | register, unregister, wake | scheduler, tty, sockets, arp |
| signals | pending set, task status | `send_signal`, group delivery, handling on return to user mode | scheduler, exit |
| terminal | input ring, foreground group, session | `tty_read`, `tty_consume`, ioctls | mutex, wait queue, signals, keyboard interrupt |
| scheduler | run queue of each CPU, idle tasks | `sched_add_ready`, `schedule` | all of the above |
| processes | task list, children, session, status | spawn, exit, waitpid, setsid, setpgid | signals, files, memory |
| sleep queue | delta list of each CPU | nanosleep, tick | timer, scheduler |
| virtual memory | ordered ranges, page tables, frames | map, unmap, fault | pmm, files |
| names | entries with counts, cache of names, mounts | lookup, create, mount | procfs, ramfs, files |
| open files | table of 64 open files, descriptors of tasks | open, read, write, close, dup | names, sockets, devices |
| programs | segments, interpreter, first stack | exec | files, virtual memory |
| network | ARP table and waiters, UDP ports, receive queues, routes | bind, send, receive | e1000, wait queues |
| devices | e1000 and NVMe rings, disks, keyboard ring, screen | submit, interrupt, poll | network, files, tty |
| interrupts | vectors, IOAPIC, MSI-X | register, dispatch | devices, timer |
| start and end | CPUs, clocks, trampoline; log, panic | boot, panic | everything |

What makes the code hard to test:

* Every entry of the interrupt table is an interrupt gate
  (`arch/x86_64/idt.c:20`). System calls and handlers run with interrupts off,
  so a CPU is interrupted only in user mode and in its idle thread. Races are
  between CPUs; there is no preemption inside a system call.
* A task marks itself as sleeping in several places, with a
  compare-and-exchange on its status that is not under the lock of the queue it
  waits on.
* A signal and a wait queue can wake the same task.
* An interrupt handler borrows the task it interrupted, also when it takes a
  lock that sleeps.

The hazards, each at its line, are listed in `PROJECT.json`.

## Modules

| Module | Models |
|---|---|
| `Spinlock` | `include/sys/spinlock.h`, with interrupt masking |
| `FifoLock` | what a lock promises: holders enter one at a time in the order they came |
| `SpinlockProofs` | theorems about `Spinlock` |
| `Pmm` | `mm/pmm.c`, `mm/memory_map.c`, `arch/x86_64/memmap.c` |
| `PageAllocator` | what a page allocator promises |
| `PmmProofs` | theorems about `Pmm` |
| `Slab` | `mm/slab.c` |
| `Mutex` | `sys/mutex.c`, and `sys_exit` as far as `task_zombify` takes a mutex |
| `MutexProofs` | theorems about `Mutex` |
| `Tty` | terminal input: `dev/tty.c` with `sched/waitqueue.c`, `sched/signal.c` and the mutex of module `Mutex` |
| `Sched` | run queues, `schedule()` and stealing: `sched/scheduler.c` |
| `Process` | `sched/task.c`, `sched/task_sys.c`, `sched/signal.c`, sessions and the controlling terminal |
| `Session` | init, getty, login and shell, as callers of `Process` |
| `SleepQueue` | `sched/task_sleep.c` and the timer interrupt |
| `VmSpace` | `mm/vmm.c`, `mm/vm_syscall.c` and page faults |
| `PageTable` | `arch/x86_64/mmu.c` |
| `AddressMap` | what page tables promise: a function for each space |
| `Exec` | arguments, `sys/binfmt/binfmt.c`, `sys/binfmt/elf.c` |
| `NameSpace` | `fs/ventry.c`, `fs/lookup.c`, `fs/generic.c`, `fs/super.c`, entries of procfs |
| `FileTable` | `fs/vfs.c`, `fs/vfs_sys.c`, `fs/vnode.c`, sockets as files |
| `Ramfs` | `fs/ramfs/ramfs.c` |
| `ByteFile` | what a file promises: an array of bytes |
| `Fat` | `fs/fat/fatfs.c` |
| `Disk` | `dev/disk.c` and the table of devices, `sys/device.c` |
| `UdpTable` | `net/ipv4/udp.c`: ports and sockets |
| `Receive` | `net/socket.c`: the wait for a packet |
| `Arp` | `net/arp.c` and the sender in `net/ipv4/ipv4.c` |
| `Ping` | `net/ipv4/raw.c` and the program ping |
| `Dhcp` | the program dhcpcl, the ioctls it uses and `net/ipv4/route.c` |
| `E1000` | `dev/net/e1000/e1000.c` |
| `Nvme` | `dev/nvme/nvme.c` |
| `Pcie` | `dev/pcie/pcie.c` |
| `Irq` | `sys/irq.c`, `arch/x86_64/ioapic.c`, dispatch |
| `Keyboard` | `dev/ps2.c` |
| `Screen` | `dev/efifb.c`, `dev/console.c` |
| `Smp` | from `arch/x86_64/boot.c` to all CPUs in the scheduler |
| `Panic` | `klog.c`, `panic.c`, exceptions |
| `Start` | theorems about `Smp` and `Irq` |
| `Devices` | theorems about `Screen`, `SleepQueue`, `Pcie`, `Keyboard` and `Panic` |
| `Interface` | theorems about `Arp` and `E1000` |
| `Sockets` | theorems about `Receive`, `Ping` and `Dhcp` |
| `Machine` | `Start` and `Devices` beside `Nvme`, `Disk`, `Fat` and `Exec`, for TLC |
| `Net` | `Interface` beside `Sockets`, for TLC |
| `MCMemory`, `MCTasks`, `MCFiles` | instances of the other modules, side by side, for TLC |

`Spinlock`, `Pmm`, `Mutex` and `Tty` need no module of their own for TLC; their
configurations are `MCSpinlock.cfg`, `Pmm.cfg`, `MCMutex*.cfg`, `Tty.cfg` and
`TtyWake.cfg`.

The modules of one side-by-side instance do not share state: a variable `which`
is chosen at the start, the module of that name runs, and the variables of the
others stay in their initial state or have the value `Off`. Composition of parts that do
interact is inside the modules: `Tty` runs on the mutex of `Mutex`, `Session`
on the processes of `Process`.

Where the code goes on in undefined behaviour (freed memory, a pointer out of
a list, an index past a table), a variable such as `undef`, `fault` or `raced`
records it and the behaviour ends there, unless the outcome of the build is
plain. Properties then say in which cases alone this comes about.

A definition whose comment begins with "Mutant" is a plausible mistake in the
definition after it. It is not part of the model. Putting it in that
definition's place must make the property named in `PROJECT.json` fail.

### Spinlock

Each CPU runs at the level `thread` (interrupts allowed) or `gate` (entered
through the interrupt table). A context is one level of one CPU. Taking a
ticket, seeing one's turn, releasing, saving and restoring the interrupt flag
are separate steps. The plain `spinlock_acquire` is allowed only with
interrupts off, which is how the kernel calls it once it has started;
`kernel_main`, which takes locks of the file system with interrupts on while no
handler uses them, is left out. Tickets have `TicketSpace` values (2^16 in the
code).

### Pmm

Addresses are counted in pages and a bitmap word is the set of its 1 bits. Boot
is modelled one loop iteration at a time, from any memory map of a given set;
`pmm_allocate` and `pmm_free` hold their lock for the whole body and are single
steps. `PmmAssumption` states what the boot protocol promises, and that an
entry at address 0 covers the two pages that `parse_memory_map` skips.

### Slab

Memory is the first word of each block: the link of the free list while the
block is free, the owner's data while it is not. `slab_alloc` holds the cache
lock throughout and is one step. `slab_free` is three: the checks and the fill
happen without the lock. Callers free what they own, once.

### Mutex

The mutex's own spinlock makes one step of `mutex_lock` up to its release, and
is held through the loop of `mutex_unlock`, one step per waiter popped. The
compare-and-exchange after the release is a step of its own. The scheduler is
reduced to "a task that yields runs again once its status is RUNNING". Idle
tasks differ: `schedule()` returns to the idle task whenever nothing else is
ready, whatever its status. `Leaders` are the tasks that may exit and take
`tty->lock` as a zombie.

A woken waiter returns without setting `locked`. Another task may then take
the mutex beside it, so the model has no exclusion property; what holds is
stated instead. `VmSpace`, `UdpTable` and `Arp` have the same lock around their
tables and are followed up to the moment when two tasks are inside it; on one
CPU that does not happen to ports and addresses, and this is checked.

### Tty

One reader, one task that the keyboard interrupts, one child of the reader that
sends SIGCHLD, and a shell that moves the foreground group. The lock is the
real one: its actions are those of `Mutex`, with `at` saying when a task calls
them. `send_signal` is two steps (record, then wake), as is the sleep of
`tty_read` (register, then set the status). A panic is a final state.

### Sched, Process, Session, SleepQueue

`Sched` has the steps of `schedule()` between which other CPUs see its effects:
the choice of the next task, stealing, requeueing, the switch. `raced` records
the tasks that were woken or stolen in the windows the code leaves open.
`Process` cuts exit, spawn, waitpid and the opening of the terminal at the
points where another CPU can see them half done; with one CPU nothing comes in
between. A spawn fails when its arguments cannot be copied. `Session` lets only those steps happen that init, getty, login, the
shell and its job take, has memory for their spawns, and adds `^C`. `SleepQueue` keeps the list of sleepers
as pointers into the stacks of the tasks, because the second sleeper is linked
the wrong way round (`sched/task_sleep.c:66`): `odd` records that a second task
slept or a signal came, and what is promised is promised before that.

### VmSpace, PageTable, Exec

`VmSpace` is the list of ranges, one page table entry per page, the page tables
that exist, the frames and the count of references on a mapped file, with any
rights to read and to write and with faults of the program and of the kernel's
own copies. A process's space runs on one CPU; the kernel's space on two, where
the lock is dropped between the listing and the mapping of a range. Memory may
run out anywhere. The copy of a page that cannot be read faults again and again
(`ramfs.c:164`) and is the one way in which frames are lost. Replacing a mapping
(`MAP_FIXED`) is a separate instance: `vmm.c:98` does not keep the list sorted,
so that only frames and references are promised there. `PageTable` is the tree
of frames below each root, with the kernel's half shared, and implements
`AddressMap`. `Exec` keeps memory as a function from addresses to what is there
(a byte of the file, a zero, nothing) and loads programs and interpreters, of
both types, whose segments begin and end anywhere in a page; a segment that comes
to address 0 is mapped at the first gap instead, and one that does not fit is
left out, as `elf_load` does not look at the result.

### NameSpace, FileTable, Ramfs, Fat, Disk

`NameSpace` has entries with reference counts, the cache as one hash chain,
lookups of paths, creation, mounting of procfs, and processes that come and go
below it, with absolute and relative paths and `..`. Correctness of a lookup is
stated against a walk of the tree that knows no cache. `FileTable` splits the
calls where the table, which has no lock, is half changed; the reference of a
mapping that is refused or replaced is never given back (`stray`). `Ramfs` walks
a list of pages for each read and write of several open files, whose positions
may be anywhere, and for page faults; it implements `ByteFile` up to the first
access outside the list. `Fat` reads a directory sector entry by entry, from
every layout of at most three files and gaps, on devices with blocks of several
sizes. `Disk` registers the namespaces of two
controllers and their partitions, then asks what each node of `/dev` reads.

### Receive, UdpTable, Arp, Ping, Dhcp, E1000

Each has the network as its environment, which loses messages, and for `Arp`
and `Dhcp` reorders them; `Dhcp` also has several servers, duplicates and
refusals. `UdpTable` keeps sockets as blocks of memory that are given out
again after they are freed, and ports with their two bytes exchanged where the
code exchanges them; the behaviour ends at the first link that leads astray. `Arp` keeps the chains of waiters as the code links
them, and the queue of one waiter as a set, since a reply wakes all that are on
it. On two CPUs a reply can come between a request and the waiter's
place in the table, where it wakes nobody. In `Dhcp` an address or a mask is the
set of its one bits, and a run may end at any call. `E1000` has the card's head
and tail beside the driver's position, and the message of an interrupt that comes
in the middle of the handler.

### Nvme, Pcie, Irq, Keyboard, Screen

`Nvme` has one namespace. The controller may fail to start, fail a command, and
answer late; the driver polls entries that hold anything until the controller
writes them. In `Pcie` the calls of `scan_bus` and `scan_device` are a stack, and
base address registers are counted in 4 bytes, with ports whose address has the
bit that means 64 bits and regions of 4 GiB. `Irq` lets interrupts come between the steps of a
registration, with any wiring of two lines by the MADT. `Keyboard` and `Screen`
run on one CPU and on two, since neither driver has a lock; the keyboard's keys
are those that differ in what the driver does with them (two keys for a modifier,
a letter, keys without a character and behind the tables). The screen begins with
what the firmware drew, and whoever has `/dev/fb0` draws over the text, also after
text mode has come back; `page` is the text with all that, without an end.

### Smp and Panic

`Smp` is the order of the first CPU's steps up to `sched_start_cpu`, with a
panic at each check, and the others from the startup message through the
trampoline to the scheduler. `Panic` has CPUs that log, that report a task's
fault without the lock, that panic, and that fault again while they panic.

## Runs

| Run | Instance | Shows |
|---|---|---|
| `spinlock` | 2 CPUs, 3 tickets, fair | exclusion, no self-deadlock, interrupt flag restored; implements `FifoLock`; every CPU that spins gets in |
| `pmm` | 7 memory maps, words of 4 bits | only usable memory, no page lost or shared, counters, boot ends, implements `PageAllocator` |
| `memory` | heap: 2 CPUs, 2 caches, 2 pages. Page tables: 2 processes, 6 frames. Spaces: 5 or 6 pages, 2 or 3 frames, 2 CPUs in the kernel's | blocks and free lists; tables implement `AddressMap` and are all freed; frames lost only by one fault that repeats, none shared, no access outside of a range |
| `mutex` | 4 tasks, one may exit, fair | no sleeper off the queue, waiters have a waker, the queue drains |
| `mutex_unlock_panic` | 2 tasks | violated: `sys/mutex.c:68` |
| `mutex_exit_panic` | 2 tasks | violated: `sys/mutex.c:35` |
| `terminal` | ring of 3, 5 keystrokes, idle CPU, fair | no lost wakeup, signal or input; a reader returns |
| `tty_wake_panic` | 1 keystroke | violated: `sched/waitqueue.c:79` |
| `tasks` | scheduler: 3 tasks on 1 CPU, 2 on 2. Processes: 3 pids on 1 CPU, 4 on 2. Programs: 6 pids, one `^C` | no task and no child lost, two CPUs on one task only by the named races, who is ready runs, who is interrupted ends, who has ended is reaped; one getty, which owns the terminal; the shell prompts in the foreground |
| `files` | names: 6 entries. Open files: 2 tasks, 2 slots, 1 and 2 CPUs. ramfs: 2 pages of 2 bytes, 2 open files. Ports: 3 sockets on 1 CPU, 2 on 2, 4 ports | lookups agree with the tree, counts are exact, files are arrays of bytes, a port leads to its socket |
| `net` | 2 tasks or processes, rings of 3, 2 servers, 2 runs of dhcpcl | packets once and in order, waits end, what is dropped and only how, what dhcpcl configures |
| `machine` | see below | boot, panic, interrupts, sleep, bus, disk, programs, keyboard, screen |

`machine` has eleven parts: boot of 3 CPUs of which any may be the first, with
an entry for one that is absent; panic on 3 CPUs; 4 interrupt lines, 3 vectors
and 3 pins; 2 sleepers with times 0, 2, 3 and 5 and a tick of 2; a bus of 2
devices with 2 functions, with calls up to a depth of 3; an NVMe queue of 3 that
goes round, a page of 2 blocks and counts below 4; 2 controllers of 2
namespaces with 2 GPT entries; FAT sectors of 6 entries; pages of 8 units for
programs, with up to 2 arguments; a keyboard ring of 3; a screen of 2 by 2, two
writers and two users of graphics.

The invariant that a run checks for a part is the conjunction of the part's type
invariant and of the invariants that its module states and explains one by one:

| Run | Property | Conjoins |
|---|---|---|
| `spinlock` | `InterruptSafe` | no self-deadlock, interrupt flag |
| `pmm` | `PagesSafe`, `CountersExact` | who owns which page; the two counters and the panic |
| `memory` | `HeapSafe`, `RangesSafe`, `FramesSafe` | `Slab`; lists of ranges; frames and references of `VmSpace` |
| `mutex` | `WaitersSafe` | sleepers on the queue, holder of the flag |
| `terminal` | `InputSafe` | `Tty` |
| `tasks` | `TasksScheduledOnce`, `FamilySafe`, `TerminalOwned`, `TasksMoveOn` | `Sched`; `Process`; `Session`; the liveness of the first two |
| `files` | `LookupCorrect`, `OpenFilesCounted`, `PortsExact` | `NameSpace`; `FileTable`; `UdpTable` |
| `net` | `SocketsSafe`, `SendersListed`, `RingsSafe`, `ConfiguredAsOffered`, `WaitsEnd` | `Receive` and `Ping`; `Arp`; `E1000`; `Dhcp`; the liveness of all |
| `machine` | `StartSafe`, `PanicSafe`, `RightHandler`, `WokenOnTick`, `ScanSafe`, `ReadsDisk`, `ReadsOwnDisk`, `ProgramInPlace`, `ConsoleSafe`, `WaitsEnd` | `Smp`; `Panic`; `Irq`; `SleepQueue`; `Pcie`; `Nvme`; `Disk` and `Fat`; `Exec`; `Keyboard` and `Screen`; the liveness of all |

The mutants in `PROJECT.json` break them through different conjuncts.

Liveness is stated where the parts are put together (`MCTasks`, `Machine`,
`Net`). Since the part that runs never changes, `TasksMoveOn` and `WaitsEnd` say
in one formula, with a case for each part, which wait leads to which end. A wait
that this code may not end is excepted by name: after a controller that failed to
start, a packet that got lost, a signal in `arp_search`.

A property of a part that this code does not keep in all cases names the cases
in its statement (`TwoCpusOnlyByRace` in `Sched`, `StrandedOnlyInWindow` in
`E1000`, `OverrunOneRecord` in `Fat`, `DeepOnlyForBridge` in `Pcie`, ...). The
run then shows that there are no others.

Bounds. More CPUs than tickets the lock does not allow; with three tickets two
CPUs reuse every value. The memory maps have regions that begin and end inside a
word, cover a whole one, are too small for the bitmap, are used up by it, and
are too many to split. The slab instance has a page with two blocks and a page
with one, and more requests than memory. With four tasks there are two waiters
besides the task inside and one that overtakes. Rings of three hold two
elements, are overflowed and wrap. Two tasks or two CPUs are enough for each
window in the code, which is between one actor's test and its use; a third
actor is there where a queue has to hold two (scheduler, ports). Two pages, two
blocks in a page and two functions of a device give each loop a first, a next
and a last iteration.

Fairness. A CPU never stops inside the lock's functions and handlers return
(`Progress` in `Spinlock`). Boot code runs on. Tasks inside the mutex leave it,
and ready tasks are run (`Proceed` in `Mutex`). In `Tty` the steps of each task
are strongly fair, because the spinlock they contend for is first come first
served; so are those of a process in the kernel (`Process`), which the round
robin of `Sched` brings back. In the other modules `Progress` is the code that
has been entered, and the devices and peers that answer; a loss is an action
of its own and the property excepts it. Nobody is obliged to start anything: no
key need be pressed, no lock asked for, no packet sent.

### Where the code and its own checks disagree

Three checks in the code stop the kernel in states it can reach.

* `mutex_unlock_panic`: the unlocker runs between a waiter's push and its
  change of status.
* `mutex_exit_panic`: a session leader exits while another task holds
  `tty->lock`.
* `tty_wake_panic`: a signal wakes a reader, and a key is pressed before the
  reader has taken its node off the wait queue.

The passing runs of `Mutex` and `Tty` contain these panics as final states, and
their properties hold up to them.

## Proofs

`SpinlockProofs`, for every finite set of CPUs no larger than the ticket space.
Exclusion alone is not inductive. `SpinInv` adds that the tickets in use are
exactly the values from `now_serving` up to `next_ticket`, counted around the
wrap and one per context, that only the context whose turn it is holds the
lock, and that a CPU's thread is outside the lock's functions whenever its gate
is active. Two contexts that hold the lock have the same ticket, hence are the
same. The refinement to `FifoLock` maps the queue to the contexts sorted by the
distance of their ticket from `now_serving`.

`PmmProofs`, for every word size, page size and set of maps that satisfies
`PmmAssumption`. The invariant relates the bitmap to the loop variables: while
region `r` is being marked, the bits set are the pages of the usable regions
before it and the part of `r` already passed. That usable regions are disjoint,
also after the bitmap has been cut from one of them, is what keeps a bit from
being set twice and the counter exact. The count of used pages is
that of the pages which the loop has counted (`BootCounted`, larger by a region
with each iteration) plus those handed out since.

`MutexProofs`, for every set of tasks. `Held` needs only types. The queue is the
smallest set of tasks that contains its head and is closed under `next`
(`Listed`), so that no induction is needed to follow it; `QueueInv` adds that
whoever is on it has not been woken, and that no two links lead to one task. The
waiter invariant also needs that a task with the status SLEEPING is at the yield of
`mutex_lock`, so that popping it leaves a woken task behind; this is false for
idle tasks, which the theorems exclude.

`Start`, `Devices`, `Interface` and `Sockets` prove, for each of their parts, the
invariant `IInv` that the part's module ends with, for all constants that are
`Sane` (the assumptions on them that the module states); the properties that the
runs `machine` and `net` check follow from it. Facts about the number of elements
of finite sets are stated as `Finiteness` and proved from `FiniteSetTheorems`.

* `Smp`, for any CPUs and any MADT. The table of CPUs is built entry by entry
  (`Listed`), and each CPU is where the stage of the first allows it to be
  (`Places`): a CPU is in the trampoline only between the startup message and
  its increment of the counter, whose value is the number of the CPUs counted.
* `Irq`, for any numbers of pins, cards and vectors. Vectors are given out in
  order, and a pin or a card that is open has a vector that leads to its line.
* `Screen`, for any size, any CPUs and any users of graphics. The screen is the
  page from below the rows that have left it (`Mirrors`), which pixels and
  characters change alike; `Halfway` says where the cursor is, seen from the text,
  at each step of `efifb_putchar`; without a race one CPU is inside (`Alone`).
* `SleepQueue`, for any times and any period. As long as only one task sleeps
  the list is the head and its node (`Alone`), and the time left and the time
  slept make up the time asked for (`Timed`).
* `Pcie`, for any numbers of devices and functions. A function that the scan is
  past in this call has been started once for each call, and is no bridge. A
  register is written back as it was read but for two bits.
* `Keyboard`, for a ring of any size, any keys, tasks and CPUs. The remainders
  of the code are replaced by `After`, which goes round once; the tail is as far
  after the head as the queue is long (`RingOK`). A modifier is set as long as a
  key of it is down, unless another was let go meanwhile. One owner needs that without a
  race at most one task is between the halves of `kbd_open` (`OneOpens`).
* `Panic`, for any CPUs. One CPU reports, because only the winner of the
  exchange is past it. That a line of the log is another CPU's only after an
  unlocked write needs that a CPU between filling and printing finds its own
  text unless somebody wrote without the lock (`OwnText`).
* `Arp`, for any tasks, next hops and buckets, on any number of CPUs. An address
  is in one place of its chain (`Chained`); a task that waits is there or is
  behind an address that was answered (`Sleepers`); on one CPU nobody asks for
  what is known (`Unknown`), as one call or the handler is at work and has the
  lock for itself (`OneAtWork`).
* `E1000`, for rings of any size. `Order` says how the ring lies seen from
  `cur_rx`: the frames that wait, the card's descriptors up to the tail, those to
  be given back. `Contents` ties done bits and frames to it. `Noticed` says that
  outside the window a frame that waits is in front of the handler's loop or
  announced by an interrupt that will find the cause set. `Queued` is the like
  for sending, as long as the ring is not overrun and no two CPUs meet.
* `Receive`, for any tasks and packets. Who is on the queue is in the loop, and
  is asleep unless a signal woke it.
* `Ping`, for any programs. What a socket has got is what has arrived since it
  was made (`Copies`), and between a request and its answer nothing else of this
  program is under way (`Turns`).
* `Dhcp`, for any servers and addresses. Address and mask belong together but
  from the one ioctl to the other (`Paired`); in a run in which nothing odd came,
  what is on its way belongs to the client's place (`InTurn`); all routes have one
  metric and the first fits every address (`Equal`).

Only model-checked: liveness (`StarvationFree`, `BootCompletes`, `WaitersDrain`,
`InputIsRead`, `TasksMoveOn`, `WaitsEnd`), which is outside the prover's reach;
the refinements of `AddressMap` and `ByteFile`, whose maps follow trees and lists;
and the safety of heap, page tables and address spaces, of tasks and the terminal,
of names, open files and ports, and of NVMe, disks, FAT and programs. Their
operators fold, filter or sort lists, and what these compute for every input
needs induction over data.

## Not modelled

* Text and tables: `libk/string.c`, `libk/vsprintf.c`, the font (4611 lines),
  PCI class names, the text of procfs, the contents of termios.
* `limine.h` and the headers of ACPI, which declare formats.
* Registers and stacks: `gdt`, the stubs of the interrupt table, the table of
  system calls. That every gate masks interrupts is used everywhere.
* `initramfs.c`, which unpacks an archive once with calls that are modelled;
  `pseudo.c`, which has no state; `rtc.c`, read once.
* `pcie_enable_msix`, the registers of the e1000's setup one by one, more than
  one NVMe namespace, and the length a read of a partition returns.
* Headers and checksums of IP and UDP, and the bytes of DHCP's options. The
  checksum of ping is modelled.
* `libc`, `ports` and the commands that only make a few calls and print (ls, cat,
  mkdir, mount, stat, tee, touch), and line editing in the shell.
* `pid_send_signal`, `ioapic_disable` and unlink, which nothing calls.

The memory model is sequentially consistent; the code's fences are release and
acquire pairs around the lock, which x86 provides.
