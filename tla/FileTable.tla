------------------------------ MODULE FileTable ------------------------------
(***************************************************************************)
(* The system-wide table of open files (fs/vfs.c), the descriptors of the  *)
(* tasks that point into it (fs/vfs_sys.c), the references it holds on     *)
(* vnodes (fs/vnode.c) and the sockets, whose vnodes live only as long as  *)
(* they are open (net/socket_sys.c).  The table has no lock: taking a slot *)
(* and giving one up are two steps each, which other CPUs can come between.*)
(***************************************************************************)
EXTENDS Integers, FiniteSets, FiniteSetsExt

CONSTANTS Tasks, First,   \* tasks, and the one there is at the start
          Slots,          \* bound: context.open_files, 1 .. n
          Fds,            \* bound: descriptors of a task, 1 .. n
          Files,          \* vnodes that have a name: nlink # 0
          Socks,          \* bound: sockets ever made
          MaxLost,        \* bound: references lost on a vnode, or on a slot
          Cpus            \* system calls that can be under way at once

None == 0
Nodes == Files \cup Socks

VARIABLES files,   \* slot -> its refcount and inode
          node,    \* vnode -> ref and whether it exists or was freed
          fds,     \* task -> descriptor -> slot
          maps,    \* task -> slots its mappings hold a reference on
          op,      \* task -> the system call under way
          alive,
          lost,    \* vnode -> references that no file accounts for
          stray,   \* slot -> references of ranges that no address space lists
          raced    \* two CPUs were in the same slot: nothing is said from here on

vars == <<files, node, fds, maps, op, alive, lost, stray, raced>>

Idle == [pc |-> "idle", slot |-> None, node |-> None, fd |-> None, exit |-> FALSE]

Init ==
    /\ files = [s \in Slots |-> [ref |-> 0, inode |-> None]]
    /\ node = [n \in Nodes |-> [ref |-> 0, is |-> IF n \in Files THEN "live" ELSE "none"]]
    /\ fds = [t \in Tasks |-> [d \in Fds |-> None]]
    /\ maps = [t \in Tasks |-> {}]
    /\ op = [t \in Tasks |-> Idle]
    /\ alive = {First}
    /\ lost = [n \in Nodes |-> 0]
    /\ stray = [s \in Slots |-> 0]
    /\ raced = FALSE

Lowest(S) == IF S = {} THEN None ELSE Min(S)
FreeFd(t) == Lowest({d \in Fds : fds[t][d] = None})
FreeSlot == Lowest({s \in Slots : files[s].ref = 0})
Busy == {t \in Tasks : op[t].pc # "idle"}

\* Mutant: system calls run with interrupts on and can be preempted.
CanCallPreempted(t) == ~raced /\ t \in alive /\ t \notin Busy
\* A task that can enter the kernel: it runs, and a CPU is left for it.  The
\* gates mask interrupts, so that a CPU finishes one call before the next.
CanCall(t) == ~raced /\ t \in alive /\ t \notin Busy /\ Cardinality(Busy) < Cpus
\* The call of t touches slot s while another CPU is in the middle of it.
Meets(t, s) == \E u \in Busy \ {t} : op[u].pc \in {"fill", "clear"} /\ op[u].slot = s

\* vfs_open_internal up to the store: the vnode gets its reference before a
\* slot is found, and keeps it when there is none (-ENFILE).
Take(t, n, fd) ==
    /\ node' = [node EXCEPT ![n] = [ref |-> @.ref + 1, is |-> "live"]]
    /\ IF FreeSlot = None
       THEN /\ lost[n] < MaxLost
            /\ lost' = [lost EXCEPT ![n] = @ + 1]
            /\ UNCHANGED op
       ELSE /\ op' = [op EXCEPT ![t] = [Idle EXCEPT !.pc = "fill", !.slot = FreeSlot, !.node = n, !.fd = fd]]
            /\ UNCHANGED lost
    /\ UNCHANGED <<files, fds, maps, alive, stray, raced>>

\* sys_open, sys_openat: -EMFILE before anything is opened.
sys_open(t, n) == CanCall(t) /\ FreeFd(t) # None /\ Take(t, n, FreeFd(t))

\* sys_socket: the descriptor is looked for once the file is open.
sys_socket(t, n) == CanCall(t) /\ node[n].is = "none" /\ Take(t, n, FreeFd(t))

\* The slot is filled, its count stored last; sys_socket without a free
\* descriptor goes on to vfs_close.
Fill(t) ==
    LET o == op[t] IN
    /\ ~raced /\ o.pc = "fill"
    /\ files' = [files EXCEPT ![o.slot] = [ref |-> 1, inode |-> o.node]]
    /\ raced' = Meets(t, o.slot)
    /\ fds' = IF o.fd = None THEN fds ELSE [fds EXCEPT ![t][o.fd] = o.slot]
    /\ op' = [op EXCEPT ![t] = IF o.fd = None THEN [@ EXCEPT !.pc = "put"] ELSE Idle]
    /\ UNCHANGED <<node, maps, alive, lost, stray>>

\* Mutant: the last user is not told from the others.
LastNever(ref) == FALSE
\* vfs_put_file: whether the caller dropped the last reference.
LastUser(ref) == ref <= 1

\* What a call does once it is through with a file.
Resume(o) == IF o.exit THEN [Idle EXCEPT !.pc = "exit", !.exit = TRUE] ELSE Idle

\* vfs_close / vfs_put_file: the reference is dropped ...
Put(t, s, o) ==
    /\ files' = [files EXCEPT ![s].ref = @ - 1]
    /\ op' = [op EXCEPT ![t] = IF LastUser(files[s].ref) THEN [o EXCEPT !.pc = "clear", !.slot = s] ELSE Resume(o)]
    /\ UNCHANGED <<node, alive, lost, stray, raced>>

\* Mutant: the reference to the vnode is kept.
PutNone(n, x) == x
\* vnode_put: a vnode without a name goes with its last reference.
vnode_put(n, x) == [ref |-> x.ref - 1, is |-> IF x.ref <= 1 /\ n \in Socks THEN "freed" ELSE x.is]

\* ... and after the last one the vnode is put and the slot emptied.
Clear(t) ==
    LET o == op[t]
        n == files[o.slot].inode
    IN  /\ ~raced /\ o.pc = "clear"
        /\ raced' = Meets(t, o.slot)
        /\ node' = [node EXCEPT ![n] = vnode_put(n, @)]
        /\ files' = [files EXCEPT ![o.slot].inode = None]
        /\ op' = [op EXCEPT ![t] = Resume(o)]
        /\ UNCHANGED <<fds, maps, alive, lost, stray>>

\* sys_close.
sys_close(t, d) ==
    /\ CanCall(t) /\ fds[t][d] # None
    /\ fds' = [fds EXCEPT ![t][d] = None]
    /\ Put(t, fds[t][d], Idle) /\ UNCHANGED maps
\* The way out of sys_socket without a descriptor.
SocketNoFd(t) ==
    /\ ~raced /\ op[t].pc = "put"
    /\ Put(t, op[t].slot, Idle) /\ UNCHANGED <<fds, maps>>

\* Mutant: a duplicate is not counted.
RefNone(f, S) == f
\* vfs_ref_file, once for each slot of the set or the function's range.
RefFiles(f, S) == [s \in Slots |-> [f[s] EXCEPT !.ref = @ + Cardinality({x \in S : x[2] = s})]]

\* sys_dup.
sys_dup(t, d) ==
    /\ CanCall(t) /\ fds[t][d] # None /\ FreeFd(t) # None
    /\ files' = RefFiles(files, {<<d, fds[t][d]>>})
    /\ fds' = [fds EXCEPT ![t][FreeFd(t)] = fds[t][d]]
    /\ UNCHANGED <<node, maps, op, alive, lost, stray, raced>>

\* sys_spawn: the child gets a duplicate of every descriptor.
sys_spawn(t, c) ==
    /\ CanCall(t) /\ c \notin alive /\ c \notin Busy
    /\ files' = RefFiles(files, {<<d, fds[t][d]>> : d \in Fds})
    /\ fds' = [fds EXCEPT ![c] = fds[t]]
    /\ alive' = alive \cup {c}
    /\ UNCHANGED <<node, maps, op, lost, stray, raced>>

\* The reference of a range that is in no list any more, or never was.
Forget(gone) ==
    /\ \A s \in gone : stray[s] < MaxLost
    /\ stray' = [s \in Slots |-> stray[s] + Cardinality(gone \cap {s})]
\* The range that a mapping at a fixed address takes off the list, if it covers one
\* (space_replace_before): nobody puts its file.
Covered(t) == {gone \in SUBSET maps[t] : Cardinality(gone) <= 1}

\* sys_mmap of a file with vm_space_map: the range has a reference of its own from
\* the start, and keeps it when the address is refused and the range freed.
MapFile(t, d) ==
    LET s == fds[t][d] IN
    /\ CanCall(t) /\ s # None /\ files[s].inode \in Files
    /\ files' = RefFiles(files, {<<d, s>>})
    /\ \/ Forget({s}) /\ UNCHANGED maps
       \/ \E gone \in Covered(t) : /\ s \notin maps[t] \ gone
                                   /\ maps' = [maps EXCEPT ![t] = (@ \ gone) \cup {s}]
                                   /\ Forget(gone)
    /\ UNCHANGED <<node, fds, op, alive, lost, raced>>
\* sys_mmap of memory over a mapped file.
MapOver(t) ==
    /\ CanCall(t)
    /\ \E gone \in Covered(t) \ {{}} : Forget(gone) /\ maps' = [maps EXCEPT ![t] = @ \ gone]
    /\ UNCHANGED <<files, node, fds, op, alive, lost, raced>>
\* vm_free_range puts the file of a range that is still listed.
Unmap(t, s) ==
    /\ CanCall(t) /\ s \in maps[t]
    /\ maps' = [maps EXCEPT ![t] = @ \ {s}]
    /\ Put(t, s, Idle) /\ UNCHANGED fds

\* task_zombify: descriptors are closed in order, then the mappings go with
\* the address space.
Exit(t) ==
    /\ CanCall(t)
    /\ op' = [op EXCEPT ![t] = [Idle EXCEPT !.pc = "exit", !.exit = TRUE]]
    /\ UNCHANGED <<files, node, fds, maps, alive, lost, stray, raced>>
ExitStep(t) ==
    LET o == op[t]
        open == {d \in Fds : fds[t][d] # None}
    IN  /\ ~raced /\ o.pc = "exit"
        /\ IF open # {}
           THEN /\ fds' = [fds EXCEPT ![t][Min(open)] = None]
                /\ Put(t, fds[t][Min(open)], o) /\ UNCHANGED maps
           ELSE IF maps[t] # {}
           THEN \E s \in maps[t] : /\ maps' = [maps EXCEPT ![t] = @ \ {s}]
                                   /\ Put(t, s, o) /\ UNCHANGED fds
           ELSE /\ op' = [op EXCEPT ![t] = Idle]
                /\ alive' = alive \ {t}
                /\ UNCHANGED <<files, node, fds, maps, lost, stray, raced>>

Next ==
    \E t \in Tasks :
        \/ \E n \in Files : sys_open(t, n)
        \/ \E n \in Socks : sys_socket(t, n)
        \/ \E d \in Fds : sys_close(t, d) \/ sys_dup(t, d) \/ MapFile(t, d)
        \/ \E c \in Tasks : sys_spawn(t, c)
        \/ \E s \in Slots : Unmap(t, s)
        \/ MapOver(t) \/ Fill(t) \/ Clear(t) \/ SocketNoFd(t) \/ Exit(t) \/ ExitStep(t)

Spec == Init /\ [][Next]_vars
-----------------------------------------------------------------------------
\* Every variable has its type; a refcount never goes below zero.
TypeOK ==
    /\ files \in [Slots -> [ref : Nat, inode : Nodes \cup {None}]]
    /\ node \in [Nodes -> [ref : Nat, is : {"none", "live", "freed"}]]
    /\ fds \in [Tasks -> [Fds -> Slots \cup {None}]]
    /\ maps \in [Tasks -> SUBSET Slots]
    /\ \A t \in Tasks : op[t].pc \in {"idle", "fill", "put", "clear", "exit"}
    /\ alive \subseteq Tasks /\ raced \in BOOLEAN
    /\ lost \in [Nodes -> 0 .. MaxLost] /\ stray \in [Slots -> 0 .. MaxLost]

Holders(s) ==
    Cardinality({x \in Tasks \X Fds : fds[x[1]][x[2]] = s}) + Cardinality({t \in Tasks : s \in maps[t]})
        + Cardinality({t \in Tasks : op[t].pc = "put" /\ op[t].slot = s})

\* Unless two CPUs met in a slot, its refcount is the number of descriptors, of
\* duplicates in child processes and of mappings that use it, and of the ranges
\* that vm_space_map refused or took off a list: these it counts for ever, and no
\* other path of vfs_ref_file and vfs_put_file is out of balance.
RefsCounted == ~raced => \A s \in Slots : files[s].ref = Holders(s) + stray[s]

\* Unless two CPUs met in a slot, what a descriptor or a mapping points to can
\* be used: the slot has its inode, and the inode was not freed
\* (vfs_read, vfs_seek and vfs_fstat rely on it without a lock).
DescriptorUsable ==
    ~raced => \A s \in Slots : Holders(s) > 0 => /\ files[s].inode # None
                                                /\ node[files[s].inode].is = "live"

\* Unless two CPUs met in a slot, a vnode counts the files that are open on
\* it, the one being opened, and the references lost when the table was full;
\* a socket is freed as soon as nothing is left of these (vnode_put).
NodesCounted ==
    ~raced => \A n \in Nodes :
        /\ node[n].ref = Cardinality({s \in Slots : files[s].inode = n})
                           + Cardinality({t \in Tasks : op[t].pc = "fill" /\ op[t].node = n}) + lost[n]
        /\ n \in Socks /\ node[n].is = "live" => node[n].ref > 0

\* On one CPU, where a system call is not interleaved with another, no two
\* callers are ever in the same slot.
NeverRaced == ~raced

\* A slot is given a second time while it is being emptied or filled only by
\* two calls under way at once: with every call finished, a slot without
\* users is empty (put_file clears what it gives up).
IdleSlotsEmpty == ~raced /\ Busy = {} => \A s \in Slots : (files[s].ref = 0) <=> (files[s].inode = None)
=============================================================================
