------------------------------ MODULE MCMemory ------------------------------
(***************************************************************************)
(* Instances of the memory managers above the page allocator, for TLC.     *)
(* The heap (Slab), the page tables (PageTable) and address spaces         *)
(* (VmSpace) share no variable with each other here, so a behaviour is one *)
(* of one of them, and `which' says of which.  Variables of the others are *)
(* Off.                                                                    *)
(***************************************************************************)
EXTENDS Integers, Sequences, TLC

CONSTANTS CPUs,            \* of the heap
          pa, pb, pk,      \* the spaces of the page tables
          Off

VARIABLES which,
          slabs, slab, mem, freeing, pc,        \* Slab, with held and panic
          root, up,                             \* PageTable, with pte and used
          objects, tables, refs, call, lock,    \* VmSpace, with the rest
          held, panic, pte, used

heapVars == <<slabs, slab, mem, freeing, pc>>
tableVars == <<root, up>>
spaceVars == <<objects, tables, refs, call, lock>>
bothVars == <<pte, used>>       \* of page tables and spaces
sharedVars == <<held, panic>>   \* of the heap and spaces
vars == <<which, heapVars, tableVars, spaceVars, bothVars, sharedVars>>

\* Slabs of two small blocks or one large one.
Heap == INSTANCE Slab WITH PageSize <- 48, HeaderSize <- 12, BlockSizes <- <<16, 24>>,
                           Requests <- {9, 17}, MaxPages <- 2

\* Two processes and the kernel, six frames for tables.
Tree == INSTANCE PageTable WITH Spaces <- {pa, pb}, Kernel <- pk, Tables <- 1 .. 6,
                                Mid <- {0, 1}, Leaf <- {0}

\* A process's space, with MAP_FIXED over what is there, and the kernel's space.
User == INSTANCE VmSpace WITH Cpus <- {1}, Frames <- {1, 2}, EndPage <- 5, MaxPage <- 5, TableSpan <- 3,
            MaxLen <- 2, FilePages <- 1, MaxRanges <- 5, Readable <- BOOLEAN, MaxRefs <- 2
Replace == INSTANCE VmSpace WITH Cpus <- {1}, Frames <- {1, 2}, EndPage <- 5, MaxPage <- 4, TableSpan <- 3,
            MaxLen <- 2, FilePages <- 1, MaxRanges <- 3, Readable <- {TRUE}, MaxRefs <- 2
Kernel == INSTANCE VmSpace WITH Cpus <- {1, 2}, Frames <- {1, 2, 3}, EndPage <- 6, MaxPage <- 6, TableSpan <- 3,
            MaxLen <- 2, FilePages <- 1, MaxRanges <- 5, Readable <- BOOLEAN, MaxRefs <- 2

HeapInit == /\ which = "heap" /\ Heap!Init
            /\ root = Off /\ up = Off /\ objects = Off /\ tables = Off /\ refs = Off /\ call = Off /\ lock = Off
            /\ pte = Off /\ used = Off
TreeInit == /\ which = "tree" /\ Tree!Init
            /\ slabs = Off /\ slab = Off /\ mem = Off /\ freeing = Off /\ pc = Off
            /\ objects = Off /\ tables = Off /\ refs = Off /\ call = Off /\ lock = Off
            /\ held = Off /\ panic = Off
SpaceOff == /\ slabs = Off /\ slab = Off /\ mem = Off /\ freeing = Off /\ pc = Off
            /\ root = Off /\ up = Off
UserInit == which = "user" /\ User!Init /\ SpaceOff
ReplaceInit == which = "replace" /\ Replace!Init /\ SpaceOff
KernelInit == which = "kernel" /\ Kernel!Init /\ SpaceOff

Init == HeapInit \/ TreeInit \/ UserInit \/ ReplaceInit \/ KernelInit

Next ==
    /\ UNCHANGED which
    /\ \/ which = "heap" /\ Heap!Next /\ UNCHANGED <<tableVars, spaceVars, bothVars>>
       \/ which = "tree" /\ Tree!Next /\ UNCHANGED <<heapVars, spaceVars, sharedVars>>
       \/ which = "user" /\ User!UserNext(FALSE) /\ UNCHANGED <<heapVars, tableVars>>
       \/ which = "replace" /\ Replace!UserNext(TRUE) /\ UNCHANGED <<heapVars, tableVars>>
       \/ which = "kernel" /\ Kernel!KernelNext /\ UNCHANGED <<heapVars, tableVars>>

Spec == Init /\ [][Next]_vars

Symmetry == Permutations(CPUs)
-----------------------------------------------------------------------------
\* The heap on two CPUs.  The blocks on the free list of a slab are the free ones,
\* each once; in_use counts the others, frees under way included; blocks do not
\* overlap; and the allocator's own checks never fire (slab_alloc, slab_free).
HeapSafe ==
    which = "heap" => /\ Heap!TypeOK /\ Heap!FreeListIntact /\ Heap!InUseExact
                      /\ Heap!BlocksDisjoint /\ Heap!NoConsistencyPanic

\* The trees of tables behave as functions from addresses to mappings, one for
\* each space, with the kernel's half in all of them (mmu_map, mmu_unmap); and the
\* tables in use are those that live roots lead to (mmu_new_pgdir, mmu_destroy).
ImplementsAddressMap ==
    /\ which = "tree" => Tree!Abstract!Init
    /\ [][which = "tree" => Tree!Abstract!Next \/ UNCHANGED Tree!Abstract!vars]_vars
    /\ [](which = "tree" => Tree!TypeOK /\ Tree!TablesAccounted)

\* Mapping, faults, copies on write, refused mappings, unmapping and exit neither
\* lose a frame nor give one to two pages, except where a copy into a page that
\* cannot be read faults for ever; the page of zeros and the file's pages are never
\* writable, and the file stays open while it is mapped, also where a mapping
\* replaces another (vm_space_map, vm_page_fault, ramfs_vm_fault, vm_space_unmap).
FramesSafe ==
    /\ which = "user" => User!TypeOK /\ User!NoFrameLeak
    /\ which = "kernel" => Kernel!NoFrameLeak
    /\ which = "replace" => Replace!FrameOwnedOnce /\ Replace!SharedReadOnly /\ Replace!FileStaysOpen

\* The list of ranges is in order without overlap (MAP_FIXED apart); a process
\* reaches nothing outside its ranges; and what vmalloc has returned is backed by
\* frames, whatever another CPU maps and unmaps between the sections of a call, as
\* long as the mutex lets in one task at a time (vm_space_map, mutex_lock).
RangesSafe ==
    /\ which = "user" => User!RangesDisjoint /\ User!AccessWithinRanges
    /\ which = "kernel" => Kernel!RangesDisjoint /\ Kernel!AllocationBacked
=============================================================================
