------------------------------- MODULE VmSpace -------------------------------
(***************************************************************************)
(* mm/vmm.c, mm/vm_syscall.c and the faults of ramfs files: an address     *)
(* space is a list of ranges, a page table and the frames behind it.       *)
(* Addresses and lengths count pages; page 0 is below the space.  A space  *)
(* of a process has one task, whose sections under space->lock nobody      *)
(* meets; the kernel's is used by every CPU, and the mutex lets a task     *)
(* that has waited in without marking it as locked (mutex.c:39).  What two *)
(* tasks inside do to the list together is not followed (Overlap).         *)
(***************************************************************************)
EXTENDS Integers, FiniteSets, FiniteSetsExt, SequencesExt

CONSTANTS Cpus, Frames,
          EndPage,      \* end_address
          MaxPage,      \* bound: the last page the model has
          TableSpan,    \* pages under one page table
          MaxLen,       \* bound: the longest mapping asked for
          MaxRanges,    \* bound: ranges in the list
          Readable,     \* bound: the read rights mmap is asked for
          MaxRefs,      \* bound: references taken to the file
          FilePages     \* the length of the file that is mapped

ZeroCow == -1     \* zero_cowmem, the page of zeros every fresh page starts as
FilePage == -2    \* a page of the file's own contents
DevicePage == -3
WildPage == -4    \* what the head of the file's list of pages is taken for
StartPage == 1
Pages == 1 .. MaxPage

VARIABLES objects,  \* the ranges of the space, in list order
          pte,      \* the page table entries
          tables,   \* the page tables that exist
          used,     \* frames pmm has handed out
          refs,     \* references to the mapped file
          call,     \* where each CPU is in a call, and its range
          lock,     \* space->lock: the flag, its stack of waiters, the tasks inside
          held,     \* ranges whose address vmalloc has returned
          panic

vars == <<objects, pte, tables, used, refs, call, lock, held, panic>>

NoPte == [present |-> FALSE, frame |-> 0, w |-> FALSE, owner |-> FALSE]
\* convert_vm_params: an entry is present if its page can be read.
Entry(r, f, w, own) == [present |-> r, frame |-> f, w |-> w, owner |-> own]
NoRange == [base |-> 0, len |-> 0, kind |-> "anon", r |-> FALSE, w |-> FALSE]
Idle == [at |-> "idle", o |-> NoRange]

End(o) == o.base + o.len
Span(o) == o.base .. End(o) - 1
Covers(o, p) == o.base <= p /\ End(o) > p
\* VM_FLAG_COW: vm_space_map sets it for anonymous memory, ramfs_mmap for files.
Cow(o) == o.w /\ o.kind \in {"anon", "file"}

Init ==
    /\ objects = <<>> /\ pte = [p \in Pages |-> NoPte] /\ tables = {}
    /\ used = {} /\ refs = 0 /\ panic = FALSE
    /\ call = [c \in Cpus |-> Idle]
    /\ lock = [locked |-> FALSE, waiting |-> <<>>, inside |-> {}]
    /\ held = {}

\* pmm_allocate: panics when there is no free frame.  Frames are alike.
OutOfMemory(n) == Cardinality(Frames \ used) < n
pmm_allocate == Min(Frames \ used)
Panic == panic' = TRUE /\ UNCHANGED <<objects, pte, tables, used, refs, call, lock, held>>

Goto(c, at, o) == call' = [call EXCEPT ![c] = [at |-> at, o |-> o]]
Return(c) == call' = [call EXCEPT ![c] = Idle]
Free(c) == ~panic /\ call[c] = Idle
-----------------------------------------------------------------------------
(* space->lock (module Mutex has its steps).                               *)

Alone == Cardinality(Cpus) = 1

mutex_lock(c) ==
    lock' = IF Alone THEN lock
            ELSE IF lock.locked THEN [lock EXCEPT !.waiting = <<c>> \o @]
            ELSE [lock EXCEPT !.locked = TRUE, !.inside = @ \cup {c}]

\* The waiter that is woken is inside, and `locked' stays clear.
mutex_unlock(c) ==
    lock' = IF Alone THEN lock
            ELSE [locked |-> FALSE,
                  waiting |-> IF lock.waiting = <<>> THEN <<>> ELSE Tail(lock.waiting),
                  inside |-> (lock.inside \ {c}) \cup (IF lock.waiting = <<>> THEN {} ELSE {Head(lock.waiting)})]

Inside(c) == ~panic /\ (Alone \/ c \in lock.inside)
Overlap == Cardinality(lock.inside) > 1
-----------------------------------------------------------------------------
(* Mapping.                                                                *)

\* Mutant: the new range only has to start outside the others.
CheckRangeStart(o, replace) ==
    LET S == {i \in DOMAIN objects : objects[i].base > o.base \/ Covers(objects[i], o.base)}
        i == IF S = {} THEN Len(objects) + 1 ELSE Min(S)
    IN  IF o.base < StartPage \/ End(o) >= EndPage \/ (S # {} /\ objects[i].base <= o.base)
        THEN [ok |-> FALSE, list |-> objects]
        ELSE [ok |-> TRUE, list |-> InsertAt(objects, i, o)]

\* space_replace_before: the range found keeps what lies behind the new one.
space_replace_before(i, o) ==
    LET before == objects[i]
        moved == End(o) - before.base
        rest == IF before.len <= moved THEN <<>>
                ELSE <<[before EXCEPT !.base = End(o), !.len = @ - moved]>>
    IN  SubSeq(objects, 1, i - 1) \o <<o>> \o rest \o SubSeq(objects, i + 1, Len(objects))

\* space_check_range: list the range at its address if that is free.
space_check_range(o, replace) ==
    LET S == {i \in DOMAIN objects : objects[i].base > o.base \/ Covers(objects[i], o.base)}
        i == IF S = {} THEN Len(objects) + 1 ELSE Min(S)
        before == S # {} /\ objects[i].base <= o.base
        after == S # {} /\ objects[i].base > o.base /\ objects[i].base < End(o)
    IN  CASE o.base < StartPage \/ End(o) >= EndPage -> [ok |-> FALSE, list |-> objects]
          [] before /\ replace -> [ok |-> TRUE, list |-> space_replace_before(i, o)]
          [] (before /\ ~replace) \/ after -> [ok |-> FALSE, list |-> objects]
          [] OTHER -> [ok |-> TRUE, list |-> InsertAt(objects, i, o)]

\* The end of the range before position i.
PrevEnd(i) == IF i = 1 THEN StartPage ELSE End(objects[i - 1])

\* Mutant: the gap is measured from the start of the range before it.
FindFreeTight(len) ==
    LET fit == {i \in DOMAIN objects : PrevEnd(i) + len <= objects[i].base + 1}
    IN  IF fit = {} THEN Len(objects) + 1 ELSE Min(fit)

\* space_find_free_range: the first gap that is long enough, else behind the last.
FindFree(len) ==
    LET fit == {i \in DOMAIN objects : PrevEnd(i) + len <= objects[i].base}
    IN  IF fit = {} THEN Len(objects) + 1 ELSE Min(fit)
space_find_free_range(o) ==
    LET i == FindFree(o.len)
    IN  InsertAt(objects, i, [o EXCEPT !.base = PrevEnd(i)])

MayMap == Len(objects) < MaxRanges
\* Nobody comes between the two sections of vm_space_map in a space of one task.
Listed == IF Alone THEN "populate" ELSE "listed"

\* Mutant: the range is not counted.
RefForgotten(o) == refs
\* vfs_ref_file for a range of a file.
RefOnMap(o) == refs + (IF o.kind = "file" THEN 1 ELSE 0)

\* vm_space_map up to the point where the lock is dropped: the range is listed
\* at a place of its own ...
MapAnywhere(c, o) ==
    LET i == FindFree(o.len)
    IN  /\ Inside(c) /\ MayMap
        /\ PrevEnd(i) + o.len <= MaxPage
        /\ objects' = space_find_free_range(o)
        /\ Goto(c, Listed, [o EXCEPT !.base = PrevEnd(i)])
        /\ refs' = RefOnMap(o)
        /\ mutex_unlock(c)
        /\ UNCHANGED <<pte, tables, used, held, panic>>

\* ... or at a given one.  The file has been referenced by then, also when the
\* range is refused.
MapFixed(c, o, replace) ==
    LET s == space_check_range(o, replace)
    IN  /\ Inside(c) /\ MayMap
        /\ objects' = s.list
        /\ IF s.ok THEN Goto(c, Listed, o) ELSE Return(c)
        /\ refs' = RefOnMap(o)
        /\ mutex_unlock(c)
        /\ UNCHANGED <<pte, tables, used, held, panic>>

\* vm_space_map takes the lock again.
Relock(c) ==
    /\ ~panic /\ call[c].at = "listed"
    /\ Goto(c, "populate", call[c].o) /\ mutex_lock(c)
    /\ UNCHANGED <<objects, pte, tables, used, refs, held, panic>>

\* What vm_space_map enters for a page: a frame, the page of zeros read-only, a device.
Fresh(o, f) ==
    CASE o.kind = "alloc" -> Entry(o.r, f, o.w, TRUE)
      [] o.kind = "anon" -> Entry(o.r, ZeroCow, FALSE, FALSE)
      [] o.kind = "device" -> Entry(o.r, DevicePage, o.w, FALSE)

\* The rest of vm_space_map: pages of a file come with faults, a range that cannot
\* be read gets none, frames are taken one by one.
Populate(c) ==
    LET o == call[c].o
        frames == SetToSortSeq(Frames \ used, <)
        got(p) == frames[p - o.base + 1]
    IN  /\ Inside(c) /\ call[c].at = "populate"
        /\ IF o.kind = "alloc" /\ OutOfMemory(o.len) THEN Panic
           ELSE /\ Return(c)
                /\ held' = IF o.kind = "alloc" THEN held \cup {o.base} ELSE held
                /\ used' = IF o.kind = "alloc" THEN used \cup {got(p) : p \in Span(o)} ELSE used
                /\ IF o.kind = "file" \/ ~o.r
                   THEN UNCHANGED <<pte, tables>>
                   ELSE /\ pte' = [p \in Pages |->
                                     IF p \in Span(o) THEN Fresh(o, IF o.kind = "alloc" THEN got(p) ELSE 0) ELSE pte[p]]
                        /\ tables' = tables \cup {p \div TableSpan : p \in Span(o)}
                /\ mutex_unlock(c)
                /\ UNCHANGED <<objects, refs, panic>>
-----------------------------------------------------------------------------
(* Unmapping, faults and the end of the space.                             *)

\* Mutant: private copies of file pages are kept.
FreedAnonOnly(o) ==
    {pte[p].frame : p \in {q \in Span(o) : pte[q].owner /\ o.kind \in {"anon", "alloc"}}} \ {0}

\* The frames vm_free_range gives back.
Freed(o) ==
    {pte[p].frame : p \in {q \in Span(o) :
        pte[q].owner /\ (o.kind \in {"anon", "alloc"} \/ (o.kind = "file" /\ o.w))}} \ {0, ZeroCow}

\* Mutant: the entries of the range stay.
UnmapNothing(o) == pte
\* mmu_unmap of every page of a range.
Unmapped(o) == [p \in Pages |-> IF p \in Span(o) THEN NoPte ELSE pte[p]]

\* mmu_unmap follows the tables without looking whether they exist.
HasTables(o) == {p \div TableSpan : p \in Span(o)} \subseteq tables

\* vm_space_unmap: the whole range that starts at addr.
vm_space_unmap(c, addr) ==
    LET S == {i \in DOMAIN objects : objects[i].base = addr}
        o == objects[Min(S)]
    IN  /\ Inside(c) /\ S # {}
        /\ IF ~HasTables(o) THEN Panic
           ELSE /\ objects' = RemoveAt(objects, Min(S))
                /\ used' = used \ Freed(o)
                /\ pte' = Unmapped(o)
                /\ refs' = refs - (IF o.kind = "file" THEN 1 ELSE 0)
                /\ held' = held \ {addr}
                /\ Return(c) /\ mutex_unlock(c)
                /\ UNCHANGED <<tables, panic>>

\* Mutant: a page of the file is entered with the rights of the range.
FileEntryKeepingWrite(o, f) == Entry(TRUE, f, o.w, FALSE)
FileEntry(o, f) == Entry(TRUE, f, FALSE, FALSE)

\* The page of the file that ramfs_vm_fault walks to: behind the last one it is
\* at the head of the list, and further on it gives up.
Walked(o, p) == p - o.base
SourcePage(o, p) == IF Walked(o, p) < FilePages THEN FilePage ELSE WildPage

\* vm_page_fault after an access the page table does not allow; ramfs_vm_fault
\* when there is no entry yet.  A fault that changes nothing here is a signal.
CopyOnWrite(o, p, write) == pte[p].present /\ write /\ Cow(o)
FileFault(o, p) == ~pte[p].present /\ o.kind = "file" /\ Walked(o, p) <= FilePages
FileWrite(o, p, write) == FileFault(o, p) /\ write /\ o.w
FileRead(o, p, write) == FileFault(o, p) /\ ~(write /\ o.w) /\ o.r

\* A new frame behind p, which can be written if it can be read.
OwnFrame(o, p) ==
    /\ pte' = [pte EXCEPT ![p] = Entry(o.r, pmm_allocate, TRUE, TRUE)]
    /\ used' = used \cup {pmm_allocate}
    /\ tables' = tables \cup {p \div TableSpan}

\* ramfs_vm_fault copies the page through its new mapping: a copy from nowhere
\* may panic, and one to a page that cannot be read faults again.
FileCopy(c, o, p) ==
    \/ SourcePage(o, p) = WildPage /\ Panic
    \/ /\ OwnFrame(o, p)
       /\ IF o.r THEN UNCHANGED call ELSE Goto(c, "copy", [o EXCEPT !.base = p])
       /\ UNCHANGED <<objects, refs, lock, held, panic>>

vm_page_fault(c, p, write) ==
    LET S == {i \in DOMAIN objects : Covers(objects[i], p)}
        o == objects[Min(S)]
    IN  /\ Free(c) /\ S # {}
        /\ ~pte[p].present \/ (write /\ ~pte[p].w)
        /\ write => o.w
        /\ \/ /\ CopyOnWrite(o, p, write) \/ FileWrite(o, p, write)
              /\ IF OutOfMemory(1) THEN Panic
                 ELSE IF FileWrite(o, p, write) THEN FileCopy(c, o, p)
                 ELSE OwnFrame(o, p) /\ UNCHANGED <<objects, refs, call, lock, held, panic>>
           \/ /\ FileRead(o, p, write)
              /\ pte' = [pte EXCEPT ![p] = FileEntry(o, SourcePage(o, p))]
              /\ tables' = tables \cup {p \div TableSpan}
              /\ UNCHANGED <<objects, used, refs, call, lock, held, panic>>

\* The fault within the fault takes another frame for the same page, until there is
\* none or the kernel's stack ends.
FaultAgain(c) ==
    LET o == call[c].o
    IN  /\ ~panic /\ call[c].at = "copy"
        /\ \/ Panic
           \/ ~OutOfMemory(1) /\ OwnFrame(o, o.base) /\ UNCHANGED <<objects, refs, call, lock, held, panic>>

\* vm_space_destroy when the process ends, and vm_userspace_new for the next.
vm_space_destroy(c) ==
    /\ Free(c) /\ objects # <<>>
    /\ IF \E i \in DOMAIN objects : ~HasTables(objects[i]) THEN Panic
       ELSE /\ used' = used \ UNION {Freed(objects[i]) : i \in DOMAIN objects}
            /\ refs' = refs - Cardinality({i \in DOMAIN objects : objects[i].kind = "file"})
            /\ objects' = <<>> /\ pte' = [p \in Pages |-> NoPte] /\ tables' = {}
            /\ held' = {}
            /\ UNCHANGED <<call, lock, panic>>

-----------------------------------------------------------------------------
Lens == 1 .. MaxLen
Mapping(kind, base, len, r, w) == [kind |-> kind, base |-> base, len |-> len, r |-> r, w |-> w]

\* sys_mmap: anonymous memory or a file, anywhere or (MAP_FIXED) at an address.
sys_mmap(c, replace) ==
    \E len \in Lens, r \in Readable, w \in BOOLEAN, kind \in {"anon", "file"} :
        /\ Free(c) /\ (kind = "file" => refs < MaxRefs)
        /\ \/ MapAnywhere(c, Mapping(kind, 0, len, r, w))
           \/ \E base \in Pages : replace /\ MapFixed(c, Mapping(kind, base, len, r, w), TRUE)
\* elf_load: segments at the addresses the program wants; they can be read.
elf_load(c) ==
    \E len \in Lens, base \in Pages, w \in BOOLEAN, kind \in {"anon", "file"} :
        /\ Free(c) /\ (kind = "file" => refs < MaxRefs)
        /\ MapFixed(c, Mapping(kind, base, len, TRUE, w), FALSE)
\* user_stack_init: the stack, with its frames.
user_stack_init(c) ==
    Free(c) /\ objects = <<>> /\ MapFixed(c, Mapping("alloc", EndPage - 2, 1, TRUE, TRUE), FALSE)
sys_munmap(c) == Free(c) /\ \E addr \in Pages : vm_space_unmap(c, addr)

UserNext(replace) ==
    \E c \in Cpus :
        \/ sys_mmap(c, replace) \/ elf_load(c) \/ user_stack_init(c) \/ sys_munmap(c)
        \/ Populate(c) \/ vm_space_destroy(c) \/ FaultAgain(c)
        \/ \E p \in Pages, write \in BOOLEAN : vm_page_fault(c, p, write)

\* The kernel's own space: vmalloc, vfree by whoever got the address, device memory.
Call(c, at, o) ==
    /\ Free(c) /\ Goto(c, at, o) /\ mutex_lock(c)
    /\ UNCHANGED <<objects, pte, tables, used, refs, panic>>
KernelNext ==
    /\ ~Overlap
    /\ \E c \in Cpus :
          \/ \E len \in Lens, kind \in {"alloc", "device"} :
                MayMap /\ Call(c, "map", Mapping(kind, 0, len, TRUE, TRUE)) /\ UNCHANGED held
          \/ \E addr \in held : Call(c, "unmap", [NoRange EXCEPT !.base = addr]) /\ held' = held \ {addr}
          \/ call[c].at = "map" /\ MapAnywhere(c, call[c].o)
          \/ Relock(c) \/ Populate(c)
          \/ call[c].at = "unmap" /\ vm_space_unmap(c, call[c].o.base)

UserSpec == Init /\ [][UserNext(FALSE)]_vars
ReplaceSpec == Init /\ [][UserNext(TRUE)]_vars
KernelSpec == Init /\ [][KernelNext]_vars
-----------------------------------------------------------------------------
\* Type invariant.
TypeOK ==
    /\ \A i \in DOMAIN objects :
          objects[i].base \in Pages /\ objects[i].len > 0 /\ End(objects[i]) <= MaxPage + 1
    /\ \A p \in Pages : pte[p].frame \in Frames \cup {0, ZeroCow, FilePage, DevicePage, WildPage}
    /\ used \subseteq Frames /\ refs \in Nat /\ panic \in BOOLEAN

\* The list of ranges stays sorted and free of overlaps, whatever is mapped at an
\* address, mapped anywhere and unmapped in between (MAP_FIXED apart).
RangesDisjoint ==
    \A i, j \in DOMAIN objects : i < j => End(objects[i]) <= objects[j].base

\* A frame is behind one page at most, and is allocated as long as it is: no fault,
\* replacement or unmapping gives one frame to two pages or frees it under one.
FrameOwnedOnce ==
    \A p, q \in Pages :
        pte[p].owner /\ pte[p].frame # 0
            => pte[p].frame \in used /\ (pte[q].frame = pte[p].frame => p = q)

\* Unmapping and the end of the process give back every frame that mapping and
\* faults took, private copies of file pages included.  Frames are lost only by a
\* copy into a page of a file that cannot be read, which faults over and over.
NoFrameLeak ==
    (\A c \in Cpus : call[c].at # "copy") =>
        \A f \in used : \E p \in Pages : pte[p].owner /\ pte[p].frame = f

\* The page of zeros and the file's own pages are shared by all mappings and are
\* never writable through any of them.
SharedReadOnly ==
    \A p \in Pages : pte[p].frame \in {ZeroCow, FilePage} => ~pte[p].w

\* A page that can be accessed lies in a range, and is writable only if the range is.
AccessWithinRanges ==
    \A p \in Pages :
        pte[p].present =>
            \E i \in DOMAIN objects : Covers(objects[i], p) /\ (pte[p].w => objects[i].w)

\* The file has a reference for each range that shows it.
FileStaysOpen ==
    refs >= Cardinality({i \in DOMAIN objects : objects[i].kind = "file"})

\* Memory that vmalloc has returned is mapped and writable until it is freed,
\* whatever another CPU maps and unmaps.
AllocationBacked ==
    \A i \in DOMAIN objects :
        objects[i].base \in held => \A p \in Span(objects[i]) : pte[p].present /\ pte[p].w
=============================================================================
