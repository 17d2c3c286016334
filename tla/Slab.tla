-------------------------------- MODULE Slab --------------------------------
(***************************************************************************)
(* The kernel heap: kmalloc and kfree over the slab caches of mm/slab.c,   *)
(* called by several CPUs.                                                 *)
(*                                                                         *)
(* Memory is the first word of every block, because that word holds the    *)
(* free-list link while the block is free and the owner's data while it is *)
(* not.  slab_alloc holds the cache's lock for its whole body and is one   *)
(* step.  slab_free checks the slab and fills the block before it takes    *)
(* the lock, so other CPUs run between its steps.                          *)
(***************************************************************************)
EXTENDS Integers, Sequences, FiniteSets, SequencesExt

CONSTANTS CPUs,
          PageSize,    \* 4096 in the code
          HeaderSize,  \* sizeof(struct slab), 32 in the code
          BlockSizes,  \* block_size of the entries of km_caches, in order
          Requests,    \* the sizes kmalloc is called with
          MaxPages     \* pages the page allocator has

Caches == DOMAIN BlockSizes

\* align_up, for alignments that need not be powers of two.
AlignUp(value, alignment) == ((value + alignment - 1) \div alignment) * alignment

\* slab_init: objects that fit behind the header of a slab.
ObjPerSlab(i) == (PageSize - AlignUp(HeaderSize, BlockSizes[i])) \div BlockSizes[i]

VARIABLES slabs,   \* slab_cache.slabs: the pages of each cache in list order
          slab,    \* struct slab at the start of each page: cache, in_use, free
          mem,     \* first word of each block
          held,    \* blocks returned by kmalloc to a CPU and not given to kfree
          freeing, \* the block a CPU is inside slab_free with, 0 if none
          pc,      \* the step of slab_free a CPU is at
          panic    \* the message the kernel stopped with

vars == <<slabs, slab, mem, held, freeing, pc, panic>>

Pages == DOMAIN slab
UserData == 0      \* what an owner writes: looks like a link to block 0
Poison == PageSize \* the fill pattern of slab_free: no block index

Memory(p) == p * PageSize + AlignUp(HeaderSize, BlockSizes[slab[p].cache])
Block(p, j) == Memory(p) + j * BlockSizes[slab[p].cache]

Init ==
    /\ slabs = [i \in Caches |-> <<>>]
    /\ slab = <<>>
    /\ mem = <<>>
    /\ held = [c \in CPUs |-> {}]
    /\ freeing = [c \in CPUs |-> 0]
    /\ pc = [c \in CPUs |-> "out"]
    /\ panic = "none"

Panic(message) ==
    /\ panic' = message
    /\ UNCHANGED <<slabs, slab, mem, held, freeing, pc>>

\* The first slab of the list that has a block to give.
IsTarget(i, p) ==
    \E k \in DOMAIN slabs[i] :
        /\ slabs[i][k] = p
        /\ slab[p].in_use < ObjPerSlab(i)
        /\ \A m \in 1 .. (k - 1) : slab[slabs[i][m]].in_use >= ObjPerSlab(i)

\* Mutant: the list head is not advanced.
TakeBlockKeepingHead(c, p) ==
    LET a == Block(p, slab[p].free) IN
    /\ slab[p].free < ObjPerSlab(slab[p].cache)
    /\ slab' = [slab EXCEPT ![p].in_use = @ + 1]
    /\ held' = [held EXCEPT ![c] = @ \cup {a}]
    /\ UNCHANGED <<slabs, mem, freeing, pc, panic>>

\* slab_alloc takes the head of a slab's free list.
TakeBlock(c, p) ==
    LET a == Block(p, slab[p].free) IN
    /\ slab[p].free < ObjPerSlab(slab[p].cache)
    /\ slab' = [slab EXCEPT ![p].free = mem[a], ![p].in_use = @ + 1]
    /\ held' = [held EXCEPT ![c] = @ \cup {a}]
    /\ UNCHANGED <<slabs, mem, freeing, pc, panic>>

\* slab_alloc appends a new slab on page p, returns its block 0 and links the others.
NewSlab(c, i, p) ==
    LET base == p * PageSize + AlignUp(HeaderSize, BlockSizes[i])
        blocks == {base + j * BlockSizes[i] : j \in 0 .. (ObjPerSlab(i) - 1)}
    IN  /\ slabs' = [slabs EXCEPT ![i] = Append(@, p)]
        /\ slab' = [q \in Pages \cup {p} |->
                       IF q = p THEN [cache |-> i, in_use |-> 1, free |-> 1] ELSE slab[q]]
        /\ mem' = [a \in DOMAIN mem \cup blocks |->
                       IF a = base THEN UserData
                       ELSE IF a \in blocks THEN (a - base) \div BlockSizes[i] + 1
                       ELSE mem[a]]
        /\ held' = [held EXCEPT ![c] = @ \cup {base}]
        /\ UNCHANGED <<freeing, pc, panic>>

\* pmm_allocate returns the lowest free page, or panics.
slab_alloc(c, i) ==
    \/ \E p \in Pages :
          /\ IsTarget(i, p)
          /\ \/ TakeBlock(c, p)
             \/ slab[p].free >= ObjPerSlab(i) /\ Panic("slab: freelist corruption")
    \/ /\ ~\E p \in Pages : IsTarget(i, p)
       /\ \/ \E p \in (1 .. MaxPages) \ Pages :
                 (\A q \in (1 .. MaxPages) \ Pages : p <= q) /\ NewSlab(c, i, p)
          \/ 1 .. MaxPages \subseteq Pages /\ Panic("out of physical memory")

kmalloc(c, size) ==
    /\ panic = "none" /\ pc[c] = "out"
    /\ \/ \E i \in Caches :
             /\ BlockSizes[i] >= size
             /\ \A j \in 1 .. (i - 1) : BlockSizes[j] < size
             /\ slab_alloc(c, i)
       \/ (\A i \in Caches : BlockSizes[i] < size) /\ Panic("kmalloc: allocation too big")

\* slab_free up to the checks: no lock is held.
FreeCheck(c, a) ==
    LET p == a \div PageSize IN
    /\ panic = "none" /\ pc[c] = "out"
    /\ a \in held[c]
    /\ \/ slab[p].in_use = 0 /\ Panic("slab: attempted free on empty slab")
       \/ slab[p].in_use # 0 /\ a < p * PageSize + HeaderSize
             /\ Panic("slab: free on metadata pointer")
       \/ /\ slab[p].in_use # 0 /\ a >= p * PageSize + HeaderSize
          /\ held' = [held EXCEPT ![c] = @ \ {a}]
          /\ freeing' = [freeing EXCEPT ![c] = a]
          /\ pc' = [pc EXCEPT ![c] = "checked"]
          /\ UNCHANGED <<slabs, slab, mem, panic>>

\* slab_free: the memset, still without the lock.
FreeFill(c) ==
    /\ panic = "none" /\ pc[c] = "checked"
    /\ mem' = [mem EXCEPT ![freeing[c]] = Poison]
    /\ pc' = [pc EXCEPT ![c] = "filled"]
    /\ UNCHANGED <<slabs, slab, held, freeing, panic>>

\* Mutant: the link is stored before the fill pattern.
FreeLinkThenFill(c) ==
    LET a == freeing[c]
        p == a \div PageSize
    IN  /\ panic = "none" /\ pc[c] = "filled"
        /\ slab' = [slab EXCEPT ![p].in_use = @ - 1,
                                ![p].free = (a - Memory(p)) \div BlockSizes[slab[p].cache]]
        /\ freeing' = [freeing EXCEPT ![c] = 0]
        /\ pc' = [pc EXCEPT ![c] = "out"]
        /\ UNCHANGED <<slabs, mem, held, panic>>

\* Mutant: in_use is not reduced.
FreeLinkUncounted(c) ==
    LET a == freeing[c]
        p == a \div PageSize
    IN  /\ panic = "none" /\ pc[c] = "filled"
        /\ mem' = [mem EXCEPT ![a] = slab[p].free]
        /\ slab' = [slab EXCEPT ![p].free = (a - Memory(p)) \div BlockSizes[slab[p].cache]]
        /\ freeing' = [freeing EXCEPT ![c] = 0]
        /\ pc' = [pc EXCEPT ![c] = "out"]
        /\ UNCHANGED <<slabs, held, panic>>

\* Mutant: the list head is set to an address, not an index.
FreeLinkAddress(c) ==
    LET a == freeing[c]
        p == a \div PageSize
    IN  /\ panic = "none" /\ pc[c] = "filled"
        /\ mem' = [mem EXCEPT ![a] = slab[p].free]
        /\ slab' = [slab EXCEPT ![p].in_use = @ - 1, ![p].free = a]
        /\ freeing' = [freeing EXCEPT ![c] = 0]
        /\ pc' = [pc EXCEPT ![c] = "out"]
        /\ UNCHANGED <<slabs, held, panic>>

\* slab_free: link the block, under the lock.
FreeLink(c) ==
    LET a == freeing[c]
        p == a \div PageSize
    IN  /\ panic = "none" /\ pc[c] = "filled"
        /\ mem' = [mem EXCEPT ![a] = slab[p].free]
        /\ slab' = [slab EXCEPT ![p].in_use = @ - 1,
                                ![p].free = (a - Memory(p)) \div BlockSizes[slab[p].cache]]
        /\ freeing' = [freeing EXCEPT ![c] = 0]
        /\ pc' = [pc EXCEPT ![c] = "out"]
        /\ UNCHANGED <<slabs, held, panic>>

\* The owner of a block writes to it.
UserWrite(c, a) ==
    /\ panic = "none"
    /\ a \in held[c]
    /\ mem' = [mem EXCEPT ![a] = UserData]
    /\ UNCHANGED <<slabs, slab, held, freeing, pc, panic>>

Next ==
    \E c \in CPUs :
        \/ \E size \in Requests : kmalloc(c, size)
        \/ \E a \in held[c] : FreeCheck(c, a) \/ UserWrite(c, a)
        \/ FreeFill(c)
        \/ FreeLink(c)

Spec == Init /\ [][Next]_vars
-----------------------------------------------------------------------------
\* Type invariant.
TypeOK ==
    /\ slabs \in [Caches -> Seq(Pages)]
    /\ \A p \in Pages : slab[p] \in [cache : Caches, in_use : 0 .. PageSize, free : 0 .. PageSize]
    /\ \A a \in DOMAIN mem : mem[a] \in 0 .. PageSize
    /\ held \in [CPUs -> SUBSET DOMAIN mem]
    /\ freeing \in [CPUs -> DOMAIN mem \cup {0}]
    /\ pc \in [CPUs -> {"out", "checked", "filled"}]

\* The blocks of page p that an owner or slab_free still holds.
InUse(p) == {a \in UNION {held[c] : c \in CPUs} \cup ({freeing[c] : c \in CPUs} \ {0}) :
                a \div PageSize = p}

\* The first n + 1 block indices met when the free list of page p is followed.
Walk(p, n) ==
    LET walk[k \in 0 .. n] ==
            IF k = 0 THEN slab[p].free
            ELSE IF walk[k - 1] < ObjPerSlab(slab[p].cache) THEN mem[Block(p, walk[k - 1])]
            ELSE walk[k - 1]
    IN  walk

\* The free list of a slab runs through exactly the blocks that nobody holds,
\* each once, and then ends: neither an owner's data nor the fill pattern is
\* ever followed as a link, although slab_free writes to blocks without the lock.
FreeListIntact ==
    \A p \in Pages :
        LET n == ObjPerSlab(slab[p].cache)
            k == n - slab[p].in_use
            walk == Walk(p, n)
        IN  /\ k >= 0
            /\ walk[k] = n
            /\ \A i \in 0 .. (k - 1) : walk[i] < n /\ Block(p, walk[i]) \notin InUse(p)
            /\ Cardinality({walk[i] : i \in 0 .. (k - 1)}) = k

\* in_use counts the blocks that are held: no block is leaked or counted twice.
InUseExact == \A p \in Pages : slab[p].in_use = Cardinality(InUse(p))

\* Whatever sizes the callers ask for, the blocks they own overlap neither each
\* other nor a slab header, and stay inside their page.
BlocksDisjoint ==
    \A c, d \in CPUs : \A a \in held[c], b \in held[d] :
        LET p == a \div PageSize
            size == BlockSizes[slab[p].cache]
        IN  /\ a >= p * PageSize + HeaderSize
            /\ a + size <= (p + 1) * PageSize
            /\ <<c, a>> # <<d, b>> => b < a \/ b >= a + size

\* With callers that free what they own, once, the consistency panics of
\* slab_alloc and slab_free are unreachable.
NoConsistencyPanic ==
    panic \in {"none", "out of physical memory", "kmalloc: allocation too big"}
=============================================================================
