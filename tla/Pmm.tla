-------------------------------- MODULE Pmm --------------------------------
(***************************************************************************)
(* The physical page allocator: mm/pmm.c, with the memory map it is built  *)
(* from (arch/x86_64/memmap.c, mm/memory_map.c).                           *)
(*                                                                         *)
(* Addresses are counted in pages.  The boot protocol aligns usable        *)
(* entries to pages; sizes of other entries are rounded down, which is     *)
(* what the code's divisions by the page size do.  A bitmap word is the    *)
(* set of the bits that are 1: bit b of word w is 1 when page              *)
(* w * WordBits + b is free.                                               *)
(*                                                                         *)
(* Booting is sequential and is modelled one loop iteration at a time.     *)
(* pmm_allocate and pmm_free hold the lock for their whole body (see       *)
(* Spinlock.tla), so each is one step.                                     *)
(***************************************************************************)
EXTENDS Integers, Sequences, FiniteSets

CONSTANTS MemoryMaps,     \* the memory maps the boot loader may pass
          WordBits,       \* bits in a bitmap word (64 in the code)
          WordsPerPage,   \* bitmap words that fit a page (512 in the code)
          MaxRegions      \* max_memmap_regions (64 in the code)

EntryTypes == {"USABLE", "ACPI_RECLAIMABLE", "ACPI_NVS", "BOOTLOADER_RECLAIMABLE",
               "FRAMEBUFFER", "BAD_MEMORY", "RESERVED"}

Entries == [base : Nat, end : Nat, type : EntryTypes]

\* What the boot protocol promises of a memory map: entries are not empty, a usable
\* entry overlaps no other entry.  An entry at address 0 must reach past the
\* two pages that parse_memory_map skips.
ASSUME PmmAssumption ==
    /\ WordBits \in Nat \ {0}
    /\ WordsPerPage \in Nat \ {0}
    /\ MaxRegions \in Nat
    /\ MemoryMaps \subseteq Seq(Entries)
    /\ \A m \in MemoryMaps : \A i \in DOMAIN m :
          /\ m[i].base < m[i].end
          /\ m[i].base = 0 => m[i].end >= 2
          /\ \A j \in DOMAIN m :
                m[i].type = "USABLE" /\ i # j =>
                    m[i].end <= m[j].base \/ m[j].end <= m[i].base

\* mem_region_t.
Regions == [begin : Nat, end : Nat,
            type : {"USABLE", "ACPI_TABLES", "ACPI_NVS", "RESERVED", "ALLOCATED"}]

VARIABLES entries,      \* the boot loader's memory map
          regions,      \* memory_map_t.regions
          phase,        \* where the kernel is in pmm_init, or "run" after it
          region,       \* the loop index of pmm_init
          rbegin,       \* the locals of pmm_mark_range_free
          rlen,
          pmm_bitmap,   \* word index -> set of the bits that are 1
          available,    \* physmem_available
          used,         \* physmem_used
          owned         \* pages returned by pmm_allocate and not freed

vars == <<entries, regions, phase, region, rbegin, rlen, pmm_bitmap,
          available, used, owned>>

locals == <<region, rbegin, rlen>>
-----------------------------------------------------------------------------
RegionType(type) ==
    CASE type = "USABLE" -> "USABLE"
      [] type = "ACPI_RECLAIMABLE" -> "ACPI_TABLES"
      [] type = "ACPI_NVS" -> "ACPI_NVS"
      [] type \in {"BOOTLOADER_RECLAIMABLE", "FRAMEBUFFER"} -> "ALLOCATED"
      [] OTHER -> "RESERVED"

\* parse_memory_map: at most MaxRegions entries; the first two pages are skipped.
ParseMemoryMap(m) ==
    [i \in 1 .. (IF Len(m) < MaxRegions THEN Len(m) ELSE MaxRegions) |->
        [begin |-> IF m[i].base = 0 THEN 2 ELSE m[i].base,
         end |-> m[i].end,
         type |-> RegionType(m[i].type)]]

UsableIndices(r) == {i \in DOMAIN r : r[i].type = "USABLE"}

\* memory_map_t.memory_top is the largest end of a usable region.
IsMemoryTop(top, r) ==
    \/ UsableIndices(r) = {} /\ top = 0
    \/ /\ \E i \in UsableIndices(r) : r[i].end = top
       /\ \A i \in UsableIndices(r) : r[i].end <= top

\* pmm_bitmap_length for a given memory_top.
RequiredWords(top) == (top + WordBits - 1) \div WordBits

\* The pages align_up(begin + size, CONFIG_PAGE_SIZE) sets aside for n words.
RequiredPages(n) == (n + WordsPerPage - 1) \div WordsPerPage

\* The loop of memmap_reserve stops at the first usable region that is large enough.
ReserveIn(r, n, i) ==
    /\ i \in UsableIndices(r)
    /\ r[i].begin < r[i].end
    /\ r[i].end - r[i].begin >= n
    /\ \A j \in UsableIndices(r) :
          j < i => ~(r[j].begin < r[j].end /\ r[j].end - r[j].begin >= n)

\* Mutant: the region is not shortened by what was reserved.
SplitWithoutShrink(r, n, i) ==
    Append(r, [begin |-> r[i].begin, end |-> r[i].begin + n, type |-> "ALLOCATED"])

\* memmap_reserve: cut n pages off the front of region i.
Split(r, n, i) ==
    Append([r EXCEPT ![i].begin = @ + n],
           [begin |-> r[i].begin, end |-> r[i].begin + n, type |-> "ALLOCATED"])

Init ==
    /\ entries \in MemoryMaps
    /\ regions = ParseMemoryMap(entries)
    /\ phase = "reserve"
    /\ region = 1 /\ rbegin = 0 /\ rlen = 0
    /\ pmm_bitmap = <<>>
    /\ available = 0 /\ used = 0
    /\ owned = {}

\* pmm_init up to the memset of the bitmap.
Reserve ==
    /\ phase = "reserve"
    /\ \E top \in {0} \cup {regions[i].end : i \in DOMAIN regions} :
          /\ IsMemoryTop(top, regions)
          /\ \E i \in DOMAIN regions :
                /\ ReserveIn(regions, RequiredPages(RequiredWords(top)), i)
                /\ Len(regions) # MaxRegions
                /\ regions' = Split(regions, RequiredPages(RequiredWords(top)), i)
          /\ pmm_bitmap' = [w \in 0 .. (RequiredWords(top) - 1) |-> {}]
    /\ phase' = "scan"
    /\ UNCHANGED <<entries, locals, available, used, owned>>

\* pmm_init: memmap_reserve returned nullptr.
ReservePanic ==
    /\ phase = "reserve"
    /\ \E top \in {0} \cup {regions[i].end : i \in DOMAIN regions} :
          /\ IsMemoryTop(top, regions)
          /\ \A i \in DOMAIN regions :
                ReserveIn(regions, RequiredPages(RequiredWords(top)), i)
                    => Len(regions) = MaxRegions
    /\ phase' = "panic"
    /\ UNCHANGED <<entries, regions, locals, pmm_bitmap, available, used, owned>>

\* pmm_init: one iteration of the loop over the regions that is not usable
\* memory.
ScanOther ==
    /\ phase = "scan"
    /\ region <= Len(regions)
    /\ regions[region].type # "USABLE"
    /\ used' = IF regions[region].type = "ALLOCATED"
               THEN used + (regions[region].end - regions[region].begin)
               ELSE used
    /\ region' = region + 1
    /\ UNCHANGED <<entries, regions, phase, rbegin, rlen, pmm_bitmap, available, owned>>

\* pmm_init calls pmm_mark_range_free for a usable region.
ScanUsable ==
    /\ phase = "scan"
    /\ region <= Len(regions)
    /\ regions[region].type = "USABLE"
    /\ rbegin' = regions[region].begin
    /\ rlen' = regions[region].end - regions[region].begin
    /\ available' = available + rlen'
    /\ phase' = "mark"
    /\ UNCHANGED <<entries, regions, region, pmm_bitmap, used, owned>>

\* Mutant: the whole word is set without asking whether the range starts on a word.
MarkWordUnaligned ==
    /\ phase = "mark"
    /\ rlen >= WordBits
    /\ pmm_bitmap' = [pmm_bitmap EXCEPT ![rbegin \div WordBits] = 0 .. (WordBits - 1)]
    /\ rlen' = rlen - WordBits
    /\ rbegin' = rbegin + WordBits
    /\ UNCHANGED <<entries, regions, phase, region, available, used, owned>>

\* Mutant: the length is not reduced for a whole word.
MarkWordForever ==
    /\ phase = "mark"
    /\ rlen >= WordBits
    /\ rbegin % WordBits = 0
    /\ pmm_bitmap' = [pmm_bitmap EXCEPT ![rbegin \div WordBits] = 0 .. (WordBits - 1)]
    /\ UNCHANGED <<entries, regions, phase, locals, available, used, owned>>

\* pmm_mark_range_free: an iteration that sets a whole word.
MarkWord ==
    /\ phase = "mark"
    /\ rlen >= WordBits
    /\ rbegin % WordBits = 0
    /\ pmm_bitmap' = [pmm_bitmap EXCEPT ![rbegin \div WordBits] = 0 .. (WordBits - 1)]
    /\ rlen' = rlen - WordBits
    /\ rbegin' = rbegin + WordBits
    /\ UNCHANGED <<entries, regions, phase, region, available, used, owned>>

\* Mutant: bits are counted from one.
MarkBitFromOne ==
    /\ phase = "mark"
    /\ rlen >= 1
    /\ ~(rlen >= WordBits /\ rbegin % WordBits = 0)
    /\ pmm_bitmap' = [pmm_bitmap EXCEPT ![rbegin \div WordBits] = @ \cup {(rbegin % WordBits) + 1}]
    /\ rlen' = rlen - 1
    /\ rbegin' = rbegin + 1
    /\ UNCHANGED <<entries, regions, phase, region, available, used, owned>>

\* pmm_mark_range_free: an iteration that sets one bit.
MarkBit ==
    /\ phase = "mark"
    /\ rlen >= 1
    /\ ~(rlen >= WordBits /\ rbegin % WordBits = 0)
    /\ pmm_bitmap' = [pmm_bitmap EXCEPT ![rbegin \div WordBits] = @ \cup {rbegin % WordBits}]
    /\ rlen' = rlen - 1
    /\ rbegin' = rbegin + 1
    /\ UNCHANGED <<entries, regions, phase, region, available, used, owned>>

\* pmm_mark_range_free returns to the loop of pmm_init.
MarkReturn ==
    /\ phase = "mark"
    /\ rlen < 1
    /\ phase' = "scan"
    /\ region' = region + 1
    /\ UNCHANGED <<entries, regions, rbegin, rlen, pmm_bitmap, available, used, owned>>

\* pmm_init returns.
InitDone ==
    /\ phase = "scan"
    /\ region > Len(regions)
    /\ phase' = "run"
    /\ UNCHANGED <<entries, regions, locals, pmm_bitmap, available, used, owned>>
-----------------------------------------------------------------------------
\* The bit that pmm_allocate takes: the lowest bit of the first word that has one.
FirstBit(w, b) ==
    /\ w \in DOMAIN pmm_bitmap
    /\ b \in pmm_bitmap[w]
    /\ \A v \in DOMAIN pmm_bitmap : v < w => pmm_bitmap[v] = {}
    /\ \A c \in pmm_bitmap[w] : b <= c

\* Mutant: the bit of the page that is returned is left set.
pmm_allocate_keeping_bit ==
    /\ phase = "run"
    /\ \E w \in DOMAIN pmm_bitmap : \E b \in pmm_bitmap[w] :
          /\ FirstBit(w, b)
          /\ pmm_bitmap' = pmm_bitmap
          /\ owned' = owned \cup {w * WordBits + b}
    /\ available' = available - 1
    /\ used' = used + 1
    /\ UNCHANGED <<entries, regions, phase, locals>>

\* pmm_allocate when a page is free.
pmm_allocate ==
    /\ phase = "run"
    /\ \E w \in DOMAIN pmm_bitmap : \E b \in pmm_bitmap[w] :
          /\ FirstBit(w, b)
          /\ pmm_bitmap' = [pmm_bitmap EXCEPT ![w] = @ \ {b}]
          /\ owned' = owned \cup {w * WordBits + b}
    /\ available' = available - 1
    /\ used' = used + 1
    /\ UNCHANGED <<entries, regions, phase, locals>>

\* Mutant: the search gives up when the first word is used up.
OutOfMemoryEarly ==
    /\ phase = "run"
    /\ pmm_bitmap[0] = {}
    /\ phase' = "panic"
    /\ UNCHANGED <<entries, regions, locals, pmm_bitmap, available, used, owned>>

\* pmm_allocate finds no word with a bit set.
OutOfMemory ==
    /\ phase = "run"
    /\ \A w \in DOMAIN pmm_bitmap : pmm_bitmap[w] = {}
    /\ phase' = "panic"
    /\ UNCHANGED <<entries, regions, locals, pmm_bitmap, available, used, owned>>

\* Mutant: the counters are not updated.
pmm_free_uncounted(p) ==
    /\ phase = "run"
    /\ p \in owned
    /\ pmm_bitmap' = [pmm_bitmap EXCEPT ![p \div WordBits] = @ \cup {p % WordBits}]
    /\ owned' = owned \ {p}
    /\ UNCHANGED <<entries, regions, phase, locals, used, available>>

\* pmm_free, called by the owner of the page.
pmm_free(p) ==
    /\ phase = "run"
    /\ p \in owned
    /\ pmm_bitmap' = [pmm_bitmap EXCEPT ![p \div WordBits] = @ \cup {p % WordBits}]
    /\ owned' = owned \ {p}
    /\ used' = used - 1
    /\ available' = available + 1
    /\ UNCHANGED <<entries, regions, phase, locals>>

Boot ==
    \/ Reserve \/ ReservePanic
    \/ ScanOther \/ ScanUsable
    \/ MarkWord \/ MarkBit \/ MarkReturn
    \/ InitDone

Next ==
    \/ Boot
    \/ pmm_allocate
    \/ OutOfMemory
    \/ \E p \in owned : pmm_free(p)

Spec == Init /\ [][Next]_vars

FairSpec == Spec /\ WF_vars(Boot)
-----------------------------------------------------------------------------
\* The pages whose bit is set in a bitmap.
PagesIn(bitmap) == UNION {{w * WordBits + b : b \in bitmap[w]} : w \in DOMAIN bitmap}

FreePages == PagesIn(pmm_bitmap)

PagesOf(r, i) == r[i].begin .. (r[i].end - 1)

\* The pages of all usable regions.
Managed == UNION {PagesOf(regions, i) : i \in UsableIndices(regions)}

\* The pages of the regions that were allocated before the allocator started.
BootAllocated == UNION {PagesOf(regions, i) :
                    i \in {j \in DOMAIN regions : regions[j].type = "ALLOCATED"}}

\* What the regions below index n that are allocated at boot count for, each with
\* the index of its region: entries that are not usable may overlap each other.
BootCounted(n) == UNION {{i} \X PagesOf(regions, i) :
                    i \in {j \in DOMAIN regions : j < n /\ regions[j].type = "ALLOCATED"}}

\* The memory that is not the allocator's to give: whatever an entry of the
\* boot loader's map does not call usable, page 0, and the bitmap.
OffLimits ==
    {0} \cup BootAllocated \cup
    (UNION {entries[i].base .. (entries[i].end - 1) :
              i \in {j \in DOMAIN entries : entries[j].type # "USABLE"}})

Started == phase = "run" \/ (phase = "panic" /\ region > 1)

\* Type invariant.
TypeOK ==
    /\ entries \in MemoryMaps
    /\ regions \in Seq(Regions)
    /\ phase \in {"reserve", "scan", "mark", "run", "panic"}
    /\ region \in Nat /\ rbegin \in Nat /\ rlen \in Nat
    /\ pmm_bitmap \in [DOMAIN pmm_bitmap -> SUBSET (0 .. (WordBits - 1))]
    /\ available \in Nat /\ used \in Nat

\* pmm_allocate never hands out page 0, a page of reserved memory or a page of
\* the bitmap itself, whatever map pmm_init was given.
OnlyUsableMemory == (FreePages \cup owned) \cap OffLimits = {}

\* No page is handed out while somebody owns it, and no page is lost: after
\* pmm_init, every page of usable memory is either free or owned.
NoPageLostOrShared ==
    /\ FreePages \cap owned = {}
    /\ Started => FreePages \cup owned = Managed

\* Both: what the allocator hands out is usable memory, and to one owner.
PagesSafe == OnlyUsableMemory /\ NoPageLostOrShared

\* physmem_available, which the kernel reports as free_pages, is the number of
\* bits that are set: the counter is adjusted by a region's length before its
\* bits are set, and by one for each page taken or given back.
FreeCountExact == Started => available = Cardinality(FreePages)

\* physmem_used, reported as used_pages, is the number of pages that are owned
\* plus those of every region that was allocated at boot, the bitmap's included.
UsedCountExact ==
    Started => used = Cardinality(owned) + Cardinality(BootCounted(Len(regions) + 1))

\* The kernel only panics with "out of physical memory" when every page of
\* usable memory has been handed out.
PanicOnlyWhenExhausted ==
    phase = "panic" /\ Started => owned = Managed

\* The counters are exact and do not wrap below zero, to the panic at the end.
CountersExact == TypeOK /\ FreeCountExact /\ UsedCountExact /\ PanicOnlyWhenExhausted

\* pmm_init and the loop of pmm_mark_range_free terminate.
BootCompletes == <>(phase \in {"run", "panic"})

Pages == INSTANCE PageAllocator WITH
            Page <- Nat,
            ready <- Started,
            free <- IF Started THEN FreePages ELSE {},
            owned <- owned

\* The bitmap allocator implements the abstract page allocator.
ImplementsPageAllocator == Pages!Spec
-----------------------------------------------------------------------------
(* Memory maps for TLC, with words of 4 bits and 2 words per page.         *)

UsableEntry(b, e) == [base |-> b, end |-> e, type |-> "USABLE"]
OtherEntry(b, e, t) == [base |-> b, end |-> e, type |-> t]

SampleMaps == {
    \* The bitmap goes to the first region; the second one starts inside a word,
    \* covers a whole word and ends inside a word.
    <<UsableEntry(0, 6), OtherEntry(6, 7, "RESERVED"), UsableEntry(7, 14)>>,
    \* The first usable region is too small for the bitmap.
    <<OtherEntry(0, 2, "BAD_MEMORY"), UsableEntry(2, 3), OtherEntry(3, 4, "BOOTLOADER_RECLAIMABLE"), UsableEntry(4, 13)>>,
    \* The reservation takes a whole region; reserved memory lies above the top.
    <<UsableEntry(3, 5), OtherEntry(5, 7, "ACPI_NVS"), UsableEntry(8, 16), OtherEntry(20, 30, "FRAMEBUFFER")>>,
    \* Too many entries to split one.
    <<UsableEntry(2, 8), OtherEntry(8, 9, "ACPI_RECLAIMABLE"), UsableEntry(9, 10), OtherEntry(11, 12, "RESERVED"), OtherEntry(12, 13, "RESERVED")>>,
    \* Too many entries: the last usable one is dropped, none can be split.
    <<OtherEntry(2, 3, "RESERVED"), UsableEntry(3, 9), OtherEntry(9, 10, "RESERVED"), OtherEntry(10, 11, "RESERVED"),
      OtherEntry(11, 12, "RESERVED"), UsableEntry(12, 20)>>,
    \* Two entries that are not usable overlap.
    <<UsableEntry(2, 8), OtherEntry(9, 12, "FRAMEBUFFER"), OtherEntry(11, 13, "FRAMEBUFFER")>>,
    \* No usable memory.
    <<OtherEntry(0, 9, "RESERVED")>> }
=============================================================================
