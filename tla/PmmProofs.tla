----------------------------- MODULE PmmProofs -----------------------------
(***************************************************************************)
(* Proofs about the physical page allocator, for every memory map that     *)
(* keeps the boot protocol's promises and every word and page size.        *)
(*                                                                         *)
(* The inductive invariant says what each iteration of pmm_init's loops    *)
(* has done so far: FreePages is exactly the union of the regions already  *)
(* visited and the part of the current one that is marked, and             *)
(* physmem_available is ahead of it by the rlen pages still to be marked.  *)
(***************************************************************************)
EXTENDS Pmm, FiniteSetTheorems, SequenceTheorems, TLAPS

(* Arithmetic of the bitmap.                                               *)

\* bmp_offset and bit_offset of a page are a word index and a bit index, and
\* they determine the page.
LEMMA DivMod ==
    ASSUME NEW W \in Nat \ {0}, NEW p \in Nat
    PROVE  /\ p \div W \in Nat
           /\ p % W \in 0 .. (W - 1)
           /\ p = (p \div W) * W + (p % W)
OBVIOUS

\* Two different (word, bit) pairs are two different pages.
LEMMA BitUnique ==
    ASSUME NEW W \in Nat \ {0},
           NEW w \in Nat, NEW b \in 0 .. (W - 1),
           NEW v \in Nat, NEW c \in 0 .. (W - 1),
           w * W + b = v * W + c
    PROVE  w = v /\ b = c
<1>1. ASSUME NEW x \in Nat, NEW y \in Nat, x < y
      PROVE  y * W >= x * W + W
  <2>1. y >= x + 1
    BY <1>1
  <2>2. y * W >= (x + 1) * W
    BY <2>1
  <2>3. (x + 1) * W = x * W + W
    OBVIOUS
  <2> QED BY <2>2, <2>3
<1>2. CASE w < v
  BY <1>1, <1>2
<1>3. CASE v < w
  BY <1>1, <1>3
<1> QED BY <1>2, <1>3

\* A page below memory_top has its bit inside the bitmap.
LEMMA WordInBitmap ==
    ASSUME NEW W \in Nat \ {0}, NEW top \in Nat, NEW p \in Nat, p < top
    PROVE  p \div W \in 0 .. (((top + W - 1) \div W) - 1)
OBVIOUS

\* Bitmap words have bits.
LEMMA WordBitsOK == WordBits \in Nat \ {0}
BY PmmAssumption

Bitmaps == UNION {[D -> SUBSET (0 .. (WordBits - 1))] : D \in SUBSET Nat}

\* A page is free when the bit pmm_free would set for it is set.
LEMMA FreePageBit ==
    ASSUME NEW bm \in Bitmaps, NEW p
    PROVE  p \in PagesIn(bm) <=>
              /\ p \in Nat
              /\ p \div WordBits \in DOMAIN bm
              /\ p % WordBits \in bm[p \div WordBits]
<1> USE WordBitsOK
<1>0. /\ DOMAIN bm \subseteq Nat
      /\ \A w \in DOMAIN bm : bm[w] \subseteq 0 .. (WordBits - 1)
  BY Zenon DEF Bitmaps
<1>1. ASSUME p \in PagesIn(bm)
      PROVE  /\ p \in Nat
             /\ p \div WordBits \in DOMAIN bm
             /\ p % WordBits \in bm[p \div WordBits]
  <2>1. PICK w \in DOMAIN bm : \E b \in bm[w] : p = w * WordBits + b
    BY <1>1 DEF PagesIn
  <2>2. PICK b \in bm[w] : p = w * WordBits + b
    BY <2>1
  <2>3. w \in Nat /\ b \in 0 .. (WordBits - 1)
    BY <1>0
  <2>4. p \in Nat
    BY <2>2, <2>3
  <2>5. p \div WordBits = w /\ p % WordBits = b
    <3>1. PICK q \in Nat, r \in 0 .. (WordBits - 1) :
             q = p \div WordBits /\ r = p % WordBits /\ p = q * WordBits + r
      BY Zenon, <2>4, DivMod
    <3>2. q * WordBits + r = w * WordBits + b
      BY Zenon, <3>1, <2>2
    <3>3. q = w /\ r = b
      BY Zenon, <3>2, <2>3, BitUnique
    <3> QED BY <3>1, <3>3
  <2> QED BY <2>4, <2>5
<1>2. ASSUME p \in Nat, p \div WordBits \in DOMAIN bm, p % WordBits \in bm[p \div WordBits]
      PROVE  p \in PagesIn(bm)
  <2>1. p = (p \div WordBits) * WordBits + (p % WordBits)
    BY <1>2, DivMod
  <2> QED BY <1>2, <2>1 DEF PagesIn
<1> QED BY <1>1, <1>2

\* Setting the bit of page p adds p to the free pages.
LEMMA SetBit ==
    ASSUME NEW bm \in Bitmaps, NEW p \in Nat, p \div WordBits \in DOMAIN bm
    PROVE  LET bn == [bm EXCEPT ![p \div WordBits] = @ \cup {p % WordBits}]
           IN  /\ bn \in Bitmaps /\ DOMAIN bn = DOMAIN bm
               /\ PagesIn(bn) = PagesIn(bm) \cup {p}
<1> USE WordBitsOK
<1> DEFINE bn == [bm EXCEPT ![p \div WordBits] = @ \cup {p % WordBits}]
<1>1. p \div WordBits \in Nat /\ p % WordBits \in 0 .. (WordBits - 1)
  BY Zenon, DivMod
<1>2. bn \in Bitmaps /\ DOMAIN bn = DOMAIN bm
  BY <1>1 DEF Bitmaps
<1>3. ASSUME NEW q PROVE q \in PagesIn(bn) <=> q \in PagesIn(bm) \/ q = p
  <2>1. CASE q \in Nat /\ q \div WordBits = p \div WordBits /\ q % WordBits = p % WordBits
    <3>1. q = p
      BY Zenon, <2>1, DivMod
    <3> QED BY <3>1, <1>1, <1>2, FreePageBit
  <2>2. CASE q \in Nat /\ ~(q \div WordBits = p \div WordBits /\ q % WordBits = p % WordBits)
    <3>1. q # p
      BY <2>2
    <3>2. CASE q \div WordBits = p \div WordBits
      <4>1. bn[q \div WordBits] = bm[q \div WordBits] \cup {p % WordBits}
        BY <3>2
      <4> QED BY <4>1, <2>2, <3>1, <3>2, <1>2, FreePageBit
    <3>3. CASE q \div WordBits # p \div WordBits
      <4>1. q \div WordBits \in DOMAIN bm => bn[q \div WordBits] = bm[q \div WordBits]
        BY <3>3
      <4> QED BY <4>1, <2>2, <3>1, <1>2, FreePageBit
    <3> QED BY <3>2, <3>3
  <2>3. CASE q \notin Nat
    BY <2>3, <1>2, FreePageBit
  <2> QED BY <2>1, <2>2, <2>3
<1> QED BY Zenon, <1>2, <1>3

\* Setting a whole word adds the pages from the first one of that word on.
LEMMA SetWord ==
    ASSUME NEW bm \in Bitmaps, NEW p \in Nat, p \div WordBits \in DOMAIN bm, p % WordBits = 0
    PROVE  LET bn == [bm EXCEPT ![p \div WordBits] = 0 .. (WordBits - 1)]
           IN  /\ bn \in Bitmaps /\ DOMAIN bn = DOMAIN bm
               /\ PagesIn(bn) = PagesIn(bm) \cup (p .. (p + WordBits - 1))
<1> USE WordBitsOK
<1> DEFINE bn == [bm EXCEPT ![p \div WordBits] = 0 .. (WordBits - 1)]
<1>1. p \div WordBits \in Nat /\ p = (p \div WordBits) * WordBits
  BY DivMod
<1>2. bn \in Bitmaps /\ DOMAIN bn = DOMAIN bm
  BY <1>1 DEF Bitmaps
<1>3. ASSUME NEW q PROVE q \in PagesIn(bn) <=> q \in PagesIn(bm) \/ q \in p .. (p + WordBits - 1)
  <2>1. ASSUME q \in Nat
        PROVE  q \div WordBits = p \div WordBits <=> q \in p .. (p + WordBits - 1)
    <3>1. PICK v \in Nat, c \in 0 .. (WordBits - 1) :
             v = q \div WordBits /\ c = q % WordBits /\ q = v * WordBits + c
      BY <2>1, DivMod
    <3>2. PICK w \in Nat : w = p \div WordBits /\ p = w * WordBits
      BY <1>1
    <3>3. v = w => q \in p .. (p + WordBits - 1)
      BY <3>1, <3>2, <2>1
    <3>4. ASSUME q \in p .. (p + WordBits - 1) PROVE v = w
      <4>1. q - p \in 0 .. (WordBits - 1) /\ q = w * WordBits + (q - p)
        BY <3>2, <3>4, <2>1
      <4>2. v * WordBits + c = w * WordBits + (q - p)
        BY <4>1, <3>1
      <4> HIDE <3>1, <3>2
      <4> QED BY ONLY <4>1, <4>2, v \in Nat, w \in Nat, c \in 0 .. (WordBits - 1), BitUnique, WordBitsOK
    <3> QED BY <3>1, <3>2, <3>3, <3>4
  <2>2. CASE q \in Nat /\ q \div WordBits = p \div WordBits
    <3>1. bn[q \div WordBits] = 0 .. (WordBits - 1)
      BY <2>2
    <3>2. q % WordBits \in 0 .. (WordBits - 1)
      BY <2>2, DivMod
    <3> QED BY Zenon, <3>1, <3>2, <2>1, <2>2, <1>2, FreePageBit
  <2>3. CASE q \in Nat /\ q \div WordBits # p \div WordBits
    <3>1. q \div WordBits \in DOMAIN bm => bn[q \div WordBits] = bm[q \div WordBits]
      BY <2>3
    <3> QED BY Zenon, <3>1, <2>1, <2>3, <1>2, FreePageBit
  <2>4. CASE q \notin Nat
    BY <2>4, <1>2, FreePageBit
  <2> QED BY <2>2, <2>3, <2>4
<1> QED BY Zenon, <1>2, <1>3

\* Clearing a bit that is set removes its page from the free pages.
LEMMA ClearBit ==
    ASSUME NEW bm \in Bitmaps, NEW w \in DOMAIN bm, NEW b \in bm[w]
    PROVE  LET bn == [bm EXCEPT ![w] = @ \ {b}]
           IN  /\ bn \in Bitmaps /\ DOMAIN bn = DOMAIN bm
               /\ w * WordBits + b \in PagesIn(bm)
               /\ PagesIn(bn) = PagesIn(bm) \ {w * WordBits + b}
<1> USE WordBitsOK
<1> DEFINE bn == [bm EXCEPT ![w] = @ \ {b}]
<1>1. /\ DOMAIN bm \subseteq Nat
      /\ \A v \in DOMAIN bm : bm[v] \subseteq 0 .. (WordBits - 1)
  BY Zenon DEF Bitmaps
<1>2. bn \in Bitmaps /\ DOMAIN bn = DOMAIN bm
  <2>1. bm \in [DOMAIN bm -> SUBSET (0 .. (WordBits - 1))]
    BY Zenon DEF Bitmaps
  <2>2. bn \in [DOMAIN bm -> SUBSET (0 .. (WordBits - 1))]
    BY <2>1
  <2> QED BY <1>1, <2>2 DEF Bitmaps
<1>3. w * WordBits + b \in PagesIn(bm)
  BY DEF PagesIn
<1>4. ASSUME NEW v \in DOMAIN bm, NEW c \in bm[v]
      PROVE  v * WordBits + c = w * WordBits + b <=> v = w /\ c = b
  <2>1. v \in Nat /\ w \in Nat /\ c \in 0 .. (WordBits - 1) /\ b \in 0 .. (WordBits - 1)
    BY <1>1
  <2> QED BY Zenon, <2>1, BitUnique
<1>5. ASSUME NEW q PROVE q \in PagesIn(bn) <=> q \in PagesIn(bm) /\ q # w * WordBits + b
  <2>1. q \in PagesIn(bn) <=> \E v \in DOMAIN bm : \E c \in bn[v] : q = v * WordBits + c
    BY <1>2 DEF PagesIn
  <2>2. q \in PagesIn(bm) <=> \E v \in DOMAIN bm : \E c \in bm[v] : q = v * WordBits + c
    BY DEF PagesIn
  <2>3. \A v \in DOMAIN bm : \A c : c \in bn[v] <=> c \in bm[v] /\ ~(v = w /\ c = b)
    OBVIOUS
  <2> HIDE DEF bn
  <2> QED BY <2>1, <2>2, <2>3, <1>4
<1> QED BY Zenon, <1>2, <1>3, <1>5
-----------------------------------------------------------------------------
(* The memory map.                                                         *)

\* parse_memory_map keeps usable entries usable and makes no other one usable.
LEMMA RegionTypeOK ==
    ASSUME NEW t \in EntryTypes
    PROVE  /\ RegionType(t) \in {"USABLE", "ACPI_TABLES", "ACPI_NVS", "RESERVED", "ALLOCATED"}
           /\ RegionType(t) = "USABLE" <=> t = "USABLE"
BY DEF EntryTypes, RegionType

\* A region that begins later is still a region.
LEMMA MoveBegin ==
    ASSUME NEW a \in Regions, NEW v \in Nat
    PROVE  /\ [a EXCEPT !.begin = v] \in Regions
           /\ [a EXCEPT !.begin = v].begin = v
           /\ [a EXCEPT !.begin = v].end = a.end
           /\ [a EXCEPT !.begin = v].type = a.type
BY DEF Regions

\* What memmap_reserve does to the regions.
LEMMA SplitRegions ==
    ASSUME NEW r \in Seq(Regions), NEW n \in Nat, NEW i \in DOMAIN r,
           r[i].begin + n <= r[i].end
    PROVE  /\ Split(r, n, i) \in Seq(Regions)
           /\ Len(Split(r, n, i)) = Len(r) + 1
           /\ \A j \in DOMAIN r :
                 /\ Split(r, n, i)[j].type = r[j].type
                 /\ Split(r, n, i)[j].end = r[j].end
                 /\ Split(r, n, i)[j].begin = IF j = i THEN r[i].begin + n ELSE r[j].begin
           /\ Split(r, n, i)[Len(r) + 1].begin = r[i].begin
           /\ Split(r, n, i)[Len(r) + 1].end = r[i].begin + n
           /\ Split(r, n, i)[Len(r) + 1].type = "ALLOCATED"
<1> DEFINE s == [r EXCEPT ![i].begin = @ + n]
           x == [begin |-> r[i].begin, end |-> r[i].begin + n, type |-> "ALLOCATED"]
<1>1. /\ s \in Seq(Regions)
      /\ Len(s) = Len(r)
      /\ \A j \in DOMAIN r :
            /\ s[j].type = r[j].type
            /\ s[j].end = r[j].end
            /\ s[j].begin = IF j = i THEN r[i].begin + n ELSE r[j].begin
  <2>1. r[i] \in Regions
    BY ElementOfSeq
  <2>2. s = [r EXCEPT ![i] = [r[i] EXCEPT !.begin = r[i].begin + n]]
    OBVIOUS
  <2>3. r[i].begin + n \in Nat
    BY <2>1 DEF Regions
  <2>6. /\ [r[i] EXCEPT !.begin = r[i].begin + n] \in Regions
        /\ [r[i] EXCEPT !.begin = r[i].begin + n].begin = r[i].begin + n
        /\ [r[i] EXCEPT !.begin = r[i].begin + n].end = r[i].end
        /\ [r[i] EXCEPT !.begin = r[i].begin + n].type = r[i].type
    BY <2>1, <2>3, MoveBegin
  <2>4. s \in Seq(Regions) /\ Len(s) = Len(r)
    BY <2>2, <2>6, ExceptSeq
  <2>5. \A j \in DOMAIN r : s[j] = IF j = i THEN [r[i] EXCEPT !.begin = r[i].begin + n] ELSE r[j]
    BY <2>2
  <2> QED BY <2>4, <2>5, <2>6
<1>2. x \in Regions
  <2>1. r[i] \in Regions
    BY ElementOfSeq
  <2> QED BY <2>1 DEF Regions
<1>3. Split(r, n, i) = Append(s, x)
  BY DEF Split
<1> HIDE DEF s, x
<1>4. /\ Append(s, x) \in Seq(Regions)
      /\ Len(Append(s, x)) = Len(s) + 1
      /\ \A j \in 1 .. Len(s) : Append(s, x)[j] = s[j]
      /\ Append(s, x)[Len(s) + 1] = x
  BY <1>1, <1>2, AppendProperties
<1>5. DOMAIN r = 1 .. Len(s)
  BY <1>1
<1>6. x.begin = r[i].begin /\ x.end = r[i].begin + n /\ x.type = "ALLOCATED"
  BY DEF x
<1> QED BY <1>1, <1>3, <1>4, <1>5, <1>6
-----------------------------------------------------------------------------
(* The inductive invariant.                                                *)

Apart(a, b, c, d) == b <= c \/ d <= a

\* What memmap_reserve keeps true of the regions: usable ones overlap neither
\* each other nor anything that must not be handed out.
RegionsInv ==
    /\ \A i \in DOMAIN regions : regions[i].begin <= regions[i].end
    /\ \A i \in UsableIndices(regions) :
          /\ regions[i].begin >= 1
          /\ \A j \in UsableIndices(regions) :
                i # j => Apart(regions[i].begin, regions[i].end, regions[j].begin, regions[j].end)
          /\ \A j \in DOMAIN regions :
                regions[j].type = "ALLOCATED" =>
                    Apart(regions[i].begin, regions[i].end, regions[j].begin, regions[j].end)
          /\ \A j \in DOMAIN entries :
                entries[j].type # "USABLE" =>
                    Apart(regions[i].begin, regions[i].end, entries[j].base, entries[j].end)

\* Every page of usable memory has a bit in the bitmap.
BitmapInv ==
    /\ DOMAIN pmm_bitmap \subseteq Nat
    /\ phase \in {"scan", "mark", "run"} =>
          \A p \in Managed : p \div WordBits \in DOMAIN pmm_bitmap

\* The usable regions that the loop of pmm_init has been through.
Visited == UNION {PagesOf(regions, i) : i \in {j \in UsableIndices(regions) : j < region}}

\* The progress of pmm_init and pmm_mark_range_free.
BootInv ==
    /\ region \in Nat \ {0}
    /\ phase \in {"scan", "mark", "run"} => Len(regions) >= 1
    /\ phase = "reserve" => region = 1 /\ available = 0
    /\ ~Started => owned = {}
    /\ phase \in {"reserve", "panic"} /\ ~Started => FreePages = {}
    /\ phase = "scan" =>
          /\ FreePages = Visited
          /\ available = Cardinality(FreePages)
    /\ phase = "mark" =>
          /\ region \in UsableIndices(regions)
          /\ regions[region].begin <= rbegin
          /\ rbegin + rlen = regions[region].end
          /\ FreePages = Visited \cup (regions[region].begin .. (rbegin - 1))
          /\ available = Cardinality(FreePages) + rlen
    /\ Started =>
          /\ region > 1
          /\ FreePages \cap owned = {}
          /\ FreePages \cup owned = Managed
          /\ available = Cardinality(FreePages)
    /\ phase = "panic" /\ Started => FreePages = {}

\* The counters never go below zero.
CountInv ==
    /\ IsFiniteSet(FreePages)
    /\ IsFiniteSet(owned)
    /\ used >= Cardinality(owned)

PmmInv == TypeOK /\ RegionsInv /\ BitmapInv /\ BootInv /\ CountInv

\* The regions that parse_memory_map produces.
LEMMA ParsedRegions ==
    ASSUME NEW m \in MemoryMaps
    PROVE  /\ ParseMemoryMap(m) \in Seq(Regions)
           /\ \A i \in DOMAIN ParseMemoryMap(m) :
                 /\ i \in DOMAIN m
                 /\ m[i].base \in Nat /\ m[i].end \in Nat
                 /\ ParseMemoryMap(m)[i].begin >= m[i].base
                 /\ ParseMemoryMap(m)[i].begin >= 1
                 /\ ParseMemoryMap(m)[i].begin <= ParseMemoryMap(m)[i].end
                 /\ ParseMemoryMap(m)[i].end = m[i].end
                 /\ ParseMemoryMap(m)[i].type = RegionType(m[i].type)
<1> DEFINE n == IF Len(m) < MaxRegions THEN Len(m) ELSE MaxRegions
           P == ParseMemoryMap(m)
<1>1. m \in Seq(Entries)
  BY PmmAssumption
<1>2. n \in Nat /\ n <= Len(m) /\ 1 .. n \subseteq DOMAIN m
  BY <1>1, PmmAssumption
<1>3. P = [i \in 1 .. n |-> [begin |-> IF m[i].base = 0 THEN 2 ELSE m[i].base,
                             end |-> m[i].end, type |-> RegionType(m[i].type)]]
  BY DEF ParseMemoryMap
<1> HIDE DEF n, P
<1>4. ASSUME NEW i \in 1 .. n
      PROVE  /\ P[i] \in Regions
             /\ m[i].base \in Nat /\ m[i].end \in Nat
             /\ P[i].begin >= m[i].base /\ P[i].begin >= 1 /\ P[i].begin <= P[i].end
             /\ P[i].end = m[i].end
             /\ P[i].type = RegionType(m[i].type)
  <2>1. m[i] \in Entries
    BY <1>1, <1>2, ElementOfSeq
  <2>2. m[i].base \in Nat /\ m[i].end \in Nat /\ m[i].type \in EntryTypes
    BY <2>1 DEF Entries
  <2>3. m[i].base < m[i].end /\ (m[i].base = 0 => m[i].end >= 2)
    BY <1>2, PmmAssumption
  <2>4. RegionType(m[i].type) \in {"USABLE", "ACPI_TABLES", "ACPI_NVS", "RESERVED", "ALLOCATED"}
    BY <2>2, RegionTypeOK
  <2> QED BY <1>3, <2>2, <2>3, <2>4 DEF Regions
<1>5. P \in Seq(Regions) /\ DOMAIN P = 1 .. n
  BY <1>2, <1>3, <1>4, IsASeq
<1> QED BY <1>2, <1>4, <1>5 DEF P

\* The invariant holds when pmm_init is called.
LEMMA InitPmmInv == Init => PmmInv
<1> SUFFICES ASSUME Init PROVE PmmInv
  OBVIOUS
<1> USE DEF Init
<1>0. DOMAIN regions = DOMAIN ParseMemoryMap(entries)
  OBVIOUS
<1>1. FreePages = {} /\ pmm_bitmap \in Bitmaps
  <2>1. DOMAIN pmm_bitmap = {}
    OBVIOUS
  <2>2. pmm_bitmap \in [{} -> SUBSET (0 .. (WordBits - 1))]
    OBVIOUS
  <2> QED BY <2>1, <2>2 DEF FreePages, PagesIn, Bitmaps
<1>2. TypeOK
  <2>1. pmm_bitmap \in [DOMAIN pmm_bitmap -> SUBSET (0 .. (WordBits - 1))]
    OBVIOUS
  <2> QED BY <2>1, ParsedRegions DEF TypeOK
<1>3. RegionsInv
  <2>1. ASSUME NEW i \in UsableIndices(regions), NEW j \in DOMAIN entries, i # j
        PROVE  Apart(regions[i].begin, regions[i].end, entries[j].base, entries[j].end)
    <3>1. i \in DOMAIN regions /\ regions[i].type = "USABLE"
      BY DEF UsableIndices
    <3>2. /\ i \in DOMAIN entries
          /\ regions[i].begin >= entries[i].base /\ regions[i].end = entries[i].end
          /\ entries[i].base \in Nat /\ entries[i].end \in Nat
          /\ regions[i].type = RegionType(entries[i].type)
      BY <3>1, <1>0, ParsedRegions
    <3>3. entries[i] \in Entries /\ entries[j] \in Entries /\ regions[i] \in Regions
      BY <3>1, <3>2, <1>2, PmmAssumption, ElementOfSeq DEF TypeOK
    <3>4. entries[i].type = "USABLE"
      BY <3>1, <3>2, <3>3, RegionTypeOK DEF Entries
    <3>5. entries[i].end <= entries[j].base \/ entries[j].end <= entries[i].base
      BY <3>2, <3>4, <2>1, PmmAssumption
    <3>6. regions[i].begin \in Nat /\ entries[j].base \in Nat /\ entries[j].end \in Nat
      BY <3>3 DEF Regions, Entries
    <3> QED BY <3>2, <3>5, <3>6 DEF Apart
  <2>2. ASSUME NEW i \in UsableIndices(regions), NEW j \in DOMAIN regions, i # j
        PROVE  Apart(regions[i].begin, regions[i].end, regions[j].begin, regions[j].end)
    <3>1. /\ j \in DOMAIN entries
          /\ regions[j].begin >= entries[j].base /\ regions[j].end = entries[j].end
          /\ entries[j].base \in Nat /\ entries[j].end \in Nat
      BY <1>0, ParsedRegions
    <3>2. i \in DOMAIN regions
      BY DEF UsableIndices
    <3>3. regions[i] \in Regions /\ regions[j] \in Regions
      BY <3>2, <1>2, ElementOfSeq DEF TypeOK
    <3>4. regions[i].begin \in Nat /\ regions[i].end \in Nat /\ regions[j].begin \in Nat
      BY <3>3 DEF Regions
    <3> QED BY <2>1, <2>2, <3>1, <3>4 DEF Apart
  <2>3. ASSUME NEW i \in UsableIndices(regions)
        PROVE  /\ i \in DOMAIN regions /\ regions[i].type = "USABLE" /\ i \in DOMAIN entries
               /\ entries[i].type = "USABLE"
    <3>1. i \in DOMAIN regions /\ regions[i].type = "USABLE"
      BY DEF UsableIndices
    <3>2. i \in DOMAIN entries /\ regions[i].type = RegionType(entries[i].type)
      BY <3>1, <1>0, ParsedRegions
    <3>3. entries[i] \in Entries
      BY <3>2, PmmAssumption, ElementOfSeq
    <3> QED BY <3>1, <3>2, <3>3, RegionTypeOK DEF Entries
  <2>4. \A i \in DOMAIN regions : regions[i].begin <= regions[i].end /\ regions[i].begin >= 1
    BY <1>0, ParsedRegions
  <2>5. UsableIndices(regions) \subseteq DOMAIN regions
    BY DEF UsableIndices
  <2> QED BY <2>1, <2>2, <2>3, <2>4, <2>5 DEF RegionsInv
<1>4. BitmapInv
  BY DEF BitmapInv
<1>5. BootInv
  BY <1>1 DEF BootInv, Started
<1>6. CountInv
  BY <1>1, FS_EmptySet DEF CountInv
<1> QED BY <1>2, <1>3, <1>4, <1>5, <1>6 DEF PmmInv
-----------------------------------------------------------------------------
(* Every step keeps the invariant.                                         *)

\* Facts about a state that satisfies the invariant.
LEMMA InvFacts ==
    ASSUME PmmInv
    PROVE  /\ pmm_bitmap \in Bitmaps
           /\ \A i \in DOMAIN regions :
                 /\ regions[i] \in Regions
                 /\ regions[i].begin \in Nat /\ regions[i].end \in Nat
                 /\ regions[i].begin <= regions[i].end
           /\ Len(regions) \in Nat /\ DOMAIN regions = 1 .. Len(regions)
           /\ Managed \subseteq Nat
<1>1. pmm_bitmap \in Bitmaps
  BY DEF PmmInv, TypeOK, BitmapInv, Bitmaps
<1>2. regions \in Seq(Regions) /\ Len(regions) \in Nat /\ DOMAIN regions = 1 .. Len(regions)
  BY DEF PmmInv, TypeOK
<1>3. ASSUME NEW i \in DOMAIN regions
      PROVE  /\ regions[i] \in Regions
             /\ regions[i].begin \in Nat /\ regions[i].end \in Nat
             /\ regions[i].begin <= regions[i].end
  <2>1. regions[i] \in Regions
    BY <1>2, ElementOfSeq
  <2> QED BY <2>1 DEF Regions, PmmInv, RegionsInv
<1>4. Managed \subseteq Nat
  BY <1>3 DEF Managed, PagesOf, UsableIndices
<1> QED BY <1>1, <1>2, <1>3, <1>4

\* A bitmap is a function from word indices to sets of bits.
LEMMA BitmapType ==
    ASSUME NEW bm \in Bitmaps
    PROVE  bm \in [DOMAIN bm -> SUBSET (0 .. (WordBits - 1))] /\ DOMAIN bm \subseteq Nat
BY Zenon DEF Bitmaps

\* Setting the bitmap up.
LEMMA ReserveStep == ASSUME PmmInv, Reserve PROVE PmmInv'
<1>1. PICK top \in {0} \cup {regions[i].end : i \in DOMAIN regions} :
          /\ IsMemoryTop(top, regions)
          /\ \E i \in DOMAIN regions :
                /\ ReserveIn(regions, RequiredPages(RequiredWords(top)), i)
                /\ Len(regions) # MaxRegions
                /\ regions' = Split(regions, RequiredPages(RequiredWords(top)), i)
          /\ pmm_bitmap' = [w \in 0 .. (RequiredWords(top) - 1) |-> {}]
  BY Zenon DEF Reserve
<1> DEFINE n == RequiredPages(RequiredWords(top))
<1>2. PICK i \in DOMAIN regions : ReserveIn(regions, n, i) /\ regions' = Split(regions, n, i)
  BY <1>1
<1>3. top \in Nat /\ RequiredWords(top) \in Nat
  <2>1. top \in Nat
    BY InvFacts
  <2>2. top + WordBits - 1 \in Nat
    BY <2>1, WordBitsOK
  <2> QED BY <2>1, <2>2, WordBitsOK, DivMod DEF RequiredWords
<1>4. n \in Nat
  <2>1. WordsPerPage \in Nat \ {0}
    BY PmmAssumption
  <2>2. RequiredWords(top) + WordsPerPage - 1 \in Nat
    BY <1>3, <2>1
  <2> QED BY <2>1, <2>2, DivMod DEF RequiredPages
<1> HIDE DEF n
<1>5. /\ regions \in Seq(Regions) /\ i \in UsableIndices(regions)
      /\ regions[i].begin + n <= regions[i].end
      /\ Len(regions) \in Nat /\ DOMAIN regions = 1 .. Len(regions)
  BY <1>2, <1>4, InvFacts DEF ReserveIn, PmmInv, TypeOK
<1>6. /\ regions' \in Seq(Regions)
      /\ Len(regions') = Len(regions) + 1
      /\ \A j \in DOMAIN regions :
            /\ regions'[j].type = regions[j].type
            /\ regions'[j].end = regions[j].end
            /\ regions'[j].begin = IF j = i THEN regions[i].begin + n ELSE regions[j].begin
      /\ regions'[Len(regions) + 1].begin = regions[i].begin
      /\ regions'[Len(regions) + 1].end = regions[i].begin + n
      /\ regions'[Len(regions) + 1].type = "ALLOCATED"
  BY <1>2, <1>4, <1>5, SplitRegions
<1>7. DOMAIN regions' = DOMAIN regions \cup {Len(regions) + 1}
  BY <1>5, <1>6
<1>8. UsableIndices(regions') = UsableIndices(regions)
  BY <1>6, <1>7 DEF UsableIndices
<1>9. /\ entries' = entries /\ region' = 1 /\ available' = 0 /\ owned' = {}
      /\ rbegin' = rbegin /\ rlen' = rlen /\ used' = used /\ phase' = "scan"
  BY DEF Reserve, locals, PmmInv, BootInv, Started
<1>10. pmm_bitmap' \in Bitmaps /\ FreePages' = {}
  <2>1. \A w \in DOMAIN pmm_bitmap' : pmm_bitmap'[w] = {}
    BY <1>1
  <2>2. pmm_bitmap' \in [0 .. (RequiredWords(top) - 1) -> SUBSET (0 .. (WordBits - 1))]
    BY <1>1
  <2>3. 0 .. (RequiredWords(top) - 1) \in SUBSET Nat
    BY <1>3
  <2> QED BY Zenon, <2>1, <2>2, <2>3 DEF FreePages, PagesIn, Bitmaps
<1>11. TypeOK'
  BY <1>6, <1>9, <1>10, BitmapType DEF PmmInv, TypeOK
<1>12. RegionsInv'
  <2>1. \A j \in DOMAIN regions : regions[j].begin \in Nat /\ regions[j].end \in Nat
                                  /\ regions[j].begin <= regions[j].end
    BY InvFacts
  <2>2. ASSUME NEW j \in DOMAIN regions' PROVE regions'[j].begin <= regions'[j].end
    <3>1. CASE j \in DOMAIN regions
      BY Zenon, <3>1, <2>1, <1>4, <1>5, <1>6
    <3>2. CASE j = Len(regions) + 1
      BY <3>2, <2>1, <1>4, <1>6
    <3> QED BY <3>1, <3>2, <1>7
  <2>3. ASSUME NEW k \in UsableIndices(regions)
        PROVE  /\ k \in DOMAIN regions
               /\ regions'[k].begin >= 1
               /\ regions'[k].begin >= regions[k].begin
               /\ regions'[k].end = regions[k].end
               /\ regions'[k].begin \in Nat
    <3>1. k \in DOMAIN regions
      BY DEF UsableIndices
    <3>2. regions[k].begin >= 1
      BY DEF PmmInv, RegionsInv
    <3> QED BY <3>1, <3>2, <2>1, <1>4, <1>6
  <2>4. ASSUME NEW k \in UsableIndices(regions), NEW j \in UsableIndices(regions), k # j
        PROVE  Apart(regions'[k].begin, regions'[k].end, regions'[j].begin, regions'[j].end)
    <3>1. Apart(regions[k].begin, regions[k].end, regions[j].begin, regions[j].end)
      BY <2>4 DEF PmmInv, RegionsInv
    <3>2. k \in DOMAIN regions /\ j \in DOMAIN regions
      BY <2>3
    <3> QED BY <3>1, <3>2, <2>1, <2>3 DEF Apart
  <2>5. ASSUME NEW k \in UsableIndices(regions), NEW j \in DOMAIN regions,
               regions[j].type = "ALLOCATED"
        PROVE  Apart(regions'[k].begin, regions'[k].end, regions'[j].begin, regions'[j].end)
    <3>1. Apart(regions[k].begin, regions[k].end, regions[j].begin, regions[j].end)
      BY <2>5 DEF PmmInv, RegionsInv
    <3>2. j # i
      BY <2>5, <1>5 DEF UsableIndices
    <3>3. k \in DOMAIN regions
      BY <2>3
    <3> QED BY <3>1, <3>2, <3>3, <2>1, <2>3, <1>6 DEF Apart
  <2>6. ASSUME NEW k \in UsableIndices(regions)
        PROVE  Apart(regions'[k].begin, regions'[k].end,
                     regions'[Len(regions) + 1].begin, regions'[Len(regions) + 1].end)
    <3>1. CASE k = i
      BY <3>1, <2>1, <1>4, <1>6 DEF Apart
    <3>2. CASE k # i
      <4>1. Apart(regions[k].begin, regions[k].end, regions[i].begin, regions[i].end)
        BY <3>2, <1>5 DEF PmmInv, RegionsInv
      <4>2. k \in DOMAIN regions
        BY <2>3
      <4> QED BY <4>1, <4>2, <2>1, <2>3, <1>4, <1>5, <1>6 DEF Apart
    <3> QED BY <3>1, <3>2
  <2>7. ASSUME NEW k \in UsableIndices(regions), NEW j \in DOMAIN entries,
               entries[j].type # "USABLE"
        PROVE  Apart(regions'[k].begin, regions'[k].end, entries[j].base, entries[j].end)
    <3>1. Apart(regions[k].begin, regions[k].end, entries[j].base, entries[j].end)
      BY <2>7 DEF PmmInv, RegionsInv
    <3>2. entries \in Seq(Entries)
      BY PmmAssumption DEF PmmInv, TypeOK
    <3>3. entries[j] \in Entries
      BY <3>2, ElementOfSeq
    <3>4. entries[j].base \in Nat /\ entries[j].end \in Nat
      BY <3>3 DEF Entries
    <3>5. k \in DOMAIN regions
      BY <2>3
    <3> QED BY <3>1, <3>4, <3>5, <2>1, <2>3 DEF Apart
  <2> QED BY Zenon, <2>2, <2>3, <2>4, <2>5, <2>6, <2>7, <1>6, <1>7, <1>8, <1>9 DEF RegionsInv
<1>13. BitmapInv'
  <2>1. ASSUME NEW k \in UsableIndices(regions), NEW p \in PagesOf(regions', k)
        PROVE  p \div WordBits \in DOMAIN pmm_bitmap'
    <3>1. k \in DOMAIN regions
      BY DEF UsableIndices
    <3>2. regions[k].end <= top
      BY <1>1 DEF IsMemoryTop
    <3>3. /\ regions'[k].begin \in Nat /\ regions'[k].end = regions[k].end
          /\ regions[k].end \in Nat
      BY <3>1, <1>4, <1>6, InvFacts
    <3>4. p \in Nat /\ p < top
      BY <3>2, <3>3, <1>3 DEF PagesOf
    <3>5. p \div WordBits \in 0 .. (RequiredWords(top) - 1)
      BY <3>4, <1>3, WordBitsOK, WordInBitmap DEF RequiredWords
    <3> QED BY <3>5, <1>1
  <2>2. DOMAIN pmm_bitmap' \subseteq Nat
    BY <1>10, BitmapType
  <2> QED BY <2>1, <2>2, <1>8 DEF BitmapInv, Managed
<1>14. BootInv'
  <2>1. Visited' = {}
    <3>1. {j \in UsableIndices(regions) : j < 1} = {}
      BY <1>5 DEF UsableIndices
    <3> QED BY <3>1, <1>8, <1>9 DEF Visited
  <2>2. Cardinality({}) = 0
    BY FS_EmptySet
  <2>3. ~Started'
    BY <1>9 DEF Started
  <2> QED BY <2>1, <2>2, <2>3, <1>5, <1>6, <1>9, <1>10 DEF BootInv
<1>15. CountInv'
  <2>1. used' >= Cardinality(owned')
    BY <1>9, FS_EmptySet DEF PmmInv, TypeOK
  <2> QED BY <2>1, <1>9, <1>10, FS_EmptySet DEF CountInv
<1> QED BY <1>11, <1>12, <1>13, <1>14, <1>15 DEF PmmInv

\* Steps that change neither the regions nor the entries keep RegionsInv.
LEMMA RegionsKept ==
    ASSUME RegionsInv, UNCHANGED <<entries, regions>>
    PROVE  RegionsInv'
<1>1. UsableIndices(regions') = UsableIndices(regions)
  BY DEF UsableIndices
<1> QED BY <1>1 DEF RegionsInv

\* The steps of pmm_init that set no bit.
LEMMA ScanStep ==
    ASSUME PmmInv, ReservePanic \/ ScanOther \/ ScanUsable \/ MarkReturn \/ InitDone
    PROVE  PmmInv'
<1>1. /\ UNCHANGED <<entries, regions, pmm_bitmap, owned>>
      /\ FreePages' = FreePages /\ Managed' = Managed
      /\ UsableIndices(regions') = UsableIndices(regions)
  BY DEF ReservePanic, ScanOther, ScanUsable, MarkReturn, InitDone, locals,
         FreePages, Managed, UsableIndices, PagesOf
<1>2. RegionsInv'
  BY Zenon, <1>1, RegionsKept DEF PmmInv
<1>3. CASE ReservePanic
  <2> USE <1>3 DEF ReservePanic, locals
  <2>1. ~Started /\ ~Started'
    BY DEF Started, PmmInv, BootInv
  <2>2. TypeOK' /\ BitmapInv'
    BY <1>1 DEF PmmInv, TypeOK, BitmapInv
  <2>3. BootInv'
    BY Zenon, <1>1, <2>1 DEF PmmInv, BootInv
  <2>4. CountInv'
    BY <1>1 DEF PmmInv, CountInv
  <2> QED BY Zenon, <1>2, <2>2, <2>3, <2>4 DEF PmmInv
<1>4. CASE ScanOther
  <2> USE <1>4 DEF ScanOther
  <2>1. region \in DOMAIN regions
    BY InvFacts DEF PmmInv, BootInv
  <2>2. used' \in Nat /\ used' >= used
    BY <2>1, InvFacts DEF PmmInv, TypeOK
  <2>3. ~Started /\ ~Started'
    BY DEF Started
  <2>4. Visited' = Visited
    <3>1. {j \in UsableIndices(regions) : j < region + 1} = {j \in UsableIndices(regions) : j < region}
      BY InvFacts DEF UsableIndices, PmmInv, BootInv
    <3> QED BY <3>1, <1>1 DEF Visited, PagesOf
  <2>5. TypeOK' /\ BitmapInv'
    BY <1>1, <2>2 DEF PmmInv, TypeOK, BitmapInv
  <2>6. BootInv'
    BY <1>1, <2>3, <2>4 DEF PmmInv, BootInv
  <2>7. CountInv'
    <3>1. Cardinality(owned) \in Nat
      BY FS_CardinalityType DEF PmmInv, CountInv
    <3> QED BY <1>1, <2>2, <3>1 DEF PmmInv, CountInv, TypeOK
  <2> QED BY Zenon, <1>2, <2>5, <2>6, <2>7 DEF PmmInv
<1>5. CASE ScanUsable
  <2> USE <1>5 DEF ScanUsable
  <2>1. /\ region \in UsableIndices(regions)
        /\ regions[region].begin \in Nat /\ regions[region].end \in Nat
        /\ regions[region].begin <= regions[region].end
    BY InvFacts DEF PmmInv, BootInv, UsableIndices
  <2>2. /\ rlen' \in Nat /\ rbegin' \in Nat
        /\ rbegin' + rlen' = regions[region].end
        /\ regions[region].begin .. (rbegin' - 1) = {}
    BY <2>1
  <2>3. ~Started /\ ~Started'
    BY DEF Started
  <2>4. Visited' = Visited
    BY <1>1 DEF Visited, PagesOf
  <2>5. TypeOK' /\ BitmapInv'
    BY <1>1, <2>2 DEF PmmInv, TypeOK, BitmapInv
  <2>6. BootInv'
    BY <1>1, <2>1, <2>2, <2>3, <2>4 DEF PmmInv, BootInv
  <2>7. CountInv'
    BY Zenon, <1>1 DEF PmmInv, CountInv
  <2> QED BY Zenon, <1>2, <2>5, <2>6, <2>7 DEF PmmInv
<1>6. CASE MarkReturn
  <2> USE <1>6 DEF MarkReturn
  <2>1. /\ region \in UsableIndices(regions)
        /\ rlen = 0 /\ rbegin = regions[region].end
        /\ available = Cardinality(FreePages)
        /\ region \in Nat
    <3>1. region \in UsableIndices(regions) /\ rlen \in Nat /\ rbegin \in Nat /\ region \in Nat
      BY DEF PmmInv, BootInv, TypeOK
    <3>2. regions[region].end \in Nat /\ Cardinality(FreePages) \in Nat
      BY Zenon, <3>1, InvFacts, FS_CardinalityType DEF UsableIndices, PmmInv, CountInv
    <3> QED BY <3>1, <3>2 DEF PmmInv, BootInv
  <2>2. Visited' = Visited \cup PagesOf(regions, region)
    <3>1. {j \in UsableIndices(regions) : j < region + 1}
             = {j \in UsableIndices(regions) : j < region} \cup {region}
      BY <2>1, InvFacts DEF UsableIndices
    <3> QED BY <3>1, <1>1 DEF Visited, PagesOf
  <2>3. FreePages = Visited \cup PagesOf(regions, region)
    BY <2>1 DEF PmmInv, BootInv, PagesOf
  <2>4. ~Started /\ ~Started'
    BY DEF Started
  <2>5. TypeOK' /\ BitmapInv'
    BY <1>1 DEF PmmInv, TypeOK, BitmapInv
  <2>6. BootInv'
    BY <1>1, <2>1, <2>2, <2>3, <2>4 DEF PmmInv, BootInv
  <2>7. CountInv'
    BY <1>1 DEF PmmInv, CountInv
  <2> QED BY <1>2, <2>5, <2>6, <2>7 DEF PmmInv
<1>7. CASE InitDone
  <2> USE <1>7 DEF InitDone, locals
  <2>1. Visited = Managed
    <3>1. {j \in UsableIndices(regions) : j < region} = UsableIndices(regions)
      BY InvFacts DEF UsableIndices, PmmInv, BootInv
    <3> QED BY Zenon, <3>1 DEF Visited, Managed
  <2>2. ~Started /\ Started' /\ region > 1 /\ owned = {}
    BY InvFacts DEF Started, PmmInv, BootInv
  <2>3. TypeOK' /\ BitmapInv'
    BY <1>1 DEF PmmInv, TypeOK, BitmapInv
  <2>4. BootInv'
    BY <1>1, <2>1, <2>2 DEF PmmInv, BootInv
  <2>5. CountInv'
    BY <1>1 DEF PmmInv, CountInv
  <2> QED BY <1>2, <2>3, <2>4, <2>5 DEF PmmInv
<1> QED BY Zenon, <1>3, <1>4, <1>5, <1>6, <1>7

\* The iterations of pmm_mark_range_free.
LEMMA MarkStep == ASSUME PmmInv, MarkWord \/ MarkBit PROVE PmmInv'
<1>1. /\ UNCHANGED <<entries, regions, region, phase, available, used, owned>>
      /\ phase = "mark" /\ rlen >= 1
      /\ Managed' = Managed /\ Visited' = Visited
      /\ UsableIndices(regions') = UsableIndices(regions)
  BY WordBitsOK DEF MarkWord, MarkBit, PmmInv, TypeOK, Managed, Visited, UsableIndices, PagesOf
<1>2. RegionsInv'
  BY <1>1, RegionsKept DEF PmmInv
<1>3. ~Started /\ ~Started' /\ owned = {}
  BY <1>1 DEF Started, PmmInv, BootInv
<1>4. /\ region \in UsableIndices(regions) /\ region \in DOMAIN regions
      /\ regions[region].begin \in Nat /\ regions[region].end \in Nat
      /\ rbegin \in Nat /\ rlen \in Nat
      /\ regions[region].begin <= rbegin /\ rbegin + rlen = regions[region].end
      /\ FreePages = Visited \cup (regions[region].begin .. (rbegin - 1))
      /\ available = Cardinality(FreePages) + rlen
      /\ IsFiniteSet(FreePages) /\ Cardinality(FreePages) \in Nat
  BY <1>1, InvFacts, FS_CardinalityType DEF PmmInv, TypeOK, BootInv, CountInv, UsableIndices
<1>5. ASSUME NEW p \in rbegin .. (regions[region].end - 1) PROVE p \notin FreePages
  <2>1. ASSUME NEW j \in UsableIndices(regions), j < region PROVE p \notin PagesOf(regions, j)
    <3>1. Apart(regions[region].begin, regions[region].end, regions[j].begin, regions[j].end)
      <4>1. region # j /\ region \in Nat
        BY <2>1, <1>4, InvFacts DEF UsableIndices
      <4> QED BY Zenon, <4>1, <1>4 DEF PmmInv, RegionsInv
    <3>2. regions[j].begin \in Nat /\ regions[j].end \in Nat
      BY InvFacts DEF UsableIndices
    <3> QED BY <3>1, <3>2, <1>4 DEF Apart, PagesOf
  <2>2. p \notin Visited
    BY <2>1 DEF Visited
  <2>3. p \notin regions[region].begin .. (rbegin - 1)
    BY <1>4
  <2> QED BY <2>2, <2>3, <1>4
<1>6. pmm_bitmap \in Bitmaps /\ rbegin \div WordBits \in DOMAIN pmm_bitmap
  <2>1. rbegin \in PagesOf(regions, region)
    BY <1>1, <1>4 DEF PagesOf
  <2>2. rbegin \in Managed
    BY <2>1, <1>4 DEF Managed
  <2> QED BY <2>2, <1>1, InvFacts DEF PmmInv, BitmapInv
<1>7. CASE MarkWord
  <2> DEFINE W == rbegin .. (rbegin + WordBits - 1)
  <2>1. /\ rlen >= WordBits /\ rbegin % WordBits = 0
        /\ pmm_bitmap' = [pmm_bitmap EXCEPT ![rbegin \div WordBits] = 0 .. (WordBits - 1)]
        /\ rlen' = rlen - WordBits /\ rbegin' = rbegin + WordBits
    BY <1>7 DEF MarkWord
  <2>2. /\ pmm_bitmap' \in Bitmaps /\ DOMAIN pmm_bitmap' = DOMAIN pmm_bitmap
        /\ FreePages' = FreePages \cup W
    BY Zenon, <1>4, <1>6, <2>1, SetWord DEF FreePages
  <2>3. W \subseteq rbegin .. (regions[region].end - 1)
    BY <1>4, <2>1, WordBitsOK
  <2>4. FreePages \cap W = {}
    BY <1>5, <2>3
  <2>5. IsFiniteSet(W) /\ Cardinality(W) = WordBits
    <3>1. rbegin \in Int /\ rbegin + WordBits - 1 \in Int /\ rbegin <= rbegin + WordBits - 1
      BY <1>4, WordBitsOK
    <3>2. IsFiniteSet(W) /\ Cardinality(W) = (rbegin + WordBits - 1) - rbegin + 1
      BY <3>1, FS_Interval
    <3> QED BY <3>2, <1>4, WordBitsOK
  <2> HIDE DEF W
  <2>6. IsFiniteSet(FreePages') /\ Cardinality(FreePages') = Cardinality(FreePages) + WordBits
    <3>1. /\ IsFiniteSet(FreePages \cup W)
          /\ Cardinality(FreePages \cup W)
                = Cardinality(FreePages) + Cardinality(W) - Cardinality(FreePages \cap W)
      BY <1>4, <2>5, FS_Union
    <3>2. Cardinality(FreePages \cap W) = 0
      BY <2>4, FS_EmptySet
    <3> QED BY <3>1, <3>2, <2>2, <2>5, <1>4, WordBitsOK
  <2>7. FreePages' = Visited \cup (regions[region].begin .. (rbegin' - 1))
    <3>1. regions[region].begin .. (rbegin' - 1) = (regions[region].begin .. (rbegin - 1)) \cup W
      BY <1>4, <2>1, WordBitsOK DEF W
    <3> QED BY <3>1, <1>4, <2>2
  <2>8. rlen' \in Nat /\ rbegin' \in Nat /\ rbegin' + rlen' = regions[region].end
        /\ regions[region].begin <= rbegin'
    BY <1>4, <2>1, WordBitsOK
  <2>9. TypeOK' /\ BitmapInv'
    BY <1>1, <2>2, <2>8, BitmapType DEF PmmInv, TypeOK, BitmapInv
  <2>10. available' = Cardinality(FreePages') + rlen'
    BY <1>1, <1>4, <2>1, <2>6, WordBitsOK
  <2>11. BootInv'
    BY <1>1, <1>3, <1>4, <2>7, <2>8, <2>10 DEF PmmInv, BootInv
  <2>12. CountInv'
    BY <1>1, <2>6 DEF PmmInv, CountInv
  <2> QED BY <1>2, <2>9, <2>11, <2>12 DEF PmmInv
<1>8. CASE MarkBit
  <2>1. /\ pmm_bitmap' = [pmm_bitmap EXCEPT ![rbegin \div WordBits] = @ \cup {rbegin % WordBits}]
        /\ rlen' = rlen - 1 /\ rbegin' = rbegin + 1
    BY <1>8 DEF MarkBit
  <2>2. /\ pmm_bitmap' \in Bitmaps /\ DOMAIN pmm_bitmap' = DOMAIN pmm_bitmap
        /\ FreePages' = FreePages \cup {rbegin}
    BY Zenon, <1>4, <1>6, <2>1, SetBit DEF FreePages
  <2>3. rbegin \notin FreePages
    BY <1>1, <1>4, <1>5
  <2>4. IsFiniteSet(FreePages') /\ Cardinality(FreePages') = Cardinality(FreePages) + 1
    BY Zenon, <1>4, <2>2, <2>3, FS_AddElement
  <2>5. FreePages' = Visited \cup (regions[region].begin .. (rbegin' - 1))
    <3>1. regions[region].begin .. (rbegin' - 1) = (regions[region].begin .. (rbegin - 1)) \cup {rbegin}
      BY <1>4, <2>1
    <3> QED BY <3>1, <1>4, <2>2
  <2>6. rlen' \in Nat /\ rbegin' \in Nat /\ rbegin' + rlen' = regions[region].end
        /\ regions[region].begin <= rbegin'
    BY <1>1, <1>4, <2>1
  <2>7. TypeOK' /\ BitmapInv'
    BY <1>1, <2>2, <2>6, BitmapType DEF PmmInv, TypeOK, BitmapInv
  <2>8. available' = Cardinality(FreePages') + rlen'
    BY <1>1, <1>4, <2>1, <2>4
  <2>9. BootInv'
    BY <1>1, <1>3, <1>4, <2>5, <2>6, <2>8 DEF PmmInv, BootInv
  <2>10. CountInv'
    BY <1>1, <2>4 DEF PmmInv, CountInv
  <2> QED BY <1>2, <2>7, <2>9, <2>10 DEF PmmInv
<1> QED BY <1>7, <1>8

\* pmm_allocate, pmm_free and the out-of-memory panic.
LEMMA RunStep ==
    ASSUME PmmInv, pmm_allocate \/ OutOfMemory \/ \E p \in owned : pmm_free(p)
    PROVE  PmmInv'
<1>1. /\ UNCHANGED <<entries, regions, region, rbegin, rlen>>
      /\ phase = "run" /\ phase' \in {"run", "panic"}
      /\ Managed' = Managed
      /\ UsableIndices(regions') = UsableIndices(regions)
  BY DEF pmm_allocate, pmm_free, OutOfMemory, locals, Managed, UsableIndices, PagesOf
<1>2. RegionsInv'
  BY <1>1, RegionsKept DEF PmmInv
<1>3. /\ Started /\ region > 1
      /\ FreePages \cap owned = {} /\ FreePages \cup owned = Managed
      /\ available = Cardinality(FreePages)
      /\ IsFiniteSet(FreePages) /\ IsFiniteSet(owned)
      /\ Cardinality(FreePages) \in Nat /\ Cardinality(owned) \in Nat
      /\ used \in Nat /\ used >= Cardinality(owned)
  BY <1>1, FS_CardinalityType DEF PmmInv, TypeOK, BootInv, CountInv, Started
<1>4. Started'
  BY <1>1, <1>3 DEF Started
<1>5. pmm_bitmap \in Bitmaps
  BY InvFacts
<1>6. CASE pmm_allocate
  <2>1. /\ available' = available - 1 /\ used' = used + 1 /\ phase' = "run"
    BY <1>6 DEF pmm_allocate
  <2>0. PICK w \in DOMAIN pmm_bitmap : \E b \in pmm_bitmap[w] :
           /\ pmm_bitmap' = [pmm_bitmap EXCEPT ![w] = @ \ {b}]
           /\ owned' = owned \cup {w * WordBits + b}
    BY Zenon, <1>6 DEF pmm_allocate
  <2>2. PICK b \in pmm_bitmap[w] :
           /\ pmm_bitmap' = [pmm_bitmap EXCEPT ![w] = @ \ {b}]
           /\ owned' = owned \cup {w * WordBits + b}
    BY Zenon, <2>0
  <2> DEFINE p == w * WordBits + b
  <2>3. /\ pmm_bitmap' \in Bitmaps /\ DOMAIN pmm_bitmap' = DOMAIN pmm_bitmap
        /\ p \in FreePages /\ FreePages' = FreePages \ {p}
    BY Zenon, <1>5, <2>2, ClearBit DEF FreePages
  <2>4. owned' = owned \cup {p}
    BY <2>2
  <2> HIDE DEF p
  <2>5. IsFiniteSet(FreePages') /\ Cardinality(FreePages') = Cardinality(FreePages) - 1
    BY <1>3, <2>3, FS_RemoveElement
  <2>6. IsFiniteSet(owned') /\ Cardinality(owned') = Cardinality(owned) + 1
    BY <1>3, <2>3, <2>4, FS_AddElement
  <2>7. FreePages' \cap owned' = {} /\ FreePages' \cup owned' = Managed
    BY Zenon, <1>3, <2>3, <2>4
  <2>8. Cardinality(FreePages') \in Nat
    BY <2>5, FS_CardinalityType
  <2>9. TypeOK' /\ BitmapInv'
    BY <1>1, <1>3, <2>1, <2>3, <2>5, <2>8, BitmapType DEF PmmInv, TypeOK, BitmapInv
  <2>10. BootInv'
    BY Zenon, <1>1, <1>3, <1>4, <2>1, <2>5, <2>7 DEF PmmInv, BootInv
  <2>11. CountInv'
    BY <1>3, <2>1, <2>5, <2>6 DEF CountInv
  <2> QED BY <1>2, <2>9, <2>10, <2>11 DEF PmmInv
<1>7. CASE OutOfMemory
  <2> USE <1>7 DEF OutOfMemory
  <2>1. FreePages = {} /\ FreePages' = FreePages
    BY DEF FreePages, PagesIn
  <2>2. TypeOK' /\ BitmapInv'
    BY Zenon, <1>1 DEF PmmInv, TypeOK, BitmapInv
  <2>3. BootInv'
    BY Zenon, <1>1, <1>3, <1>4, <2>1 DEF PmmInv, BootInv
  <2>4. CountInv'
    BY <2>1 DEF PmmInv, CountInv
  <2> QED BY <1>2, <2>2, <2>3, <2>4 DEF PmmInv
<1>8. ASSUME NEW p \in owned, pmm_free(p) PROVE PmmInv'
  <2>1. /\ pmm_bitmap' = [pmm_bitmap EXCEPT ![p \div WordBits] = @ \cup {p % WordBits}]
        /\ owned' = owned \ {p} /\ used' = used - 1 /\ available' = available + 1
        /\ phase' = "run"
    BY <1>8 DEF pmm_free
  <2>2. p \in Managed /\ p \in Nat /\ p \notin FreePages
    BY <1>3, InvFacts
  <2>3. p \div WordBits \in DOMAIN pmm_bitmap
    BY <1>1, <2>2 DEF PmmInv, BitmapInv
  <2>4. /\ pmm_bitmap' \in Bitmaps /\ DOMAIN pmm_bitmap' = DOMAIN pmm_bitmap
        /\ FreePages' = FreePages \cup {p}
    BY Zenon, <1>5, <2>1, <2>2, <2>3, SetBit DEF FreePages
  <2>5. IsFiniteSet(FreePages') /\ Cardinality(FreePages') = Cardinality(FreePages) + 1
    BY Zenon, <1>3, <2>2, <2>4, FS_AddElement
  <2>6. IsFiniteSet(owned') /\ Cardinality(owned') = Cardinality(owned) - 1
    BY <1>3, <2>1, FS_RemoveElement
  <2>7. used' \in Nat
    <3>1. Cardinality(owned') \in Nat
      BY <2>6, FS_CardinalityType
    <3> QED BY <3>1, <1>3, <2>1, <2>6
  <2>8. FreePages' \cap owned' = {} /\ FreePages' \cup owned' = Managed
    BY <1>3, <2>1, <2>4
  <2>9. TypeOK' /\ BitmapInv'
    <3>1. pmm_bitmap' \in [DOMAIN pmm_bitmap' -> SUBSET (0 .. (WordBits - 1))]
      BY <2>4, BitmapType
    <3>2. available' \in Nat
      BY <1>3, <2>1
    <3>3. BitmapInv'
      BY Zenon, <1>1, <2>4 DEF PmmInv, BitmapInv
    <3> QED BY <1>1, <2>1, <2>7, <3>1, <3>2, <3>3 DEF PmmInv, TypeOK
  <2>10. BootInv'
    BY Zenon, <1>1, <1>3, <1>4, <2>1, <2>5, <2>8 DEF PmmInv, BootInv
  <2>11. CountInv'
    BY <1>3, <2>1, <2>5, <2>6 DEF CountInv
  <2> QED BY <1>2, <2>9, <2>10, <2>11 DEF PmmInv
<1> QED BY <1>6, <1>7, <1>8

\* A step that changes nothing keeps the invariant.
LEMMA StutterStep == ASSUME PmmInv, UNCHANGED vars PROVE PmmInv'
<1>1. /\ FreePages' = FreePages /\ Managed' = Managed /\ Visited' = Visited
      /\ UsableIndices(regions') = UsableIndices(regions) /\ Started' = Started
  BY DEF vars, FreePages, Managed, Visited, UsableIndices, PagesOf, Started
<1>2. RegionsInv'
  BY RegionsKept DEF PmmInv, vars
<1>3. TypeOK' /\ BitmapInv' /\ CountInv'
  BY <1>1 DEF PmmInv, vars, TypeOK, BitmapInv, CountInv
<1>4. BootInv'
  BY <1>1 DEF PmmInv, vars, BootInv
<1> QED BY <1>2, <1>3, <1>4 DEF PmmInv
-----------------------------------------------------------------------------
(* The theorems.                                                           *)

\* The invariant holds in every reachable state.
THEOREM PmmInvariant == Spec => []PmmInv
<1>1. PmmInv /\ [Next]_vars => PmmInv'
  BY ReserveStep, ScanStep, MarkStep, RunStep, StutterStep DEF Next, Boot
<1> QED BY InitPmmInv, <1>1, PTL DEF Spec

\* Type correctness, counters that never wrap below zero included.
THEOREM TypeCorrect == Spec => []TypeOK
<1>1. PmmInv => TypeOK
  BY DEF PmmInv
<1> QED BY PmmInvariant, <1>1, PTL

\* pmm_allocate never hands out page 0, reserved memory or the bitmap.
THEOREM NeverHandsOutReserved == Spec => []OnlyUsableMemory
<1>1. PmmInv => OnlyUsableMemory
  <2> SUFFICES ASSUME PmmInv, NEW p \in FreePages \cup owned PROVE p \notin OffLimits
    BY DEF OnlyUsableMemory
  <2>1. p \in Managed
    <3>1. CASE Started
      BY <3>1 DEF PmmInv, BootInv
    <3>2. CASE ~Started
      <4>1. p \in FreePages
        BY <3>2 DEF PmmInv, BootInv
      <4>2. phase \in {"scan", "mark"}
        BY <4>1, <3>2 DEF PmmInv, BootInv, TypeOK, Started
      <4>3. p \in Visited \/ (phase = "mark" /\ p \in regions[region].begin .. (rbegin - 1))
        BY <4>1, <4>2 DEF PmmInv, BootInv
      <4>4. Visited \subseteq Managed
        BY DEF Visited, Managed
      <4>5. ASSUME phase = "mark", p \in regions[region].begin .. (rbegin - 1)
            PROVE  p \in Managed
        <5>1. region \in UsableIndices(regions) /\ rbegin + rlen = regions[region].end
              /\ rbegin \in Nat /\ rlen \in Nat
          BY <4>5 DEF PmmInv, BootInv, TypeOK
        <5>2. regions[region].begin \in Nat /\ regions[region].end \in Nat
          BY Zenon, <5>1, InvFacts DEF UsableIndices
        <5>3. p \in PagesOf(regions, region)
          BY <5>1, <5>2, <4>5 DEF PagesOf
        <5> QED BY <5>1, <5>3 DEF Managed
      <4> QED BY <4>3, <4>4, <4>5
    <3> QED BY <3>1, <3>2
  <2>2. PICK i \in UsableIndices(regions) : p \in PagesOf(regions, i)
    BY Zenon, <2>1 DEF Managed
  <2>3. /\ regions[i].begin \in Nat /\ regions[i].end \in Nat /\ regions[i].begin >= 1
        /\ p \in Nat /\ regions[i].begin <= p /\ p < regions[i].end
    BY <2>2, InvFacts DEF PmmInv, RegionsInv, PagesOf, UsableIndices
  <2>4. p # 0
    BY <2>3
  <2>5. p \notin BootAllocated
    <3>1. ASSUME NEW j \in DOMAIN regions, regions[j].type = "ALLOCATED"
          PROVE  p \notin PagesOf(regions, j)
      <4>1. Apart(regions[i].begin, regions[i].end, regions[j].begin, regions[j].end)
        BY <3>1 DEF PmmInv, RegionsInv
      <4>2. regions[j].begin \in Nat /\ regions[j].end \in Nat
        BY InvFacts
      <4> QED BY <4>1, <4>2, <2>3 DEF Apart, PagesOf
    <3> QED BY <3>1 DEF BootAllocated
  <2>6. ASSUME NEW j \in DOMAIN entries, entries[j].type # "USABLE"
        PROVE  p \notin entries[j].base .. (entries[j].end - 1)
    <3>1. Apart(regions[i].begin, regions[i].end, entries[j].base, entries[j].end)
      BY <2>6 DEF PmmInv, RegionsInv
    <3>2. entries \in Seq(Entries)
      BY PmmAssumption DEF PmmInv, TypeOK
    <3>3. entries[j] \in Entries
      BY <3>2, ElementOfSeq
    <3>4. entries[j].base \in Nat /\ entries[j].end \in Nat
      BY <3>3 DEF Entries
    <3> QED BY <3>1, <3>4, <2>3 DEF Apart
  <2> QED BY <2>4, <2>5, <2>6 DEF OffLimits
<1> QED BY PmmInvariant, <1>1, PTL

\* After pmm_init every page of usable memory is free or owned, never both.
THEOREM PagesPartitioned == Spec => []NoPageLostOrShared
<1>1. PmmInv => NoPageLostOrShared
  BY DEF PmmInv, BootInv, NoPageLostOrShared
<1> QED BY PmmInvariant, <1>1, PTL

\* Together: what pmm_allocate hands out is usable memory, and to one owner.
THEOREM PagesAreSafe == Spec => []PagesSafe
<1>1. OnlyUsableMemory /\ NoPageLostOrShared => PagesSafe
  BY DEF PagesSafe
<1> QED BY NeverHandsOutReserved, PagesPartitioned, <1>1, PTL

\* physmem_available is the number of free pages.
THEOREM FreeCounter == Spec => []FreeCountExact
<1>1. PmmInv => FreeCountExact
  BY DEF PmmInv, BootInv, FreeCountExact
<1> QED BY PmmInvariant, <1>1, PTL

\* The out-of-memory panic means that every usable page is owned.
THEOREM PanicExhausted == Spec => []PanicOnlyWhenExhausted
<1>1. PmmInv => PanicOnlyWhenExhausted
  BY DEF PmmInv, BootInv, PanicOnlyWhenExhausted
<1> QED BY PmmInvariant, <1>1, PTL

-----------------------------------------------------------------------------
(* physmem_used.                                                           *)

\* What the loop of pmm_init has counted, plus the pages handed out since.
UsedInv ==
    /\ IsFiniteSet(BootCounted(region))
    /\ used = Cardinality(owned) + Cardinality(BootCounted(region))
    /\ Started => region > Len(regions)

\* Nothing is counted before the loop of pmm_init starts.
LEMMA NothingCounted ==
    ASSUME PmmInv, region = 1
    PROVE  BootCounted(region) = {}
<1>1. \A j \in DOMAIN regions : ~(j < region)
  BY DEF PmmInv, TypeOK
<1> QED BY <1>1 DEF BootCounted

\* A region counts for as many pages as it is long.
LEMMA RegionCount ==
    ASSUME NEW b \in Nat, NEW e \in Nat, b <= e, NEW i
    PROVE  /\ IsFiniteSet({i} \X (b .. (e - 1)))
           /\ Cardinality({i} \X (b .. (e - 1))) = e - b
<1>1. /\ IsFiniteSet(b .. (e - 1))
      /\ Cardinality(b .. (e - 1)) = IF b > e - 1 THEN 0 ELSE (e - 1) - b + 1
  BY FS_Interval
<1>2. IsFiniteSet({i}) /\ Cardinality({i}) = 1
  BY FS_Singleton
<1>3. /\ IsFiniteSet({i} \X (b .. (e - 1)))
      /\ Cardinality({i} \X (b .. (e - 1))) = Cardinality({i}) * Cardinality(b .. (e - 1))
  BY Zenon, <1>1, <1>2, FS_Product
<1>4. Cardinality(b .. (e - 1)) = e - b
  BY <1>1
<1> QED BY <1>2, <1>3, <1>4

\* One iteration of the loop counts its region when it is allocated.
LEMMA ScanCounts == ASSUME PmmInv, UsedInv, ScanOther PROVE UsedInv'
<1> USE DEF ScanOther
<1>1. /\ region \in DOMAIN regions /\ region \in Nat
      /\ regions[region].begin \in Nat /\ regions[region].end \in Nat
      /\ regions[region].begin <= regions[region].end
  BY InvFacts DEF PmmInv, TypeOK, RegionsInv, BootInv
<1>2. ~Started'
  BY DEF Started
<1> DEFINE C == BootCounted(region)
           R == {region} \X PagesOf(regions, region)
<1>3. IsFiniteSet(C) /\ Cardinality(C) \in Nat
      /\ Cardinality(owned) \in Nat /\ used = Cardinality(owned) + Cardinality(C)
  BY FS_CardinalityType DEF PmmInv, CountInv, UsedInv
<1>4. CASE regions[region].type = "ALLOCATED"
  <2>1. BootCounted(region)' = C \cup R
    <3>1. {j \in DOMAIN regions : j < region + 1 /\ regions[j].type = "ALLOCATED"} =
          {j \in DOMAIN regions : j < region /\ regions[j].type = "ALLOCATED"} \cup {region}
      BY <1>1, <1>4 DEF PmmInv, TypeOK
    <3> QED BY <3>1 DEF BootCounted, PagesOf
  <2>2. C \cap R = {}
    BY <1>1 DEF BootCounted, PmmInv, TypeOK
  <2>3. IsFiniteSet(R) /\ Cardinality(R) = regions[region].end - regions[region].begin
    BY Zenon, <1>1, RegionCount DEF PagesOf
  <2> HIDE DEF C, R
  <2>4. IsFiniteSet(C \cup R) /\ Cardinality(C \cup R) = Cardinality(C) + Cardinality(R) - Cardinality({})
    BY <1>3, <2>2, <2>3, FS_Union
  <2>5. Cardinality({}) = 0
    BY Zenon, FS_EmptySet
  <2>6. used' = used + (regions[region].end - regions[region].begin) /\ owned' = owned
    BY <1>4
  <2>7. used' = Cardinality(owned) + Cardinality(C \cup R)
    BY ONLY <1>1, <1>3, <2>3, <2>4, <2>5, <2>6
  <2> QED BY ONLY Zenon, <1>2, <2>1, <2>4, <2>6, <2>7 DEF UsedInv
<1>5. CASE regions[region].type # "ALLOCATED"
  <2>1. BootCounted(region)' = C
    <3>1. {j \in DOMAIN regions : j < region + 1 /\ regions[j].type = "ALLOCATED"} =
          {j \in DOMAIN regions : j < region /\ regions[j].type = "ALLOCATED"}
      BY <1>1, <1>5 DEF PmmInv, TypeOK
    <3> QED BY <3>1 DEF BootCounted, PagesOf
  <2> QED BY Zenon, <1>2, <1>3, <1>5, <2>1 DEF UsedInv
<1> QED BY <1>4, <1>5

\* Every other step of booting leaves physmem_used alone and skips no region
\* that is allocated.
LEMMA BootCounts == ASSUME PmmInv, PmmInv', UsedInv, Boot PROVE UsedInv'
<1>1. CASE Reserve \/ ReservePanic
  <2>1. region = 1 /\ region' = 1 /\ used' = used /\ owned' = owned /\ ~Started'
    BY <1>1 DEF Reserve, ReservePanic, locals, PmmInv, BootInv, Started
  <2>2. BootCounted(region) = {} /\ BootCounted(region)' = {}
    <3>1. \A j \in DOMAIN regions' : ~(j < region')
      BY <2>1 DEF PmmInv, TypeOK
    <3> QED BY Zenon, <2>1, <3>1, NothingCounted DEF BootCounted
  <2> QED BY Zenon, <2>1, <2>2, FS_EmptySet DEF UsedInv
<1>2. CASE ScanOther
  BY <1>2, ScanCounts
<1>3. CASE ScanUsable \/ MarkWord \/ MarkBit \/ InitDone
  <2>1. /\ regions' = regions /\ region' = region /\ used' = used /\ owned' = owned
        /\ Started' => region > Len(regions)
    BY <1>3 DEF ScanUsable, MarkWord, MarkBit, InitDone, locals, Started
  <2>2. BootCounted(region)' = BootCounted(region)
    BY <2>1 DEF BootCounted, PagesOf
  <2> QED BY Zenon, <2>1, <2>2 DEF UsedInv
<1>4. CASE MarkReturn
  <2>1. /\ regions' = regions /\ region' = region + 1 /\ used' = used /\ owned' = owned
        /\ ~Started'
        /\ region \in UsableIndices(regions)
    BY <1>4 DEF MarkReturn, Started, PmmInv, BootInv
  <2>2. {j \in DOMAIN regions : j < region + 1 /\ regions[j].type = "ALLOCATED"} =
        {j \in DOMAIN regions : j < region /\ regions[j].type = "ALLOCATED"}
    BY <2>1 DEF UsableIndices, PmmInv, TypeOK
  <2>3. BootCounted(region)' = BootCounted(region)
    BY <2>1, <2>2 DEF BootCounted, PagesOf
  <2> QED BY Zenon, <2>1, <2>3 DEF UsedInv
<1> QED BY <1>1, <1>2, <1>3, <1>4 DEF Boot

\* pmm_allocate and pmm_free count the page they move.
LEMMA RunCounts ==
    ASSUME PmmInv, UsedInv, pmm_allocate \/ OutOfMemory \/ \E p \in owned : pmm_free(p)
    PROVE  UsedInv'
<1>1. /\ regions' = regions /\ region' = region /\ phase = "run"
      /\ region > Len(regions)
  BY DEF pmm_allocate, OutOfMemory, pmm_free, locals, UsedInv, Started
<1>2. BootCounted(region)' = BootCounted(region)
  BY <1>1 DEF BootCounted, PagesOf
<1>3. /\ IsFiniteSet(owned) /\ Cardinality(owned) \in Nat
      /\ Cardinality(BootCounted(region)) \in Nat
      /\ FreePages \cap owned = {}
  BY Zenon, <1>1, FS_CardinalityType DEF PmmInv, CountInv, BootInv, UsedInv, Started
<1>4. CASE pmm_allocate
  <2>1. PICK w \in DOMAIN pmm_bitmap : \E b \in pmm_bitmap[w] : owned' = owned \cup {w * WordBits + b}
    BY <1>4 DEF pmm_allocate
  <2>2. PICK b \in pmm_bitmap[w] : owned' = owned \cup {w * WordBits + b}
    BY <2>1
  <2>3. w * WordBits + b \in FreePages
    BY DEF FreePages, PagesIn
  <2>4. Cardinality(owned') = Cardinality(owned) + 1
    BY Zenon, <1>3, <2>2, <2>3, FS_AddElement
  <2>5. used' = used + 1
    BY Zenon, <1>4 DEF pmm_allocate
  <2> QED BY <1>1, <1>2, <1>3, <2>4, <2>5 DEF UsedInv
<1>5. CASE OutOfMemory
  BY <1>1, <1>2, <1>5 DEF OutOfMemory, UsedInv
<1>6. ASSUME NEW p \in owned, pmm_free(p) PROVE UsedInv'
  <2>1. owned' = owned \ {p} /\ used' = used - 1
    BY Zenon, <1>6 DEF pmm_free
  <2>2. Cardinality(owned') = Cardinality(owned) - 1
    BY <1>3, <2>1, FS_RemoveElement
  <2> QED BY <1>1, <1>2, <1>3, <2>1, <2>2 DEF UsedInv
<1> QED BY <1>4, <1>5, <1>6

\* physmem_used is the number of pages that are owned plus those of the regions
\* that were allocated at boot.
THEOREM UsedCounter == Spec => []UsedCountExact
<1>1. Init => UsedInv
  <2> SUFFICES ASSUME Init PROVE UsedInv
    OBVIOUS
  <2>1. region = 1 /\ used = 0 /\ owned = {} /\ ~Started
    BY DEF Init, Started
  <2> QED BY <2>1, InitPmmInv, NothingCounted, FS_EmptySet DEF UsedInv
<1>2. PmmInv /\ PmmInv' /\ UsedInv /\ [Next]_vars => UsedInv'
  <2>1. ASSUME UsedInv, UNCHANGED vars PROVE UsedInv'
    BY <2>1 DEF UsedInv, vars, BootCounted, PagesOf, Started
  <2> QED BY Zenon, <2>1, BootCounts, RunCounts DEF Next
<1>3. PmmInv /\ UsedInv => UsedCountExact
  <2> SUFFICES ASSUME PmmInv, UsedInv, Started
               PROVE  BootCounted(Len(regions) + 1) = BootCounted(region)
    BY DEF UsedCountExact, UsedInv
  <2>1. {j \in DOMAIN regions : j < region /\ regions[j].type = "ALLOCATED"} =
        {j \in DOMAIN regions : j < Len(regions) + 1 /\ regions[j].type = "ALLOCATED"}
    BY DEF UsedInv, PmmInv, TypeOK
  <2> QED BY <2>1 DEF BootCounted
<1> QED BY PmmInvariant, <1>1, <1>2, <1>3, PTL DEF Spec

\* The counters that the kernel reports are exact, do not wrap below zero, and
\* the out-of-memory panic comes when they say that nothing is left.
THEOREM CountersAreExact == Spec => []CountersExact
<1>1. TypeOK /\ FreeCountExact /\ UsedCountExact /\ PanicOnlyWhenExhausted => CountersExact
  BY DEF CountersExact
<1> QED BY TypeCorrect, FreeCounter, UsedCounter, PanicExhausted, <1>1, PTL
-----------------------------------------------------------------------------
\* The bitmap allocator implements the abstract page allocator: pmm_init is its
\* Setup, pmm_allocate and pmm_free are its Allocate and Free, and every other
\* step is invisible to it.
THEOREM Refinement == Spec => ImplementsPageAllocator
<1>1. Init => Pages!Init
  BY DEF Init, Pages!Init, Started
<1>2. PmmInv /\ [Next]_vars => [Pages!Next]_Pages!vars
  <2> SUFFICES ASSUME PmmInv, [Next]_vars PROVE [Pages!Next]_Pages!vars
    OBVIOUS
  <2>1. CASE InitDone
    <3>1. ~Started /\ Started' /\ FreePages' = FreePages /\ owned' = owned
      BY <2>1 DEF InitDone, Started, FreePages, PmmInv, BootInv
    <3>2. FreePages \in SUBSET Nat
      BY InvFacts, FreePageBit DEF FreePages
    <3> QED BY Zenon, <3>1, <3>2 DEF Pages!Next, Pages!Setup
  <2>2. CASE Reserve \/ ReservePanic \/ ScanOther \/ ScanUsable \/ MarkWord \/ MarkBit \/ MarkReturn
    <3>1. ~Started /\ owned' = owned
      BY Zenon, <2>2 DEF Started, Reserve, ReservePanic, ScanOther, ScanUsable, MarkWord, MarkBit, MarkReturn
    <3>2. ~Started'
      BY <2>2 DEF Started, Reserve, ReservePanic, ScanOther, ScanUsable, MarkWord, MarkBit,
                  MarkReturn, locals, PmmInv, BootInv
    <3>3. Started' = Started
      BY <3>1, <3>2 DEF Started
    <3>4. (IF Started THEN FreePages ELSE {})' = IF Started THEN FreePages ELSE {}
      BY <3>1, <3>2
    <3> QED BY Zenon, <3>1, <3>3, <3>4 DEF Pages!vars
  <2>3. CASE pmm_allocate
    <3>1. Started /\ Started'
      BY <2>3 DEF pmm_allocate, Started
    <3>2. PICK w \in DOMAIN pmm_bitmap : \E b \in pmm_bitmap[w] :
             /\ pmm_bitmap' = [pmm_bitmap EXCEPT ![w] = @ \ {b}]
             /\ owned' = owned \cup {w * WordBits + b}
      BY Zenon, <2>3 DEF pmm_allocate
    <3>3. PICK b \in pmm_bitmap[w] :
             /\ pmm_bitmap' = [pmm_bitmap EXCEPT ![w] = @ \ {b}]
             /\ owned' = owned \cup {w * WordBits + b}
      BY Zenon, <3>2
    <3>4. /\ w * WordBits + b \in FreePages
          /\ FreePages' = FreePages \ {w * WordBits + b}
      BY Zenon, <3>3, InvFacts, ClearBit DEF FreePages
    <3>5. Pages!Allocate(w * WordBits + b)
      BY <3>1, <3>3, <3>4 DEF Pages!Allocate
    <3> QED BY <3>1, <3>4, <3>5 DEF Pages!Next
  <2>4. CASE OutOfMemory
    <3>1. Started /\ Started' /\ FreePages' = FreePages /\ owned' = owned
      BY Zenon, <2>4 DEF OutOfMemory, Started, FreePages, locals, PmmInv, BootInv
    <3> QED BY <3>1 DEF Pages!vars
  <2>5. ASSUME NEW p \in owned, pmm_free(p) PROVE Pages!Next
    <3>1. Started /\ Started' /\ owned' = owned \ {p}
      BY <2>5 DEF pmm_free, Started
    <3>2. p \in Managed /\ p \in Nat
      BY <3>1, InvFacts DEF PmmInv, BootInv
    <3>3. p \div WordBits \in DOMAIN pmm_bitmap
      BY Zenon, <2>5, <3>2 DEF pmm_free, PmmInv, BitmapInv
    <3>4. FreePages' = FreePages \cup {p}
      BY Zenon, <2>5, <3>2, <3>3, InvFacts, SetBit DEF pmm_free, FreePages
    <3>5. Pages!Free(p)
      BY <3>1, <3>4 DEF Pages!Free
    <3> QED BY <3>5 DEF Pages!Next
  <2>6. CASE UNCHANGED vars
    BY <2>6 DEF vars, Pages!vars, Started, FreePages
  <2> QED BY <2>1, <2>2, <2>3, <2>4, <2>5, <2>6 DEF Next, Boot
<1> QED BY PmmInvariant, <1>1, <1>2, PTL DEF Spec, ImplementsPageAllocator, Pages!Spec
=============================================================================
