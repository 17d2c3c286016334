--------------------------------- MODULE Fat ---------------------------------
(***************************************************************************)
(* The FAT file system (fs/fat/fatfs.c): the layout that a mount reads     *)
(* from the first sector, and the listing of the root directory.  A file   *)
(* has a short entry, and before it the entries of its long name, the last *)
(* part of the name first.                                                 *)
(***************************************************************************)
EXTENDS Integers, Sequences, FiniteSets, SequencesExt

CONSTANTS Entries,   \* entries in a sector: 16
          MaxFiles,  \* bound: files in the directory
          PerCluster,\* sectors in a cluster
          PageSize,  \* size of the mount's buffer, in 512 bytes: 8
          Rooms,     \* sizes of the buffer of a listing
          NameRoom   \* entries of a long name that fit fname: 4

VARIABLES bpb,       \* the parameters in the first sector; sector: its size in the blocks of
                     \* the device, block: the size of those, in the 512 bytes of clu_data
          files,     \* files of the root directory and gaps between them
          sb,        \* what fatfs_super_init has found
          offset,    \* the entry that fatfs_getdents is at
          room, written,
          out,       \* the records in the buffer
          state

vars == <<bpb, files, sb, offset, room, written, out, state>>

\* A file with n entries of its long name; upper: the first byte of its short name
\* has the bit that marks the last entry of a long one.
File == [n : 0 .. 3, upper : BOOLEAN]
Gap == [n |-> -1, upper |-> TRUE] \* a deleted entry begins with 0xe5
Block(i, f) ==
    IF f = Gap THEN <<[k |-> "free", i |-> i, last |-> TRUE]>>
    ELSE [j \in 1 .. f.n + 1 |->
            IF j <= f.n THEN [k |-> "long", i |-> i, last |-> j = 1]
            ELSE [k |-> "short", i |-> i, last |-> f.upper]]
AllEntries == FlattenSeq([i \in DOMAIN files |-> Block(i, files[i])])
EndMark == [k |-> "end", i |-> 0, last |-> FALSE]
\* The sector of the directory; the one after it is not read.
Sector == [j \in 1 .. Entries |-> IF j <= Len(AllEntries) THEN AllEntries[j] ELSE EndMark]
NoSb == [data |-> 0, spc |-> 0, root |-> 0]

Init ==
    /\ bpb \in [reserved : {1, 2}, spc : PerCluster, fats : {2}, size : {3}, fat16 : BOOLEAN, root : {2, 3},
              sector : {1, 2}, block : {1, 2, PageSize}]
    /\ files \in UNION {[1 .. n -> File \cup {Gap}] : n \in 0 .. MaxFiles}
    /\ Len(AllEntries) <= Entries
    /\ sb = NoSb /\ offset = 0 /\ room = 0 /\ written = 0 /\ out = <<>> /\ state = "new"
-----------------------------------------------------------------------------
\* Mutant: only one of the file allocation tables is passed over.
FatsOne(b) == b.size
Fats(b) == b.fats * b.size
\* fat_offset, which is in sectors only where a cluster is one sector.
FatOffset(b) == b.reserved * b.spc

\* The two blocks that a mount reads fit its page.
Fits(b) == 2 * b.block <= PageSize

\* fatfs_super_init: two blocks are read into a page, whatever their size; FAT16 is
\* refused.  Sectors are taken for blocks.
fatfs_super_init ==
    /\ state = "new"
    /\ \/ ~Fits(bpb) /\ state' = "undefined" /\ UNCHANGED sb
       \/ Fits(bpb) /\ bpb.fat16 /\ state' = "refused" /\ UNCHANGED sb
       \/ /\ Fits(bpb) /\ ~bpb.fat16 /\ state' = "mounted"
          /\ sb' = [data |-> FatOffset(bpb) + Fats(bpb), spc |-> bpb.spc, root |-> bpb.root]
    /\ UNCHANGED <<bpb, files, offset, room, written, out>>

RootAt == sb.data + (sb.root - 2) * sb.spc
RealRoot == (bpb.reserved + bpb.fats * bpb.size + (bpb.root - 2) * bpb.spc) * bpb.sector

\* fatfs_getdents: a block is read onto the stack, whatever its size; where the layout
\* was computed wrongly, it is another one.
fatfs_getdents(r) ==
    /\ state \in {"mounted", "listed"}
    /\ state' = CASE bpb.block > 1 -> "undefined"
                  [] bpb.block = 1 /\ RootAt = RealRoot -> "listing"
                  [] OTHER -> "elsewhere"
    /\ room' = r /\ offset' = 0 /\ written' = 0 /\ out' = <<>>
    /\ UNCHANGED <<bpb, files, sb>>

\* Mutant: the mark is looked for after the entry has been passed.
RunOn == LET ends == {j \in offset + 2 .. Entries : Sector[j].last}
         IN  IF ends = {} THEN Entries + 1
             ELSE (CHOOSE j \in ends : \A k \in ends : j <= k) - offset
\* The entries of a long name, from offset to the first that is marked last.
Run == LET ends == {j \in offset + 1 .. Entries : Sector[j].last}
       IN  IF ends = {} THEN Entries + 1
           ELSE (CHOOSE j \in ends : \A k \in ends : j <= k) - offset

\* Mutant: the short entry after a long name is not passed over.
NextShort(n) == offset + n
\* The entry after the name: offset counts the entries of a long name and once more.
NextEntry(n) == offset + n + 1
\* Mutant: a record is written although it begins behind the buffer.
RoomAlways == TRUE
Room == written < room

RecordSize(n) == 1 + n

\* A round of the loop.  An entry behind the sector is whatever the stack holds.
Round ==
    LET e == Sector[offset + 1]
        Put(i, whole, n) == /\ out' = Append(out, [i |-> i, whole |-> whole])
                            /\ written' = written + RecordSize(n)
    IN  /\ state = "listing" /\ Room
        /\ IF offset >= Entries
           THEN state' = "undefined" /\ UNCHANGED <<offset, out, written>>
           ELSE CASE e.k = "end" -> state' = "listed" /\ UNCHANGED <<offset, out, written>>
                  [] e.k = "free" -> offset' = offset + 1 /\ UNCHANGED <<state, out, written>>
                  [] e.k = "short" -> /\ Put(e.i, files[e.i].n = 0, 1)
                                      /\ offset' = offset + 1 /\ UNCHANGED state
                  [] e.k = "long" -> IF Run > NameRoom \/ Run > Entries
                                     THEN state' = "undefined" /\ UNCHANGED <<offset, out, written>>
                                     ELSE /\ Put(e.i, files[e.i].n = 1, 2 * Run)
                                          /\ offset' = NextEntry(Run) /\ UNCHANGED state
        /\ UNCHANGED <<bpb, files, sb, room>>

Full ==
    /\ state = "listing" /\ ~Room /\ state' = "listed"
    /\ UNCHANGED <<bpb, files, sb, offset, room, written, out>>

Next ==
    \/ fatfs_super_init \/ Round \/ Full
    \/ \E r \in Rooms : fatfs_getdents(r)
Spec == Init /\ [][Next]_vars
-----------------------------------------------------------------------------
\* Type invariant.
TypeOK ==
    /\ state \in {"new", "refused", "mounted", "listing", "elsewhere", "listed", "undefined"}
    /\ offset \in 0 .. Entries + 1 /\ Len(out) <= Entries

Simple(f) == f.n <= 1
Real == SelectSeq([i \in DOMAIN files |-> IF files[i] = Gap THEN 0 ELSE i], LAMBDA i : i # 0)
\* The files up to the first one with a long name of several entries.
Leading == SelectSeq(Real, LAMBDA i : \A j \in 1 .. i : Simple(files[j]))

\* The files before the first whose long name takes more than one entry are listed
\* once each, in order and with their whole name, as far as the buffer goes; after a
\* listing that had room and met no such name nothing else is.
ListingExact ==
    state \in {"listing", "listed"} =>
        /\ \A k \in DOMAIN out : k <= Len(Leading) => out[k] = [i |-> Leading[k], whole |-> TRUE]
        /\ state = "listed" /\ written < room => Len(out) >= Len(Leading)
        /\ Leading = Real => Len(out) <= Len(Real)

\* The root directory is read from its own place where a cluster is one sector and a
\* sector is one block of the device.
RootWhereItIs == state = "elsewhere" => bpb.spc # 1 \/ bpb.sector # 1

\* A listing writes behind its buffer by less than one record, and only by the last.
OverrunOneRecord == written < room + RecordSize(2 * NameRoom)

\* Memory behind the sector, behind the room for a name or behind the buffer of a
\* read is touched only for a long name of three entries or more, a directory that
\* fills its sector, or a device whose blocks have more than 512 bytes.
UndefinedOnlyWhen ==
    state = "undefined" =>
        \/ Len(AllEntries) = Entries \/ \E i \in DOMAIN files : files[i].n >= 3
        \/ bpb.block > 1
=============================================================================
