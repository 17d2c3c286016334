------------------------------- MODULE Ramfs -------------------------------
(***************************************************************************)
(* The contents of a file of ramfs (fs/ramfs/ramfs.c): a list of pages that*)
(* read and write walk under the inode's lock, and that a page fault in a  *)
(* mapping walks without it.  Several open files share the inode; each has *)
(* its position (vfs_seek).  Module ByteFile says what this amounts to.    *)
(***************************************************************************)
EXTENDS Integers, SequencesExt, FiniteSetsExt

CONSTANTS Page,       \* bound: bytes of a page, 4096 in the code
          MaxPages,   \* bound: pages of the file
          Lengths,    \* lengths of reads and writes, 0 among them
          Values,     \* bytes that are written
          Fds,        \* files open on the inode
          Junk, Zero  \* a byte of an uninitialised page, and 0

VARIABLES pages,   \* inode->data->pages, <<>> also when data is null
          size,    \* inode->size
          pos,     \* file->pos
          locked,  \* inode->lock
          out,     \* what the last read returned
          undef    \* why the file is not followed from here on

vars == <<pages, size, pos, locked, out, undef>>

Offsets == 0 .. Page - 1
Positions == -1 .. Page * MaxPages   \* -1: anywhere before the start
NewPage == [o \in Offsets |-> Junk]

Init ==
    /\ pages = <<>> /\ size = 0 /\ pos = [f \in Fds |-> 0]
    /\ locked = FALSE /\ out = <<>> /\ undef = "no"

\* A call that has the inode's lock and finds its way.
Enter == undef = "no" /\ ~locked

\* vfs_seek with SEEK_SET, SEEK_CUR or SEEK_END: any position, also a negative one.
vfs_seek(f, p) ==
    /\ undef = "no"
    /\ pos' = [pos EXCEPT ![f] = p]
    /\ UNCHANGED <<pages, size, locked, out, undef>>

\* Mutant: one page less when the length is a multiple of a page and a bit.
GrowShort(wr_len) == IF wr_len > size THEN (wr_len - size) \div Page ELSE 0
\* The pages added: one for each started page past the size.
Grow(wr_len) == IF wr_len > size THEN (wr_len - size + Page - 1) \div Page ELSE 0

\* The copying loops: from page index pg and position p on, length bytes.
Chunk(st) == Min({st.left, Page - (st.p % Page)})
Rounds == 1 .. MaxPages + 2

\* Mutant: the rest of the page is left as it is.
StoreOnly(page, at, n, v) == [o \in Offsets |-> IF o >= at /\ o < at + n THEN v ELSE page[o]]
\* memcpy of n bytes at an offset of a page, then memset of what follows.
Store(page, at, n, v) == [o \in Offsets |-> IF o < at THEN page[o] ELSE IF o < at + n THEN v ELSE Zero]
CopyIn(st0, v) ==
    FoldLeft(LAMBDA st, r : IF st.left = 0 \/ st.pg > Len(st.pages) THEN st
                            ELSE [st EXCEPT !.pages[st.pg] = Store(@, st.p % Page, Chunk(st), v),
                                            !.p = @ + Chunk(st), !.left = @ - Chunk(st), !.pg = @ + 1],
             st0, SetToSortSeq(Rounds, <))

\* The remainder of a negative position is negative: what lies before the first page
\* is copied, or, a whole number of pages before the start, the first page itself.
Before(f, n) == pos[f] < 0 /\ n > 0

\* ramfs_write: with nothing to write to a file without pages, the list is
\* reached through a null pointer.  Past the last page the loop would go on in
\* the list's head.
ramfs_write(f, n, v) ==
    LET grown == pages \o [i \in 1 .. Grow(pos[f] + n) |-> NewPage]
        end == CopyIn([pages |-> grown, pg |-> pos[f] \div Page + 1, p |-> pos[f], left |-> n], v)
    IN  /\ Enter /\ Len(grown) <= MaxPages
        /\ IF grown = <<>>
           THEN undef' = "null" /\ locked' = TRUE /\ UNCHANGED <<pages, size, pos, out>>
           ELSE IF Before(f, n) THEN undef' = "before the start" /\ locked' = TRUE /\ UNCHANGED <<pages, size, pos, out>>
           ELSE IF end.left > 0
           THEN undef' = "write past the end" /\ locked' = TRUE /\ UNCHANGED <<pages, size, pos, out>>
           ELSE /\ pages' = end.pages
                /\ size' = size + Page * (Len(grown) - Len(pages))
                /\ pos' = [pos EXCEPT ![f] = end.p]
                /\ out' = <<>> /\ UNCHANGED <<locked, undef>>

\* memcpy from a page.
Piece(st) == [i \in 1 .. Chunk(st) |-> st.pages[st.pg][(st.p % Page) + i - 1]]
CopyOut(st0) ==
    FoldLeft(LAMBDA st, r : IF st.left = 0 \/ st.pg > Len(st.pages) THEN st
                            ELSE [st EXCEPT !.got = @ \o Piece(st), !.p = @ + Chunk(st),
                                            !.left = @ - Chunk(st), !.pg = @ + 1],
             st0, SetToSortSeq(Rounds, <))

\* ramfs_read: nothing from a file without pages; a start more than one page
\* past the end is refused with the lock held; a read that comes to the end
\* of the list goes on into the list's head.
ramfs_read(f, n) ==
    LET end == CopyOut([pages |-> pages, pg |-> pos[f] \div Page + 1, p |-> pos[f], left |-> n, got |-> <<>>])
    IN  /\ Enter
        /\ IF pages = <<>>
           THEN out' = <<>> /\ UNCHANGED <<pages, size, pos, locked, undef>>
           ELSE IF pos[f] \div Page > Len(pages)
           THEN locked' = TRUE /\ out' = <<>> /\ UNCHANGED <<pages, size, pos, undef>>
           ELSE IF Before(f, n) THEN undef' = "before the start" /\ locked' = TRUE /\ UNCHANGED <<pages, size, pos, out>>
           ELSE IF end.left > 0
           THEN undef' = "past the end" /\ locked' = TRUE /\ UNCHANGED <<pages, size, pos, out>>
           ELSE /\ out' = end.got /\ pos' = [pos EXCEPT ![f] = end.p]
                /\ UNCHANGED <<pages, size, locked, undef>>

\* ramfs_vm_fault for page k of a mapping: the file's page, a copy of it, or
\* no answer; one page past the end is taken for a page.
ramfs_vm_fault(k) ==
    /\ undef = "no"
    /\ IF pages = <<>> THEN undef' = "null" /\ UNCHANGED out
       ELSE IF k = Len(pages) + 1 THEN undef' = "past the end" /\ UNCHANGED out
       ELSE /\ out' = IF k <= Len(pages) THEN [i \in 1 .. Page |-> pages[k][i - 1]] ELSE <<>>
            /\ UNCHANGED undef
    /\ UNCHANGED <<pages, size, pos, locked>>

Next ==
    \/ \E f \in Fds : \/ \E p \in Positions : vfs_seek(f, p)
                      \/ \E n \in Lengths : ramfs_read(f, n) \/ \E v \in Values : ramfs_write(f, n, v)
    \/ \E k \in 1 .. MaxPages + 2 : ramfs_vm_fault(k)

Spec == Init /\ [][Next]_vars
-----------------------------------------------------------------------------
\* Every variable has its type, and the size is that of the pages.
TypeOK ==
    /\ pages \in Seq([Offsets -> Values \cup {Junk, Zero}]) /\ Len(pages) <= MaxPages
    /\ size = Page * Len(pages)
    /\ pos \in [Fds -> Positions]
    /\ locked \in BOOLEAN /\ out \in Seq(Values \cup {Junk, Zero})
    /\ undef \in {"no", "null", "before the start", "past the end", "write past the end"}

Flat == [i \in 1 .. Page * Len(pages) |-> pages[(i - 1) \div Page + 1][(i - 1) % Page]]
File == INSTANCE ByteFile WITH bytes <- Flat

\* What a write leaves and a read returns, page by page under the lock, is
\* what it would be on one array of bytes, for all open files together; a page
\* fault shows the page at that place (ramfs_read, ramfs_write, ramfs_vm_fault).
ImplementsByteFile == File!Spec

\* The pages a write adds are enough for it, wherever a seek has left the
\* position: its loop never runs into the head of the page list.
WritesFit == undef # "write past the end"
=============================================================================
