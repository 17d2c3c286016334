------------------------------ MODULE ByteFile ------------------------------
(***************************************************************************)
(* What a file of ramfs is to its users: one array of bytes and a position *)
(* for each open file.  A write fills the rest of its last page with zeros *)
(* and the file grows by whole pages; bytes never written are Junk.        *)
(***************************************************************************)
EXTENDS Integers, Sequences, FiniteSetsExt

CONSTANTS Page, Junk, Zero, Lengths, Values, Positions, Fds

VARIABLES bytes, pos, out

RoundUp(n) == ((n + Page - 1) \div Page) * Page
Byte(i) == IF i <= Len(bytes) THEN bytes[i] ELSE Junk

Init == bytes = <<>> /\ pos = [f \in Fds |-> 0] /\ out = <<>>

Seek(f, p) == pos' = [pos EXCEPT ![f] = p] /\ UNCHANGED <<bytes, out>>

Write(f, n, v) ==
    LET from == pos[f]
        size == Max({Len(bytes), RoundUp(from + n)})
    IN  /\ bytes' = [i \in 1 .. size |-> CASE i > from /\ i <= from + n -> v
                                           [] n > 0 /\ i > from + n /\ i <= RoundUp(from + n) -> Zero
                                           [] OTHER -> Byte(i)]
        /\ pos' = [pos EXCEPT ![f] = from + n]
        /\ out' = <<>>

Read(f, n) ==
    /\ n > 0 => pos[f] >= 0 /\ pos[f] + n <= Len(bytes)
    /\ out' = IF n = 0 THEN <<>> ELSE SubSeq(bytes, pos[f] + 1, pos[f] + n)
    /\ pos' = [pos EXCEPT ![f] = @ + n]
    /\ UNCHANGED bytes

\* A page of a mapping, or nothing.
Show(k) ==
    /\ out' = IF k * Page <= Len(bytes) THEN SubSeq(bytes, (k - 1) * Page + 1, k * Page) ELSE <<>>
    /\ UNCHANGED <<bytes, pos>>

Next == \/ \E k \in Positions : k > 0 /\ Show(k)
        \/ \E f \in Fds : \/ \E p \in Positions : Seek(f, p)
                          \/ \E n \in Lengths : Read(f, n) \/ \E v \in Values : Write(f, n, v)

vars == <<bytes, pos, out>>
Spec == Init /\ [][Next]_vars
=============================================================================
