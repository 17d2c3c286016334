------------------------------ MODULE PageTable ------------------------------
(***************************************************************************)
(* arch/x86_64/mmu.c: page tables as trees of frames.  A root has an entry *)
(* for each half; a middle table stands for the levels between the root    *)
(* and the last one, which are all handled alike.                          *)
(***************************************************************************)
EXTENDS Integers, FiniteSets, FiniteSetsExt

CONSTANTS Spaces,     \* processes
          Kernel,     \* kernel_address_space
          Tables,     \* frames for tables, numbers from 1
          Mid, Leaf   \* indices into middle and last tables

User == 0   \* the root's entry for the lower half
High == 1
Vas == {User, High} \X Mid \X Leaf
KernelVas == {High} \X Mid \X Leaf

\* What callers map: program text, and data of the caller's own.
Text == [present |-> TRUE, prot |-> {"READ", "EXEC", "USER"}, flags |-> {}]
Data == [present |-> TRUE, prot |-> {"READ", "WRITE", "USER"}, flags |-> {"OWNER"}]
Mappings == {Text, Data}

VARIABLES root,   \* the root table of each live space
          up,     \* the entries of roots and middle tables: a table or 0
          pte,    \* the entries of last tables: sets of PTE bits
          used

vars == <<root, up, pte, used>>

Idx == {User, High} \cup Mid
NoUp == [i \in Idx |-> 0]
NoPtes == [k \in Leaf |-> {}]

\* mmu_new_pgdir; the kernel's half is in use before the first process (vmm_init_kpages).
Init ==
    /\ root = [s \in {Kernel} |-> 1]
    /\ up = [t \in Tables |-> IF t = 1 THEN [NoUp EXCEPT ![High] = 2] ELSE NoUp]
    /\ pte = [t \in Tables |-> NoPtes]
    /\ used = {1, 2}

convert_vm_params(prot, flags) ==
    {b \in {"PRESENT", "WRITABLE", "NOEXEC", "USER", "OWNER"} :
        \/ b = "PRESENT" /\ "READ" \in prot
        \/ b = "WRITABLE" /\ "WRITE" \in prot
        \/ b = "NOEXEC" /\ "EXEC" \notin prot
        \/ b = "USER" /\ "USER" \in prot
        \/ b = "OWNER" /\ "OWNER" \in flags}

\* mmu_get_phys: follow the tables, 0 where one is missing, and read the bits back.
LastTable(r, va) == IF up[r][va[1]] = 0 THEN 0 ELSE up[up[r][va[1]]][va[2]]
mmu_get_phys(r, va) ==
    LET t == LastTable(r, va)
        e == pte[t][va[3]]
    IN  IF t = 0 THEN [present |-> FALSE]
        ELSE IF "PRESENT" \notin e THEN [present |-> FALSE]
        ELSE [present |-> TRUE,
              prot |-> {p \in {"READ", "WRITE", "EXEC", "USER"} :
                           \/ p = "READ"
                           \/ p = "WRITE" /\ "WRITABLE" \in e
                           \/ p = "EXEC" /\ "NOEXEC" \notin e
                           \/ p = "USER" /\ "USER" \in e},
              flags |-> e \cap {"OWNER"}]

\* mmu_map: get_or_create_pte on each level.  There is memory for the tables.
mmu_map(s, va, m) ==
    LET r == root[s]
        fresh == Tables \ used
        mid == IF up[r][va[1]] # 0 THEN up[r][va[1]] ELSE Min(fresh)
        left == fresh \ {mid}
        last == IF up[mid][va[2]] # 0 THEN up[mid][va[2]] ELSE Min(left)
        missing == IF up[r][va[1]] = 0 THEN 2 ELSE IF up[mid][va[2]] = 0 THEN 1 ELSE 0
    IN  /\ s \in DOMAIN root /\ Cardinality(fresh) >= missing
        /\ va \in KernelVas => s = Kernel
        /\ up' = [up EXCEPT ![r][va[1]] = mid, ![mid][va[2]] = last]
        /\ pte' = [pte EXCEPT ![last][va[3]] = convert_vm_params(m.prot, m.flags)]
        /\ used' = used \cup {mid, last}
        /\ UNCHANGED root

\* mmu_unmap of an address that was mapped.
mmu_unmap(s, va) ==
    /\ s \in DOMAIN root /\ LastTable(root[s], va) # 0
    /\ va \in KernelVas => s = Kernel
    /\ pte' = [pte EXCEPT ![LastTable(root[s], va)][va[3]] = {}]
    /\ UNCHANGED <<root, up, used>>

\* Mutant: the whole root is copied.
CloneAll(r) == up[root[Kernel]]
\* mmu_clone without PROT_USER: the entries of the higher half.
mmu_clone(r) == [NoUp EXCEPT ![High] = up[root[Kernel]][High]]

\* vm_userspace_new.
NewSpace(s) ==
    LET r == Min(Tables \ used)
    IN  /\ s \notin DOMAIN root /\ Tables # used
        /\ root' = [t \in DOMAIN root \cup {s} |-> IF t = s THEN r ELSE root[t]]
        /\ up' = [up EXCEPT ![r] = mmu_clone(r)]
        /\ used' = used \cup {r}
        /\ UNCHANGED pte

\* Mutant: the last tables are kept.
DestroyedUpper(r) == {r} \cup ({up[r][User]} \ {0})
\* mmu_destroy: the tables below the user entry of the root, and the root.
Destroyed(r) ==
    LET mid == up[r][User]
    IN  {r} \cup (IF mid = 0 THEN {} ELSE {mid} \cup ({up[mid][j] : j \in Mid} \ {0}))

mmu_destroy(s) ==
    LET gone == Destroyed(root[s])
    IN  /\ s \in DOMAIN root \ {Kernel}
        /\ used' = used \ gone
        /\ up' = [t \in Tables |-> IF t \in gone THEN NoUp ELSE up[t]]
        /\ pte' = [t \in Tables |-> IF t \in gone THEN NoPtes ELSE pte[t]]
        /\ root' = [t \in DOMAIN root \ {s} |-> root[t]]

Next ==
    \E s \in Spaces \cup {Kernel} :
        \/ \E va \in Vas : mmu_unmap(s, va) \/ \E m \in Mappings : mmu_map(s, va, m)
        \/ NewSpace(s) \/ mmu_destroy(s)

Spec == Init /\ [][Next]_vars

-----------------------------------------------------------------------------
Abstract == INSTANCE AddressMap WITH
    live <- DOMAIN root,
    map <- [s \in DOMAIN root |-> [va \in Vas |-> mmu_get_phys(root[s], va)]]

\* The trees of tables implement address spaces that are functions: entering or
\* removing one address changes no other and no other space, the kernel's half is
\* the same everywhere although only its root entry was copied, and a space that is
\* destroyed takes nothing with it (create_pte, mmu_get_phys).
ImplementsAddressMap == Abstract!Spec

Below(t) == {up[t][i] : i \in Idx} \ {0}
Reachable == LET R == {root[s] : s \in DOMAIN root}
                 M == UNION {Below(t) : t \in R}
             IN  R \cup M \cup UNION {Below(t) : t \in M}

\* Type invariant.
TypeOK ==
    /\ Kernel \in DOMAIN root /\ DOMAIN root \subseteq Spaces \cup {Kernel}
    /\ up \in [Tables -> [Idx -> Tables \cup {0}]]
    /\ pte \in [Tables -> [Leaf -> SUBSET {"PRESENT", "WRITABLE", "NOEXEC", "USER", "OWNER"}]]

\* The frames in use for tables are exactly those a live root leads to: destroying
\* a space frees each of its tables, and none that another space still walks.
TablesAccounted == used = Reachable
=============================================================================
