------------------------------ MODULE NameSpace ------------------------------
(***************************************************************************)
(* The tree of names: ventries with their reference counts, the cache of   *)
(* names in front of it (fs/ventry.c), path lookup (fs/lookup.c), creation *)
(* (fs/generic.c, fs/vfs.c), mounting (fs/super.c) and the entries procfs  *)
(* makes and removes for processes.  One CPU; a path is a sequence of      *)
(* names, and the hash chains of the cache are one chain.                  *)
(***************************************************************************)
EXTENDS Integers, FiniteSets, FiniteSetsExt, SequencesExt

CONSTANTS MaxEntry,   \* bound: ventries ever made
          MaxRefs,    \* bound: references counted on one ventry
          Files,      \* names users give to files
          Dirs,       \* and to directories
          Procs,      \* processes, as the names of their directories
          ProcFiles   \* the files in one

Root == 1        \* root_node
ProcRoot == 2    \* g_procfs->data
ProcDir == 3     \* /proc, made by kernel_main
Ids == 1 .. MaxEntry
None == 0

VARIABLES entry,    \* the ventries
          chain,    \* the cache, newest first
          next_id,
          held,     \* what an open file and a working directory refer to
          mounted,  \* whether procfs is on /proc
          fault     \* a freed ventry, or a node that is missing or freed, was used

vars == <<entry, chain, next_id, held, mounted, fault>>

Slots == {"file", "cwd"}
ventry_new(name, kind, parent) ==
    [name |-> name, kind |-> kind, parent |-> parent, kids |-> <<>>, count |-> 0, freed |-> FALSE]
Unused == ventry_new("", "none", None)

Init ==
    /\ entry = [e \in Ids |-> CASE e = Root -> [ventry_new("/", "dir", None) EXCEPT !.kids = <<ProcDir>>]
                                [] e = ProcRoot -> ventry_new("proc", "dir", None)
                                [] e = ProcDir -> ventry_new("proc", "dir", Root)
                                [] OTHER -> Unused]
    /\ chain = <<ProcDir>> /\ next_id = 4
    /\ held = [s \in Slots |-> None]
    /\ mounted = FALSE /\ fault = FALSE

\* dcache_get: the first entry of the chain with that parent and name.
dcache_get(ch, parent, name) ==
    LET S == {i \in DOMAIN ch : entry[ch[i]].parent = parent /\ entry[ch[i]].name = name}
    IN  IF S = {} THEN None ELSE ch[Min(S)]
dcache_insert(ch, e) == <<e>> \o ch

\* generic_fs_lookup: the first child of that name.
generic_fs_lookup(d, name) ==
    LET S == {i \in DOMAIN entry[d].kids : entry[entry[d].kids[i]].name = name}
    IN  IF S = {} THEN None ELSE entry[d].kids[Min(S)]

\* Mutant: mounts are not followed.
TraverseNot(e) == e
\* traverse_mount: procfs's own root in place of the directory it covers.
traverse_mount(e) == IF mounted /\ e = ProcDir THEN ProcRoot ELSE e

\* "..": the root of a mount goes to the parent of what it covers.
DotDot(e) ==
    CASE entry[e].parent # None -> entry[e].parent
      [] e = ProcRoot /\ mounted -> entry[ProcDir].parent
      [] e = Root -> Root
      [] OTHER -> None

\* Mutant: the cache is filled without a look whether the name is in it.
StepInserting(acc, name) ==
    LET d == traverse_mount(acc.at)
        found == generic_fs_lookup(d, name)
    IN  IF acc.at = None \/ acc.err # "" THEN acc
        ELSE IF entry[acc.at].kind # "dir" \/ found = None THEN [acc EXCEPT !.at = None]
        ELSE [acc EXCEPT !.at = found, !.chain = dcache_insert(@, found)]
\* One component of vfs_lookup_at; a lookup that misses the cache fills it.
LookupStep(acc, name) ==
    LET e == acc.at
        d == traverse_mount(e)
        hit == dcache_get(acc.chain, d, name)
        found == generic_fs_lookup(d, name)
    IN  CASE e = None \/ acc.err # "" -> acc
          [] entry[e].kind = "none" \/ entry[e].freed -> [acc EXCEPT !.err = "fault"]
          [] entry[e].kind = "file" -> [acc EXCEPT !.err = "ENOTDIR"]
          [] name = "." -> acc
          [] name = ".." -> [acc EXCEPT !.at = DotDot(e)]
          [] hit # None -> [acc EXCEPT !.at = hit]
          [] found # None -> [acc EXCEPT !.at = found, !.chain = dcache_insert(acc.chain, found)]
          [] OTHER -> [acc EXCEPT !.at = None]

\* vfs_lookup_at: the whole path is tried in the cache first.
Finish(acc) ==
    IF acc.err # "" THEN acc
    ELSE IF acc.at = None THEN [acc EXCEPT !.err = "ENOENT"]
    ELSE [acc EXCEPT !.at = traverse_mount(acc.at)]
LookupIn(ch, from, path) ==
    LET quick == IF Len(path) = 1 THEN dcache_get(ch, from, path[1]) ELSE None
        start == [at |-> from, chain |-> ch, err |-> ""]
    IN  Finish(IF quick # None THEN [start EXCEPT !.at = quick] ELSE FoldLeft(LookupStep, start, path))
vfs_lookup_at(from, path) == LookupIn(chain, from, path)
\* LOOKUP_PARENT: the last component is not looked up, only where it would be.
LookupParent(from, path) ==
    LET acc == FoldLeft(LookupStep, [at |-> from, chain |-> chain, err |-> ""], Front(path))
    IN  IF acc.err = "" /\ acc.at # None /\ entry[acc.at].kind # "dir"
        THEN [acc EXCEPT !.err = IF entry[acc.at].kind = "file" THEN "ENOTDIR" ELSE "fault"]
        ELSE Finish(acc)

\* Where a relative path starts.
From(absolute) == IF absolute \/ held["cwd"] = None THEN Root ELSE held["cwd"]

\* Mutant: the new entry is not told its directory's children.
WithoutChild(ents, d, name, kind) == [ents EXCEPT ![next_id] = ventry_new(name, kind, d), ![d].kids = Append(@, next_id + 1)]
\* generic_fs_create, generic_fs_mkdir and procfs_create: a new last child.
WithChild(ents, d, name, kind) ==
    [ents EXCEPT ![next_id] = ventry_new(name, kind, d), ![d].kids = Append(@, next_id)]

\* vfs_create, vfs_mkdir and vfs_mknod: the look-ups fill the cache also when nothing
\* is created; procfs has no such operations.  (vfs_open with O_CREAT is a look-up, one
\* of these and Take.)
Creates(d) == d # ProcRoot /\ \A n \in Procs : generic_fs_lookup(ProcRoot, n) # d
vfs_create(absolute, path, kind) ==
    LET p == LookupParent(From(absolute), path)
        known == IF p.err = "" THEN LookupIn(p.chain, p.at, <<Last(path)>>) ELSE p
    IN  /\ ~fault
        /\ IF p.err = "" /\ known.err \notin {"", "fault"} /\ Creates(p.at)
           THEN /\ next_id <= MaxEntry
                /\ entry' = WithChild(entry, p.at, Last(path), kind)
                /\ chain' = dcache_insert(known.chain, next_id)
                /\ next_id' = next_id + 1 /\ UNCHANGED fault
           ELSE /\ chain' = known.chain /\ fault' = (known.err = "fault")
                /\ UNCHANGED <<entry, next_id>>
        /\ UNCHANGED <<held, mounted>>

\* vfs_mount(nullptr, "/proc", "procfs"), as kernel_main does once.
vfs_mount == ~mounted /\ ~fault /\ mounted' = TRUE /\ UNCHANGED <<entry, chain, next_id, held, fault>>

\* procfs_register_process: the directory goes into the cache, its files do not.
procfs_register_process(n) ==
    LET dir == next_id
        ids == [f \in 1 .. Len(ProcFiles) |-> dir + f]
    IN  /\ ~fault /\ generic_fs_lookup(ProcRoot, n) = None
        /\ \A e \in Ids : entry[e].name # n          \* pids are not used again
        /\ dir + Len(ProcFiles) <= MaxEntry
        /\ entry' = [e \in Ids |->
             CASE e = ProcRoot -> [entry[e] EXCEPT !.kids = Append(@, dir)]
               [] e = dir -> [ventry_new(n, "dir", ProcRoot) EXCEPT !.kids = ids]
               [] e > dir /\ e <= dir + Len(ProcFiles) -> ventry_new(ProcFiles[e - dir], "file", dir)
               [] OTHER -> entry[e]]
        /\ chain' = dcache_insert(chain, dir)
        /\ next_id' = dir + Len(ProcFiles) + 1
        /\ UNCHANGED <<held, mounted, fault>>

\* Mutant: a freed ventry is left in the cache.
PutKeepingCache(s, e) ==
    [s EXCEPT !.entry[e].count = @ - 1,
              !.entry[e].freed = @ \/ (s.entry[e].count <= 1 /\ s.entry[e].kind = "none")]
\* Mutant: the count is compared with zero.
PutAtZero(s, e) ==
    [s EXCEPT !.entry[e].count = @ - 1,
              !.entry[e].freed = @ \/ (s.entry[e].count < 0 /\ s.entry[e].kind = "none")]
\* ventry_put: the last reference to a ventry without a node frees it.
ventry_put(s, e) ==
    IF s.entry[e].count <= 1 /\ s.entry[e].kind = "none"
    THEN [entry |-> [s.entry EXCEPT ![e].count = @ - 1, ![e].freed = TRUE],
          chain |-> SelectSeq(s.chain, LAMBDA x : x # e),
          bad |-> s.bad \/ s.entry[e].freed]
    ELSE [s EXCEPT !.entry[e].count = @ - 1, !.bad = @ \/ s.entry[e].freed]

\* procfs_remove of an entry that the lookup finds: the node is freed at once.
procfs_remove(s, e) ==
    LET d == s.entry[e].parent
        cut == [s EXCEPT !.chain = IF Contains(@, e) THEN @ ELSE dcache_insert(@, e),
                         !.entry[e].kind = "none",
                         !.entry[d].kids = SelectSeq(@, LAMBDA x : x # e)]
    IN  ventry_put(cut, e)

\* procfs_unregister_process: its files, last one first, then the directory.  The
\* lookup of a file puts it into the cache.
procfs_unregister_process(n) ==
    LET dir == generic_fs_lookup(ProcRoot, n)
        files == Reverse(entry[dir].kids)
        s == FoldLeft(procfs_remove, [entry |-> entry, chain |-> chain, bad |-> FALSE],
                      files \o <<dir>>)
    IN  /\ ~fault /\ dir # None
        /\ entry' = s.entry /\ chain' = s.chain /\ fault' = s.bad
        /\ UNCHANGED <<next_id, held, mounted>>

\* vfs_open and sys_chdir: the reference is taken before the node is looked at.
Refused(slot, q) == q.err # "" \/ entry[q.at].kind = "none" \/ (slot = "cwd" /\ entry[q.at].kind = "file")
Take(slot, absolute, path) ==
    LET q == vfs_lookup_at(From(absolute), path)
        ref == [entry |-> [entry EXCEPT ![q.at].count = @ + 1], chain |-> q.chain, bad |-> FALSE]
        s == IF slot = "cwd" /\ held[slot] # None THEN ventry_put(ref, held[slot]) ELSE ref
    IN  /\ ~fault
        /\ IF Refused(slot, q)
           THEN /\ fault' = (q.err = "fault" \/ (q.err = "" /\ slot = "cwd" /\ entry[q.at].kind = "none"))
                /\ chain' = q.chain /\ UNCHANGED <<entry, held>>
           ELSE /\ slot = "file" => held[slot] = None
                /\ entry[q.at].count < MaxRefs
                /\ entry' = s.entry /\ chain' = s.chain /\ fault' = s.bad
                /\ held' = [held EXCEPT ![slot] = q.at]
        /\ UNCHANGED <<next_id, mounted>>

\* vfs_put_file: the last close of a file, through its vnode, which procfs_remove has
\* freed if the file was one of a process that ended.
Close ==
    LET s == ventry_put([entry |-> entry, chain |-> chain, bad |-> FALSE], held["file"])
    IN  /\ ~fault /\ held["file"] # None
        /\ entry' = s.entry /\ chain' = s.chain /\ fault' = (s.bad \/ entry[held["file"]].kind = "none")
        /\ held' = [held EXCEPT !["file"] = None]
        /\ UNCHANGED <<next_id, mounted>>

\* generic_fs_getdents takes two references to each child and gives one back.
generic_fs_getdents(d) ==
    /\ ~fault /\ entry[d].kind = "dir" /\ ~entry[d].freed
    /\ \A i \in DOMAIN entry[d].kids : entry[entry[d].kids[i]].count < MaxRefs
    /\ entry' = [e \in Ids |-> [entry[e] EXCEPT !.count = @ + (IF Contains(entry[d].kids, e) THEN 1 ELSE 0)]]
    /\ UNCHANGED <<chain, next_id, held, mounted, fault>>

Names == Files \cup Dirs \cup Procs \cup {"proc"} \cup Range(ProcFiles)
Comps == Names \cup {".", ".."}
Paths == UNION {[1 .. k -> Comps] : k \in 1 .. 3}
ShortPaths == UNION {[1 .. k -> Names] : k \in 1 .. 2}

Next ==
    \/ \E a \in BOOLEAN, f \in Files, d \in Dirs :
          vfs_create(a, <<f>>, "file") \/ vfs_create(a, <<d>>, "dir") \/ vfs_create(a, <<d, f>>, "file")
    \/ vfs_mount \/ Close
    \/ \E n \in Procs : procfs_register_process(n) \/ procfs_unregister_process(n)
    \/ \E s \in Slots, a \in BOOLEAN, p \in ShortPaths \cup {<<"proc", n, f>> : n \in Procs, f \in Range(ProcFiles)} :
          Take(s, a, p)
    \/ \E d \in {ProcRoot, ProcDir} : generic_fs_getdents(d)

Spec == Init /\ [][Next]_vars

-----------------------------------------------------------------------------
\* Type invariant.
TypeOK ==
    /\ \A e \in Ids : entry[e].kind \in {"none", "dir", "file"} /\ entry[e].parent \in Ids \cup {None}
                     /\ Range(entry[e].kids) \subseteq 1 .. next_id - 1
    /\ Range(chain) \subseteq 1 .. next_id - 1 /\ next_id \in 1 .. MaxEntry + 1
    /\ \A s \in Slots : held[s] \in Ids \cup {None}

\* What a path names, from the tree alone: no cache, mounts in place of what they cover.
Named(d, name) == {k \in Range(entry[d].kids) : entry[k].name = name}
Visible(e) == IF mounted /\ e = ProcDir THEN ProcRoot ELSE e
WalkStep(d, name) ==
    IF d = None THEN None
    ELSE IF entry[d].kind # "dir" THEN None
    ELSE IF name = "." THEN d
    ELSE IF name = ".." THEN IF d \in {Root, ProcRoot} THEN Root ELSE entry[d].parent
    ELSE IF Named(d, name) = {} THEN None ELSE Visible(CHOOSE k \in Named(d, name) : TRUE)

\* Looking a path up through the cache, which was filled in whatever order and is
\* never told of a mount, finds what walking the tree finds.  (An entry procfs has
\* removed and references still keep, without a node, does not count as found.)
LookupCorrect ==
    ~fault => \A p \in Paths :
        LET q == vfs_lookup_at(Root, p)
            got == IF q.err = "" THEN q.at ELSE None
        IN  q.err # "fault" =>
                (IF got # None /\ entry[got].kind = "none" THEN None ELSE got) = FoldLeft(WalkStep, Root, p)

\* No entry is in the cache twice: dcache_insert would close the chain to a ring.
CacheOnce == Cardinality(Range(chain)) = Len(chain)

\* Neither the cache nor a directory leads to a ventry that was freed.
NothingFreedInTree ==
    /\ \A e \in Range(chain) : ~entry[e].freed
    /\ \A d \in Ids : \A k \in Range(entry[d].kids) : ~entry[k].freed

\* A name in the cache without a node behind it is one that references keep:
\* ventry_put frees it with the last.
StaleEntryReferenced ==
    \A e \in Range(chain) : entry[e].kind = "none" => entry[e].count >= 1
=============================================================================
