-------------------------------- MODULE Exec ---------------------------------
(***************************************************************************)
(* How a process comes to run a program: its arguments go to the top of    *)
(* the stack (sched/task.c), the format is found (sys/binfmt/binfmt.c),    *)
(* the segments of the program and of its interpreter are mapped, and the  *)
(* words that a program finds on its stack are pushed (sys/binfmt/elf.c).  *)
(***************************************************************************)
EXTENDS Integers, Sequences, FiniteSets, SequencesExt

CONSTANTS Page,      \* units of memory in a page
          Word,      \* and in a word
          ExecBase,  \* where programs of type ET_EXEC begin; bound: they are smaller
          DynBase,   \* where elf_load puts those of type ET_DYN
          Start, End,\* the limits of the user's half
          Width,     \* bound: addresses, 2^64 in the code
          Auxv,      \* words of the auxiliary vector: 22
          Lens       \* lengths of arguments

VARIABLES file,      \* what argv[0] names, and the interpreter
          argv, envp,\* the lengths of the strings
          strings,   \* where they are
          maps,      \* the ranges of the address space
          zeroed,    \* addresses that were cleared
          img, seg,  \* the image that is being loaded and the segment that is next
          bias, entry, rsp,
          fds,       \* open descriptors
          state

vars == <<file, argv, envp, strings, maps, zeroed, img, seg, bias, entry, rsp, fds, state>>

Down(a, n) == (a \div n) * n
Up(a, n) == Down(a + n - 1, n)
Top == End - Page
Missing == -1

\* Programs as linkers make them: text, and data on pages of their own, a part of
\* which may not be in the file; at: the addresses of the other headers, which for
\* PT_GNU_STACK is 0.
Segments(base) ==
    {<<[vaddr |-> base, filesz |-> Page - 1, memsz |-> Page - 1],
       [vaddr |-> base + Page + o, filesz |-> f, memsz |-> f + z]>> :
        o \in {0, 3}, f \in {0, 2, Page - 3}, z \in {0, 1, Page}}
Programs ==
    [kind : {"elf"}, type : {"exec"}, segs : Segments(ExecBase), at : {{}, {0}},
     interp : {"none", "missing", "bad", "good"}] \cup
    [kind : {"elf"}, type : {"dyn"}, segs : Segments(0), at : {{0}}, interp : {"none", "good"}] \cup
    [kind : {"absent", "directory", "script", "foreign"}, type : {"exec"}, segs : {<<>>}, at : {{}}, interp : {"none"}]
Strings == UNION {[1 .. n -> Lens] : n \in 0 .. 2}

Init ==
    /\ \E p \in Programs, l \in Segments(0) : file = [main |-> p, lib |-> l]
    /\ argv \in Strings /\ envp \in Strings
    /\ file.main.kind # "elf" \/ file.main.interp # "good" => file.lib = CHOOSE l \in Segments(0) : TRUE
    /\ strings = <<>> /\ zeroed = {} /\ img = "main" /\ seg = 0 /\ bias = [main |-> 0, interp |-> 0]
    /\ maps = {[base |-> Top - 8 * Page, len |-> 8 * Page, of |-> "stack", file |-> FALSE]} \* user_stack_init
    /\ entry = Missing /\ rsp = Top /\ fds = {} /\ state = "args"
-----------------------------------------------------------------------------
Size(len) == len + 1
Total(lens) == FoldLeft(LAMBDA sum, len : sum + Size(len), 0, lens)

\* task_copy_args: the strings of the environment and then the arguments, downwards
\* from the top of one page, whatever their length.
task_copy_args ==
    LET all == envp \o argv
        at(k) == Top - Total(SubSeq(all, 1, k))
    IN  /\ state = "args"
        /\ strings' = [k \in DOMAIN all |-> at(k)]
        /\ rsp' = Down(at(Len(all)), 2 * Word)
        /\ state' = IF Total(all) > Page THEN "undefined" ELSE "exec"
        /\ UNCHANGED <<file, argv, envp, maps, zeroed, img, seg, bias, entry, fds>>

\* sys_exit, which closes the descriptors.
sys_exit == state' = "exited" /\ fds' = {}

\* binfmt_exec_task up to the call of the format: the file has to exist, to be a
\* regular one and to begin with a signature that is known.
binfmt_exec_task ==
    /\ state = "exec"
    /\ IF file.main.kind \in {"absent", "directory", "script"}
       THEN sys_exit ELSE fds' = fds \cup {"main"} /\ state' = "header"
    /\ UNCHANGED <<file, argv, envp, strings, maps, zeroed, img, seg, bias, entry, rsp>>

Type == IF img = "main" THEN file.main.type ELSE "dyn"
Segs == IF img = "main" THEN file.main.segs ELSE file.lib

\* Mutant: a program of type ET_DYN stays at the addresses of its file.
BiasNone(segs) == 0
\* The base: the lowest address in any header, whether it is loaded or not.
Base(segs) ==
    IF Type = "dyn" THEN DynBase
    ELSE LET all == {segs[i].vaddr : i \in DOMAIN segs} \cup file.main.at
         IN  CHOOSE a \in all : \A b \in all : a <= b
\* The bias: the distance from the first segment to the base.
Bias(segs) == (Base(segs) - segs[1].vaddr) % Width

\* Mutant: the interpreter's file stays open.
CloseInterpNot(open) == open
CloseInterp(open) == open \ {"interp"}

\* elf_load to the loop over the segments.  The interpreter is read from whatever
\* vfs_open returned: without the file, the header is what the stack held.
elf_header ==
    /\ state = "header"
    /\ CASE img = "main" /\ file.main.kind = "foreign" -> sys_exit /\ UNCHANGED <<bias, seg, entry>> \* elf_validate
         [] img = "interp" /\ file.main.interp = "missing" ->
                state' \in {"stack", "undefined"} /\ entry' = Missing /\ UNCHANGED <<bias, seg, fds>>
         [] img = "interp" /\ file.main.interp = "bad" ->
                state' = "stack" /\ entry' = Missing /\ fds' = CloseInterp(fds) /\ UNCHANGED <<bias, seg>>
         [] OTHER -> /\ bias' = [bias EXCEPT ![img] = Bias(Segs)]
                     /\ seg' = 1 /\ state' = "segment" /\ UNCHANGED <<fds, entry>>
    /\ UNCHANGED <<file, argv, envp, strings, maps, zeroed, img, rsp>>

\* space_check_range
Free(m, r) == /\ Start <= r.base /\ r.base + r.len < End
              /\ ~\E o \in m : o.base < r.base + r.len /\ r.base < o.base + o.len
\* space_find_free_range: the first gap.
Found(m, r) ==
    LET gaps == {a \in Start .. End : a % Page = 0 /\ Free(m, [r EXCEPT !.base = a])}
    IN  [r EXCEPT !.base = CHOOSE a \in gaps : \A b \in gaps : a <= b]
\* vm_space_map at an address, or anywhere if that is 0; elf_load does not look at the
\* result.
vm_space_map(m, r) ==
    CASE r.len # 0 /\ r.base = 0 -> m \cup {Found(m, r)}
      [] r.len # 0 /\ r.base # 0 /\ Free(m, r) -> m \cup {r}
      [] OTHER -> m
Mapped(m, a) == \E r \in m : r.base <= a /\ a < r.base + r.len

\* Mutant: what follows the file's part is not cleared.
TailNone(from, to) == {}
Tail0(from, to) == from .. to - 1

\* Mutant: only whole pages of the file are mapped.
FilePagesWhole(s, align_rem) == Down(s.filesz + align_rem, Page)
FilePages(s, align_rem) == Up(s.filesz + align_rem, Page)

\* A round of the loop: the pages of the file, the rest of the last of them, and
\* the pages after it, for which the bias is added a second time.
elf_load ==
    LET s == Segs[seg]
        b == bias[img]
        map_vaddr == (b + Down(s.vaddr, Page)) % Width
        align_rem == (b + s.vaddr - map_vaddr) % Width
        file_end == map_vaddr + align_rem + s.filesz
        anon_start == Up(file_end, Page)
        anon_end == Up(map_vaddr + align_rem + s.memsz, Page)
        range == [base |-> map_vaddr, len |-> FilePages(s, align_rem), of |-> img, file |-> TRUE]
        anon == [base |-> (b + anon_start) % Width, len |-> anon_end - anon_start, of |-> img, file |-> FALSE]
        m1 == IF s.filesz # 0 THEN vm_space_map(maps, range) ELSE maps
        tail == Tail0(file_end, anon_start)
    IN  /\ state = "segment"
        /\ seg' = IF seg = Len(Segs) THEN 0 ELSE seg + 1
        /\ IF s.memsz > s.filesz
           THEN IF \A a \in tail : Mapped(m1, a)
                THEN zeroed' = zeroed \cup tail /\ maps' = vm_space_map(m1, anon)
                     /\ state' = IF seg = Len(Segs) THEN "loaded" ELSE "segment"
                ELSE zeroed' = zeroed /\ maps' = m1 /\ state' = "panic" \* memset faults
           ELSE zeroed' = zeroed /\ maps' = m1
                /\ state' = IF seg = Len(Segs) THEN "loaded" ELSE "segment"
        /\ UNCHANGED <<file, argv, envp, strings, img, bias, entry, rsp, fds>>

\* The end of elf_load: the entry is at the beginning of the text; and in elf_exec
\* the interpreter, if the program has one.
elf_loaded ==
    LET more == img = "main" /\ file.main.interp # "none"
    IN  /\ state = "loaded"
        /\ entry' = (bias[img] + Segs[1].vaddr) % Width
        /\ img' = IF more THEN "interp" ELSE img
        /\ fds' = CASE more /\ file.main.interp # "missing" -> fds \cup {"interp"}
                    [] ~more -> CloseInterp(fds)
                    [] OTHER -> fds
        /\ state' = IF more THEN "header" ELSE "stack"
        /\ UNCHANGED <<file, argv, envp, strings, maps, zeroed, seg, bias, rsp>>

\* Mutant: the environment's last word is forgotten.
PushedShort == Auxv + Len(envp) + Len(argv) + 1 + 1
\* The words that elf_exec pushes, as align_check counts them.
Pushed == Auxv + Len(envp) + 1 + Len(argv) + 1 + 1
\* A word more where the stack would not be aligned.
Pad == IF (rsp - Pushed * Word) % (2 * Word) # 0 THEN 1 ELSE 0

\* The stack, the close in binfmt_exec_task and the way to user mode.
elf_exec ==
    /\ state = "stack"
    /\ rsp' = rsp - (Pad + Auxv + (1 + Len(envp)) + (1 + Len(argv)) + 1) * Word
    /\ fds' = fds \ {"main"}
    /\ state' = "user"
    /\ UNCHANGED <<file, argv, envp, strings, maps, zeroed, img, seg, bias, entry>>

Next == task_copy_args \/ binfmt_exec_task \/ elf_header \/ elf_load \/ elf_loaded \/ elf_exec
Spec == Init /\ [][Next]_vars
-----------------------------------------------------------------------------
\* Type invariant.
TypeOK ==
    /\ state \in {"args", "exec", "header", "segment", "loaded", "stack", "user", "exited", "panic", "undefined"}
    /\ rsp \in 0 .. Top /\ seg \in 0 .. 2 /\ fds \subseteq {"main", "interp"} /\ entry \in Missing .. End
    /\ \A m \in maps : m.len > 0 /\ m.base + m.len < End

\* A segment that ends in memory of its own on further pages.
NeedsPages(segs) == \E i \in DOMAIN segs :
    Up(segs[i].vaddr + segs[i].memsz, Page) > Up(segs[i].vaddr + segs[i].filesz, Page)
\* A segment with nothing in the file, off the beginning of a page.
BareTail(segs) == \E i \in DOMAIN segs :
    segs[i].filesz = 0 /\ segs[i].memsz > 0 /\ segs[i].vaddr % Page # 0

\* A program of type ET_EXEC with a header below its first segment, which elf_load
\* takes for its base.
Moved == file.main.type = "exec" /\ \E a \in file.main.at : a < ExecBase

\* Where a segment belongs: at the addresses it was linked to, or from DynBase on.
Shift(who) == IF who = "main" /\ file.main.type = "exec" THEN 0 ELSE DynBase
InPlace(who, segs) ==
    \A i \in DOMAIN segs : \A k \in 0 .. segs[i].memsz - 1 :
        LET a == Shift(who) + segs[i].vaddr + k
        IN  \E m \in maps : /\ m.of = who /\ m.base <= a /\ a < m.base + m.len
                            /\ k < segs[i].filesz => m.file
                            /\ k >= segs[i].filesz => (~m.file \/ a \in zeroed)

\* When a program starts, every byte of its segments is at its place, from the file
\* or zero; so is its interpreter.  Three exceptions: memory past the file's pages of
\* an image of type ET_DYN, whose place elf_load computes with the bias twice; an
\* interpreter next to a program of type ET_DYN, which wants the same place; and a
\* program of type ET_EXEC with a header at address 0, which is moved there.
ImagesInPlace ==
    state = "user" =>
        /\ Moved \/ (file.main.type = "dyn" /\ NeedsPages(file.main.segs)) \/ InPlace("main", file.main.segs)
        /\ file.main.interp = "good" /\ file.main.type = "exec" /\ ~NeedsPages(file.lib) => InPlace("interp", file.lib)

\* The processor goes on in the interpreter if there is one and in the program if
\* there is none; an interpreter that cannot be read is not reported, and the
\* program starts at no address; one that was moved starts at 0.
EntersImage ==
    state = "user" =>
        entry = CASE file.main.interp = "none" /\ ~Moved -> Shift("main") + file.main.segs[1].vaddr
                  [] file.main.interp = "none" /\ Moved -> 0
                  [] file.main.interp = "good" -> DynBase
                  [] OTHER -> Missing

\* A fault of the kernel while it clears memory comes only from a segment that has
\* nothing in the file and does not begin with a page, or from a program that is
\* moved to where nothing can be mapped.
FaultsOnlyOnBareTail ==
    state = "panic" =>
        BareTail(file.main.segs) \/ (file.main.interp = "good" /\ BareTail(file.lib)) \/ Moved

\* The program begins with an aligned stack, the words of which are below every
\* string; the strings do not overlap and are on the page that was written.
StackLaidOut ==
    state = "user" =>
        LET all == envp \o argv
        IN  /\ rsp % (2 * Word) = 0
            /\ \A k \in DOMAIN all : /\ strings[k] >= rsp + (Pushed + Pad) * Word
                                     /\ strings[k] >= Top - Page
                                     /\ strings[k] + all[k] < IF k = 1 THEN Top ELSE strings[k - 1]

\* No descriptor of the loading is left open to the program.
LoaderCloses == state \in {"user", "exited"} => fds = {}
=============================================================================
