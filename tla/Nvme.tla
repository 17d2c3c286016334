-------------------------------- MODULE Nvme --------------------------------
(***************************************************************************)
(* The NVMe driver (dev/nvme/nvme.c): resetting and starting a controller, *)
(* its admin commands, and reads through one pair of queues and one page.  *)
(* The driver polls the phase bit of the completion that it expects; no    *)
(* lock is taken.  The controller is external: it takes commands in order, *)
(* writes their completions in order with a phase bit that changes with    *)
(* every round of the queue, and may fail to start or fail a command.      *)
(***************************************************************************)
EXTENDS Integers, Sequences, FiniteSets

CONSTANTS AdminSize, IoSize,  \* bounds: entries of a queue, 64 in the code
          PerPage,  \* bound: blocks in the page, 4096 / block_size
          Width,    \* bound: values of count, 2^16 in the code
          Lbas, Blocks,  \* starts and lengths of reads
          Cpus,
          MaxIo     \* bound: commands on the I/O queue

VARIABLES ctl,   \* the controller: enabled, ready, fatal, queues it has
          pc,    \* the place of nvme_controller_init
          adm, io,  \* the queue pairs
          page,  \* the blocks in dma_page
          call,  \* each CPU's nvme_read
          failed \* history: the commands that failed, or whose completion seemed to be there
                 \* before the controller had written it ("early" for a read)

vars == <<ctl, pc, adm, io, page, call, failed>>

\* The phase bit of a completion that the controller has not written: its page is as
\* vmalloc found it, and the bit is 0 or 1.
Unwritten == 2

\* tail, ctail: the driver's; door: as the controller knows; head, cpos, cphase:
\* the controller's; n: commands so far.
NewQueue(size) ==
            [ring |-> [i \in 0 .. size - 1 |-> [op |-> "none"]], phase |-> [i \in 0 .. size - 1 |-> Unwritten],
             size |-> size, tail |-> 0, ctail |-> 0, door |-> 0, head |-> 0, cpos |-> 0, cphase |-> 1, n |-> 0]
Junk == -1  \* what is in memory before
Out == [at |-> "out", lba |-> 0, blocks |-> 0, offset |-> 0, count |-> 0, slot |-> 0, buf |-> <<>>]

\* The firmware may have used the controller.
Init ==
    /\ ctl \in [enabled : BOOLEAN, ready : BOOLEAN, fatal : {FALSE}, queues : {{}}] /\ (ctl.ready => ctl.enabled)
    /\ pc = "reset" /\ adm = NewQueue(AdminSize) /\ io = NewQueue(IoSize)
    /\ page = [i \in 1 .. PerPage |-> Junk] /\ call = [c \in Cpus |-> Out] /\ failed = {}
-----------------------------------------------------------------------------
(* Queues.                                                                 *)

\* Mutant: a tail does not go back to the beginning.
AllocateUnwrapped(q, tail) == tail + 1
nvme_queue_allocate(q, tail) == (tail + 1) % q.size

\* A command is put in, a completion is expected at q.ctail, and the doorbell
\* is written.
Submit(q, cmd) ==
    [q EXCEPT !.ring[q.tail] = cmd, !.tail = nvme_queue_allocate(q, @),
              !.ctail = nvme_queue_allocate(q, @), !.door = nvme_queue_allocate(q, q.tail), !.n = @ + 1]

\* The loop ends at a 1; at an unwritten bit it may end, or wait for the controller.
Completed(q, slot) == q.phase[slot] \in {1, Unwritten}
Seen(q, slot) == q.phase[slot] = 1
Early(q, slot, op) == IF q.phase[slot] = Unwritten THEN {op} ELSE {}

\* The controller's side.
Pending(q) == q.head # q.door
Post(q) == [q EXCEPT !.phase[q.cpos] = q.cphase, !.head = (@ + 1) % q.size, !.cpos = (@ + 1) % q.size,
                     !.cphase = IF q.cpos = q.size - 1 THEN 1 - @ ELSE @]
-----------------------------------------------------------------------------
(* nvme_controller_init.                                                   *)

nvme_controller_reset ==
    /\ pc = "reset"
    /\ ctl' = [ctl EXCEPT !.enabled = FALSE] /\ pc' = "resetting"
    /\ UNCHANGED <<adm, io, page, call, failed>>

\* The queue is set up once the controller is not ready.
nvme_admin_queue_init ==
    /\ pc = "resetting" /\ ~ctl.ready
    /\ adm' = NewQueue(AdminSize) /\ pc' = "start"
    /\ UNCHANGED <<ctl, io, page, call, failed>>

\* A controller that fails to start is used all the same.
nvme_controller_start ==
    /\ \/ pc = "start" /\ ctl' = [ctl EXCEPT !.enabled = TRUE] /\ pc' = "starting"
       \/ pc = "starting" /\ (ctl.ready \/ ctl.fatal) /\ pc' = "identify" /\ UNCHANGED ctl
    /\ UNCHANGED <<adm, io, page, call, failed>>

\* The admin commands of the parts of nvme_controller_init, in their order; there
\* is one namespace, and disk_scan follows its registration.
nvme_controller_identify == <<"identify">>
nvme_io_queue_init == <<"cq", "sq">>
nvme_namespaces_identify == <<"list">>
nvme_namespace_register == <<"namespace">>
AdminCommands == nvme_controller_identify \o nvme_io_queue_init \o nvme_namespaces_identify \o nvme_namespace_register
StepOf(p) == CHOOSE i \in DOMAIN AdminCommands : AdminCommands[i] = p
After(p) == IF p = "namespace" THEN "scan" ELSE AdminCommands[StepOf(p) + 1]

\* nvme_submit_admin_await, up to its loop and from there on.  The status is
\* returned, and nobody looks at it.  What is done with data that no controller has
\* filled in is undefined.
Last(q) == (q.ctail - 1) % q.size
SubmitAdmin ==
    /\ pc \in {AdminCommands[i] : i \in DOMAIN AdminCommands} /\ adm.n < StepOf(pc)
    /\ adm' = Submit(adm, [op |-> pc])
    /\ UNCHANGED <<ctl, pc, io, page, call, failed>>
nvme_submit_admin_await ==
    /\ pc \in {AdminCommands[i] : i \in DOMAIN AdminCommands} /\ adm.n = StepOf(pc)
    /\ Completed(adm, Last(adm))
    /\ failed' = failed \cup Early(adm, Last(adm), pc)
    /\ pc' = IF pc \in failed' \ {"cq", "sq"} THEN "undefined" ELSE After(pc)
    /\ UNCHANGED <<ctl, adm, io, page, call>>

\* disk_scan reads the first page of the disk.
disk_scan(c) ==
    /\ pc = "scan" /\ pc' = "done"
    /\ call' = [call EXCEPT ![c] = [Out EXCEPT !.at = "issue", !.blocks = PerPage]]
    /\ UNCHANGED <<ctl, adm, io, page, failed>>
-----------------------------------------------------------------------------
(* nvme_read.                                                              *)

nvme_read(c, lba, blocks) ==
    /\ pc = "done" /\ call[c].at = "out" /\ io.n < MaxIo
    /\ call' = [call EXCEPT ![c] = [Out EXCEPT !.at = "issue", !.lba = lba, !.blocks = blocks]]
    /\ UNCHANGED <<ctl, pc, adm, io, page, failed>>

\* Mutant: one block too many.
CountOne(left) == IF left % Width >= PerPage THEN PerPage ELSE (left % Width) + 1
\* count, 16 bits wide.
Count(left) == IF left % Width > PerPage THEN PerPage ELSE left % Width

\* Mutant: the completion is expected in the entry after it.
SlotNext(q) == nvme_queue_allocate(q, q.ctail)
Slot(q) == q.ctail

\* nlb is count - 1, 16 bits wide.
Issue(c) ==
    LET l == call[c]
        count == Count(l.blocks - l.offset)
    IN  /\ l.at = "issue" /\ l.offset < l.blocks /\ io.n < MaxIo
        /\ io' = Submit(io, [op |-> "read", lba |-> l.lba + l.offset, nlb |-> (count - 1) % Width])
        /\ call' = [call EXCEPT ![c].at = "wait", ![c].count = count, ![c].slot = Slot(io)]
        /\ UNCHANGED <<ctl, pc, adm, page, failed>>

\* Mutant: the piece is put at the start of the buffer.
PlaceFirst(buf, offset, piece) == piece \o SubSeq(buf, Len(piece) + 1, Len(buf))
\* memcpy to buffer + offset * block_size.
Place(buf, offset, piece) == SubSeq(buf, 1, offset) \o piece

\* The loop ends, whatever the completion's status, and the page is copied.
Await(c) ==
    LET l == call[c]
    IN  /\ l.at = "wait" /\ Completed(io, l.slot)
        /\ call' = [call EXCEPT ![c].at = "issue", ![c].offset = @ + l.count,
                                ![c].buf = Place(@, l.offset, [i \in 1 .. l.count |-> page[i]])]
        /\ failed' = failed \cup Early(io, l.slot, "early")
        /\ UNCHANGED <<ctl, pc, adm, io, page>>

Return(c) ==
    /\ call[c].at = "issue" /\ call[c].offset >= call[c].blocks
    /\ call' = [call EXCEPT ![c] = Out]
    /\ UNCHANGED <<ctl, pc, adm, io, page, failed>>
-----------------------------------------------------------------------------
(* The controller.                                                         *)

CtlReady == /\ ctl.ready # ctl.enabled /\ ~ctl.fatal
            /\ \/ ctl' = [ctl EXCEPT !.ready = ctl.enabled]
               \/ ctl.enabled /\ ctl' = [ctl EXCEPT !.fatal = TRUE]
            /\ UNCHANGED <<pc, adm, io, page, call, failed>>

CtlAdmin(ok) ==
    /\ ctl.ready /\ Pending(adm)
    /\ adm' = Post(adm)
    /\ ctl' = IF ok THEN [ctl EXCEPT !.queues = @ \cup ({adm.ring[adm.head].op} \cap {"cq", "sq"})] ELSE ctl
    /\ failed' = IF ok THEN failed ELSE failed \cup {adm.ring[adm.head].op}
    /\ UNCHANGED <<pc, io, page, call>>

CtlRead(ok) ==
    LET cmd == io.ring[io.head]
    IN  /\ ctl.ready /\ Pending(io) /\ ctl.queues = {"cq", "sq"}
        /\ io' = Post(io)
        /\ page' = [i \in 1 .. PerPage |-> IF ok /\ i <= cmd.nlb + 1 THEN cmd.lba + i - 1 ELSE page[i]]
        /\ failed' = IF ok THEN failed ELSE failed \cup {"read"}
        /\ UNCHANGED <<ctl, pc, adm, call>>

Driver(c) == Issue(c) \/ Await(c) \/ Return(c)
InitStep == nvme_controller_reset \/ nvme_admin_queue_init \/ nvme_controller_start
            \/ SubmitAdmin \/ \E c \in Cpus : disk_scan(c)
Next ==
    \/ InitStep \/ nvme_submit_admin_await \/ CtlReady
    \/ \E ok \in BOOLEAN : CtlAdmin(ok) \/ CtlRead(ok)
    \/ \E c \in Cpus : Driver(c) \/ \E lba \in Lbas, blocks \in Blocks : nvme_read(c, lba, blocks)

\* CPUs and controller go on; a loop need not end at a bit that nobody has written.
Progress ==
    \/ InitStep \/ (Seen(adm, Last(adm)) /\ nvme_submit_admin_await) \/ CtlReady \/ CtlAdmin(TRUE) \/ CtlRead(TRUE)
    \/ \E c \in Cpus : Driver(c) /\ (call[c].at = "wait" => Seen(io, call[c].slot))
Spec == Init /\ [][Next]_vars /\ WF_vars(Progress)
-----------------------------------------------------------------------------
\* The completion queue has gone round: the bits of the last round are still
\* there, and the controller writes the other bit from now on.
Wrapped == io.n > IoSize
Alone == Cardinality(Cpus) = 1

\* Type invariant.
TypeOK ==
    /\ \A q \in {adm, io} : {q.tail, q.ctail, q.door, q.head, q.cpos} \subseteq 0 .. q.size - 1
    /\ \A c \in Cpus : call[c].at \in {"out", "issue", "wait"} /\ call[c].offset \in 0 .. call[c].blocks
    /\ ctl.queues \subseteq {"cq", "sq"}

\* On one CPU and until the queue has gone round, what a read has put in the
\* buffer are the blocks asked for, in order, as long as no command fails and every
\* completion is written before it is taken.
ReadsDisk ==
    (Alone /\ ~Wrapped /\ failed = {}) =>
        \A c \in Cpus : call[c].buf = [i \in 1 .. call[c].offset |-> call[c].lba + i - 1]

\* A command fits the page and stays inside what its read asks for, if that is
\* less than count can hold; otherwise one comes with count 0, which asks for
\* Width blocks, and the read makes no progress.
CommandFits ==
    \A c \in Cpus : (call[c].at = "wait" /\ call[c].blocks < Width) =>
        call[c].count \in 1 .. PerPage /\ call[c].offset + call[c].count <= call[c].blocks

\* A read is only sent to queues that the controller has made, unless one of the
\* commands that make them failed or was not waited for.
QueuesExist == (io.n > 0 /\ failed \cap {"cq", "sq"} = {}) => ctl.queues = {"cq", "sq"}
=============================================================================
