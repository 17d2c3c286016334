------------------------------- MODULE Process -------------------------------
(***************************************************************************)
(* The life of processes: sched/task.c, sched/task_sys.c and the delivery  *)
(* of signals in sched/signal.c, with sessions, process groups and the     *)
(* controlling terminal (tty_open and TIOCSPGRP of dev/tty.c).             *)
(*                                                                         *)
(* A process is in user mode, in a system call (which holds a CPU, because *)
(* gates mask interrupts), asleep or dead.  A system call is cut at the    *)
(* points where other CPUs can see it half done; with one CPU nothing      *)
(* comes in between.  Files, memory and names are left out: their counts   *)
(* are the subject of FileTable and VmSpace.                               *)
(***************************************************************************)
EXTENDS Integers, Sequences, FiniteSets, SequencesExt

CONSTANTS NumCpus,
          MaxPid   \* bound: pids 1 .. MaxPid are handed out, never again

Pids == 1 .. MaxPid
InitPid == 1

VARIABLES proc,     \* struct task of every pid
          tty,      \* session_id and fg_pgrp of the terminal
          next_pid,
          panic

vars == <<proc, tty, next_pid, panic>>

\* task_new: its own group and session, no parent.
task_new(p) ==
    [status |-> "NONE", can_reap |-> FALSE, parent |-> 0, children |-> <<>>,
     pgid |-> p, sid |-> p, tty |-> FALSE, sig_pending |-> {}, pc |-> "none"]

\* spawn_init: the first process, with no parent.
Init ==
    /\ proc = [p \in Pids |-> IF p = InitPid
                              THEN [task_new(p) EXCEPT !.status = "RUNNING", !.pc = "user"]
                              ELSE task_new(p)]
    /\ tty = [session_id |-> 0, fg_pgrp |-> 0]
    /\ next_pid = 2
    /\ panic = "none"

Exists(p) == p \in Pids /\ proc[p].status # "NONE"  \* on g_task_list
Busy == {p \in Pids : proc[p].pc \notin {"none", "new", "user", "asleep", "dead"}}
CpuFree == panic = "none" /\ Cardinality(Busy) < NumCpus
At(t, step) == panic = "none" /\ proc[t].pc = step
InUser(t) == CpuFree /\ proc[t].pc = "user"
is_session_leader(p) == proc[p].sid = p

\* Mutant: the sleeper is not woken.
SignalPendOnly(P, t, sig) == [P EXCEPT ![t].sig_pending = @ \cup {sig}]

\* send_signal: pending first, then wake; Tty.tla takes the two apart.
send_signal(P, t, sig) ==
    [P EXCEPT ![t].sig_pending = @ \cup {sig},
              ![t].status = IF @ = "INTR_SLEEPING" THEN "RUNNING" ELSE @]

-----------------------------------------------------------------------------
\* sys_spawn up to the list of children; the child does not run yet.
SpawnLink(t, setpgid) ==
    LET c == next_pid IN
    /\ InUser(t) /\ next_pid \in Pids
    /\ proc' = [proc EXCEPT
          ![c] = [@ EXCEPT !.status = "RUNNING", !.parent = t, !.pc = "new",
                           !.pgid = IF setpgid THEN c ELSE proc[t].pgid,
                           !.sid = proc[t].sid],
          ![t].children = <<c>> \o @,
          ![t].pc = "spawn"]
    /\ next_pid' = next_pid + 1
    /\ UNCHANGED <<tty, panic>>

\* sys_spawn: inherit the terminal, then sched_add_ready.
SpawnReady(t) ==
    \E c \in Pids :
        /\ At(t, "spawn") /\ At(c, "new") /\ proc[c].parent = t
        /\ proc' = [proc EXCEPT ![c].tty = proc[t].tty, ![c].pc = "user", ![t].pc = "return"]
        /\ UNCHANGED <<tty, next_pid, panic>>

\* sys_spawn without memory for the arguments: task_zombify of a child without children
\* or terminal; nobody is told.
SpawnFails(t) ==
    \E c \in Pids :
        /\ At(t, "spawn") /\ At(c, "new") /\ proc[c].parent = t
        /\ proc' = [proc EXCEPT ![c].status = "ZOMBIE", ![c].can_reap = TRUE, ![c].pc = "dead", ![t].pc = "return"]
        /\ UNCHANGED <<tty, next_pid, panic>>

\* sys_exit, called by the process or by signal_try_handle.
sys_exit(t) ==
    /\ IF t = InitPid
       THEN panic' = "init exited" /\ UNCHANGED proc
       ELSE /\ proc' = [proc EXCEPT ![t].status = "ZOMBIE", ![t].pc = "zombify"]
            /\ UNCHANGED panic
    /\ UNCHANGED <<tty, next_pid>>

Exit(t) == InUser(t) /\ sys_exit(t)

\* task_zombify: a session leader takes the terminal from its session ...
ZombifySession(t) ==
    /\ At(t, "zombify")
    /\ IF is_session_leader(t) /\ proc[t].tty
       THEN proc' = [p \in Pids |->
                       [proc[p] EXCEPT !.tty = @ /\ proc[p].sid # proc[t].sid,
                                       !.pc = IF p = t THEN "release_tty" ELSE @]]
       ELSE proc' = [proc EXCEPT ![t].pc = "reparent"]
    /\ UNCHANGED <<tty, next_pid, panic>>

\* Mutant: the terminal still names the dead session.
ZombifyForegroundOnly(t) ==
    /\ At(t, "release_tty")
    /\ tty' = [tty EXCEPT !.fg_pgrp = 0]
    /\ proc' = [proc EXCEPT ![t].pc = "reparent"]
    /\ UNCHANGED <<next_pid, panic>>

\* ... and frees it, under tty->lock.
ZombifyTty(t) ==
    /\ At(t, "release_tty")
    /\ tty' = [session_id |-> 0, fg_pgrp |-> 0]
    /\ proc' = [proc EXCEPT ![t].pc = "reparent"]
    /\ UNCHANGED <<next_pid, panic>>

\* Mutant: the children keep their dead parent.
NewParent(c, t) == proc[c].parent

\* init learns of children that are dead already.
AdoptDead(P, dead) == IF dead = {} THEN P ELSE send_signal(P, InitPid, "CHLD")

\* Whose child c becomes when t dies.
Adopter(c, t) == InitPid

\* task_zombify, under the child-list locks of init, the task and each child.
Reparent(t) ==
    LET kids == ToSet(proc[t].children)
        moved == [p \in Pids |->
                    [proc[p] EXCEPT
                        !.parent = IF p \in kids THEN Adopter(p, t) ELSE @,
                        !.children = CASE p = t -> <<>>
                                       [] p = InitPid -> Reverse(proc[t].children) \o @
                                       [] OTHER -> @,
                        !.pc = IF p = t THEN "mark" ELSE @]]
    IN  /\ At(t, "reparent")
        /\ proc' = AdoptDead(moved, {c \in kids : proc[c].status = "ZOMBIE"})
        /\ UNCHANGED <<tty, next_pid, panic>>

\* task_zombify: everything is given back, the parent may reap.
MarkReapable(t) ==
    /\ At(t, "mark")
    /\ proc' = [proc EXCEPT ![t].can_reap = TRUE, ![t].pc = "notify"]
    /\ UNCHANGED <<tty, next_pid, panic>>

\* sys_exit: SIGCHLD to whoever is the parent now, then leave the CPU for good.
NotifyParent(t) ==
    /\ At(t, "notify")
    /\ proc' = [send_signal(proc, proc[t].parent, "CHLD") EXCEPT ![t].pc = "dead"]
    /\ UNCHANGED <<tty, next_pid, panic>>

-----------------------------------------------------------------------------
\* Mutant: any child that does not run will do.
ReapableStopped(c) == proc[c].status # "RUNNING"

Reapable(c) == proc[c].status = "ZOMBIE" /\ proc[c].can_reap

\* task_destroy frees the task and its kernel stack.  If the task still runs on
\* that stack what follows is undefined, and the model ends.
task_destroy(t, c) ==
    /\ proc' = [proc EXCEPT ![c] = task_new(c), ![t].pc = "return",
                            ![t].children = SelectSeq(@, LAMBDA x : x # c)]
    /\ panic' = IF proc[c].pc = "dead" THEN panic ELSE "freed while running"

\* sys_waitpid under child_list_lock: the first child that can be reaped.
WaitScan(t) ==
    LET kids == proc[t].children IN
    /\ InUser(t) \/ At(t, "scan")
    /\ \/ /\ kids = <<>>
          /\ proc' = [proc EXCEPT ![t].pc = "return"] /\ UNCHANGED panic
       \/ \E i \in DOMAIN kids :
             /\ Reapable(kids[i]) /\ \A j \in 1 .. (i - 1) : ~Reapable(kids[j])
             /\ task_destroy(t, kids[i])
       \/ /\ kids # <<>> /\ \A i \in DOMAIN kids : ~Reapable(kids[i])
          /\ proc' = [proc EXCEPT ![t].pc = "signals"] /\ UNCHANGED panic
    /\ UNCHANGED <<tty, next_pid>>

\* Mutant: pending signals are not looked at before sleeping.
WaitSignalsIgnored(t) ==
    /\ At(t, "signals")
    /\ proc' = [proc EXCEPT ![t].pc = "sleep"]
    /\ UNCHANGED <<tty, next_pid, panic>>

\* sys_waitpid: -EINTR if a signal is pending.
WaitSignals(t) ==
    /\ At(t, "signals")
    /\ proc' = [proc EXCEPT ![t].pc = IF proc[t].sig_pending # {} THEN "return" ELSE "sleep"]
    /\ UNCHANGED <<tty, next_pid, panic>>

WaitSleep(t) ==
    /\ At(t, "sleep")
    /\ proc' = [proc EXCEPT ![t].status = "INTR_SLEEPING", ![t].pc = "asleep"]
    /\ UNCHANGED <<tty, next_pid, panic>>

WaitResume(t) ==
    /\ CpuFree /\ proc[t].pc = "asleep" /\ proc[t].status = "RUNNING"
    /\ proc' = [proc EXCEPT ![t].pc = "scan"]
    /\ UNCHANGED <<tty, next_pid, panic>>

\* signal_try_handle on the way back to user mode, after a system call or
\* an interrupt: SIGCHLD is dropped, anything else ends the process.
signal_try_handle(t) ==
    /\ At(t, "return") \/ (InUser(t) /\ proc[t].sig_pending # {})
    /\ IF proc[t].sig_pending \subseteq {"CHLD"}
       THEN /\ proc' = [proc EXCEPT ![t].sig_pending = {}, ![t].pc = "user"]
            /\ UNCHANGED <<tty, next_pid, panic>>
       ELSE sys_exit(t)

-----------------------------------------------------------------------------
\* Mutant: the new session keeps the terminal of the old one.
SetsidKeepingTty(t) ==
    /\ InUser(t) /\ proc[t].pgid # t
    /\ proc' = [proc EXCEPT ![t].pgid = t, ![t].sid = t]
    /\ UNCHANGED <<tty, next_pid, panic>>

sys_setsid(t) ==
    /\ InUser(t) /\ proc[t].pgid # t
    /\ proc' = [proc EXCEPT ![t].pgid = t, ![t].sid = t, ![t].tty = FALSE]
    /\ UNCHANGED <<tty, next_pid, panic>>

sys_setpgid(t, g) ==
    /\ InUser(t) /\ ~is_session_leader(t)
    /\ g # t => Exists(g) /\ proc[g].sid = proc[t].sid
    /\ proc' = [proc EXCEPT ![t].pgid = g]
    /\ UNCHANGED <<tty, next_pid, panic>>

\* tty_open: the check ...
MayTakeTty(t) == ~proc[t].tty /\ is_session_leader(t) /\ tty.session_id = 0

TtyOpenCheck(t) ==
    /\ InUser(t) /\ MayTakeTty(t)
    /\ proc' = [proc EXCEPT ![t].pc = "open"]
    /\ UNCHANGED <<tty, next_pid, panic>>

\* ... and, with no lock in between, the assignments.
TtyOpenSet(t) ==
    /\ At(t, "open")
    /\ proc' = [proc EXCEPT ![t].tty = TRUE, ![t].pc = "return"]
    /\ tty' = [session_id |-> proc[t].sid, fg_pgrp |-> proc[t].pgid]
    /\ UNCHANGED <<next_pid, panic>>

\* tty_ioctl TIOCSPGRP.
MayForeground(t, g) ==
    /\ proc[t].tty /\ proc[t].sid = tty.session_id
    /\ Exists(g) /\ proc[g].sid = proc[t].sid
SetForeground(t, g) ==
    /\ InUser(t) /\ MayForeground(t, g)
    /\ tty' = [tty EXCEPT !.fg_pgrp = g]
    /\ UNCHANGED <<proc, next_pid, panic>>

\* tty_consume meets VINTR: pgrp_send_signal walks the task list.
pgrp_send_signal ==
    /\ CpuFree /\ tty.fg_pgrp # 0
    /\ proc' = [p \in Pids |->
                  IF Exists(p) /\ proc[p].pgid = tty.fg_pgrp
                  THEN send_signal(proc, p, "INT")[p] ELSE proc[p]]
    /\ UNCHANGED <<tty, next_pid, panic>>

ExitStep(t) == \/ ZombifySession(t) \/ ZombifyTty(t) \/ Reparent(t)
               \/ MarkReapable(t) \/ NotifyParent(t)
WaitStep(t) == WaitScan(t) \/ WaitSignals(t) \/ WaitSleep(t) \/ WaitResume(t)
KernelStep(t) ==
    \/ SpawnReady(t) \/ SpawnFails(t) \/ ExitStep(t) \/ TtyOpenSet(t) \/ signal_try_handle(t)
    \/ WaitSignals(t) \/ WaitSleep(t) \/ WaitResume(t) \/ (At(t, "scan") /\ WaitScan(t))

Life ==
    \E t \in Pids :
        \/ \E b \in BOOLEAN : SpawnLink(t, b)
        \/ SpawnReady(t) \/ SpawnFails(t)
        \/ Exit(t) \/ ExitStep(t) \/ WaitStep(t)
        \/ signal_try_handle(t)
Terminal ==
    \/ \E t \in Pids :
          \/ sys_setsid(t) \/ TtyOpenCheck(t) \/ TtyOpenSet(t)
          \/ \E g \in Pids : sys_setpgid(t, g) \/ SetForeground(t, g)
    \/ pgrp_send_signal

Next == Life \/ Terminal

Spec == Init /\ [][Next]_vars

\* Processes that never touch the terminal.
LifeSpec == Init /\ [][Life]_vars

\* schedule() is round robin, so a process that is ready gets a CPU again and
\* again; init does nothing but spawn and wait.
FairSpec == Spec /\ SF_vars(WaitScan(InitPid))
                 /\ \A t \in Pids : SF_vars(KernelStep(t))

-----------------------------------------------------------------------------
\* Type invariant.
TypeOK ==
    /\ proc \in [Pids ->
          [status : {"NONE", "RUNNING", "INTR_SLEEPING", "ZOMBIE"}, can_reap : BOOLEAN,
           parent : Pids \cup {0}, children : Seq(Pids), pgid : Pids, sid : Pids,
           tty : BOOLEAN, sig_pending : SUBSET {"CHLD", "INT"},
           pc : {"none", "new", "user", "spawn", "zombify", "release_tty", "reparent", "mark",
                 "notify", "dead", "scan", "signals", "sleep", "asleep", "open", "return"}]]
    /\ tty \in [session_id : Pids \cup {0}, fg_pgrp : Pids \cup {0}]
    /\ next_pid \in 2 .. (MaxPid + 1)

\* Every process but init is in the child list of its parent, once, and the
\* parent exists, through spawns, exits, adoptions and reaps on several CPUs.
FamilyTree ==
    panic = "none" =>
    \A p \in Pids :
        /\ Exists(p) /\ p # InitPid =>
              Exists(proc[p].parent) /\ p \in ToSet(proc[proc[p].parent].children)
        /\ \A i, j \in DOMAIN proc[p].children : 
              /\ i # j => proc[p].children[i] # proc[p].children[j]
              /\ proc[proc[p].children[i]].parent = p

\* task_destroy never frees a task that still runs on its kernel stack.
FreedAfterLastStep == panic # "freed while running"

\* A process does not sleep in waitpid while one of its children could be reaped.
NoLostChild ==
    panic = "none" =>
    \A p \in Pids : proc[p].status = "INTR_SLEEPING" =>
        \A c \in ToSet(proc[p].children) : Reapable(c) => proc[c].pc = "notify"

\* Only a session that owns the terminal has members that use it, and no member
\* keeps it once the leader has given it back in task_zombify.
TerminalOfSession ==
    panic = "none" =>
    \A p \in Pids : proc[p].tty => tty.session_id = proc[p].sid
=============================================================================
