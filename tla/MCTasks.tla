------------------------------- MODULE MCTasks -------------------------------
(***************************************************************************)
(* Instances of the scheduler (Sched), of process life (Process), each on  *)
(* one and on two CPUs, and of the programs on the terminal (Session: pids *)
(* for two sessions and some jobs) for TLC.  A behaviour is one of one of  *)
(* them, and `which' says of which; the variables of the others are Off.   *)
(***************************************************************************)
EXTENDS Integers, Sequences, FiniteSets

CONSTANTS t1, t2, t3, NoTask, Off

VARIABLES which,
          runqueue, status, current, pc, next, cur_running, steal_sdata, raced,  \* Sched, with panic
          proc, tty, next_pid,                                                   \* Process, with panic
          keys, prog, got,                                                       \* Session, with Process's
          panic

schedVars == <<runqueue, status, current, pc, next, cur_running, steal_sdata, raced>>
processVars == <<proc, tty, next_pid>>
sessionVars == <<keys, prog, got>>
vars == <<which, schedVars, processVars, sessionVars, panic>>

OneCpu == INSTANCE Sched WITH NumCpus <- 1, Tasks <- {t1, t2, t3}
TwoCpus == INSTANCE Sched WITH NumCpus <- 2, Tasks <- {t1, t2}
Process == INSTANCE Process WITH NumCpus <- 1, MaxPid <- 3
Family == INSTANCE Process WITH NumCpus <- 2, MaxPid <- 4
Programs == INSTANCE Session WITH NumCpus <- 1, MaxPid <- 6, MaxInterrupts <- 1

SchedOff == /\ runqueue = Off /\ status = Off /\ current = Off /\ pc = Off /\ next = Off
            /\ cur_running = Off /\ steal_sdata = Off /\ raced = Off
ProcessOff == proc = Off /\ tty = Off /\ next_pid = Off
SessionOff == keys = Off /\ prog = Off /\ got = Off

Init ==
    \/ which = "one cpu" /\ OneCpu!Init /\ ProcessOff /\ SessionOff
    \/ which = "two cpus" /\ TwoCpus!Init /\ ProcessOff /\ SessionOff
    \/ which = "process" /\ Process!Init /\ SchedOff /\ SessionOff
    \/ which = "family" /\ Family!Init /\ SchedOff /\ SessionOff
    \/ which = "programs" /\ Programs!SessionInit /\ SchedOff

OneCpuOnly(A) == which = "one cpu" /\ A /\ UNCHANGED <<which, processVars, sessionVars>>
ProcessOnly(A) == which = "process" /\ A /\ UNCHANGED <<which, schedVars, sessionVars>>

Next ==
    \/ OneCpuOnly(OneCpu!Next)
    \/ which = "two cpus" /\ TwoCpus!Next /\ UNCHANGED <<which, processVars, sessionVars>>
    \/ ProcessOnly(Process!Next)
    \/ which = "family" /\ Family!Life /\ UNCHANGED <<which, schedVars, sessionVars>>
    \/ which = "programs" /\ Programs!SessionNext /\ UNCHANGED <<which, schedVars>>

\* The fairness of Sched and Process, for the one that runs.
Spec ==
    /\ Init /\ [][Next]_vars
    /\ WF_vars(OneCpuOnly(OneCpu!Yield(1))) /\ WF_vars(OneCpuOnly(OneCpu!Schedule(1)))
    /\ SF_vars(ProcessOnly(Process!WaitScan(1)))
    /\ \A t \in 1 .. 3 : SF_vars(ProcessOnly(Process!KernelStep(t)))
-----------------------------------------------------------------------------
\* On one CPU a task that is ready is queued once, or runs, or is switched to;
\* on two, both run one task only after it was woken, or stolen, in the windows
\* that schedule() leaves between a change of status or a requeue and the switch.
TasksScheduledOnce ==
    /\ which = "one cpu" => OneCpu!TypeOK /\ OneCpu!NoTaskLost
    /\ which = "two cpus" => TwoCpus!TwoCpusOnlyByRace

\* Through spawns, exits, adoptions and reaps every process but init is in the list
\* of a parent that exists, once.  On one CPU, moreover, no task is freed while it
\* runs on its kernel stack, none sleeps in sys_waitpid over a dead child, and only
\* the session that owns the terminal uses it (task_zombify, task_destroy).
FamilySafe ==
    /\ which = "family" => Family!FamilyTree
    /\ which = "process" => /\ Process!TypeOK /\ Process!FreedAfterLastStep
                            /\ Process!NoLostChild /\ Process!TerminalOfSession

\* init never has two gettys; a getty that has opened the terminal owns it, also
\* after ^C has killed the session before it (task_zombify frees the terminal before
\* init starts the next); and at its prompt the shell is in the foreground,
\* whatever became of its job.
TerminalOwned ==
    which = "programs" => Programs!OneGetty /\ Programs!GettyOwnsTerminal /\ Programs!PromptInForeground

\* A task (they are alike) that is ready, a process that SIGINT was sent to, and one
\* that is dead ...
Waiting(p) ==
    \/ which = "one cpu" /\ status[t1] = "RUNNING"
    \/ which = "process" /\ ("INT" \in proc[p].sig_pending \/ proc[p].status = "ZOMBIE")

\* ... run again, or are reaped unless their parent is alive and does not ask.
Ended(p) ==
    \/ which = "one cpu" /\ current[1] = t1 /\ pc[1] = "run"
    \/ which = "process" /\ \/ proc[p].status = "NONE" \/ panic # "none"
                            \/ proc[p].status = "ZOMBIE" /\ proc[p].parent # 1

\* Who is ready is run: the timer preempts and queues are first in, first out
\* (schedule).  Who is interrupted ends, also out of sys_waitpid (send_signal,
\* signal_try_handle).  Who has ended is reaped if init is, or becomes, the parent
\* (sys_waitpid in init, the adoption in task_zombify).
TasksMoveOn == \A p \in 2 .. 3 : Waiting(p) ~> Ended(p)
=============================================================================
