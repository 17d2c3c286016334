------------------------------- MODULE Mutex --------------------------------
(***************************************************************************)
(* The sleeping lock of sys/mutex.c, with the task states it goes through. *)
(*                                                                         *)
(* The body of mutex_lock and the loop of mutex_unlock run under the       *)
(* mutex's own spinlock, but a waiter only marks itself as sleeping after  *)
(* it has released it.  The wait queue is the stack threaded through       *)
(* task.next.  The scheduler is reduced to what mutex_lock relies on: a    *)
(* task that yields runs again once its status is RUNNING.  The idle task  *)
(* of a CPU is the exception, since schedule() returns to it whenever      *)
(* nothing else is ready; it meets a mutex when an interrupt it serves     *)
(* ends in tty_consume.  A session leader that exits takes tty->lock with  *)
(* its status already ZOMBIE (sys_exit, task_zombify).                     *)
(***************************************************************************)
EXTENDS Integers, FiniteSets

CONSTANTS Tasks,
          IdleTasks,  \* the idle tasks among them
          Leaders,    \* the tasks that may exit as leader of a tty session
          NoTask      \* nullptr

ASSUME MutexAssumption ==
    /\ IdleTasks \subseteq Tasks
    /\ Leaders \subseteq Tasks
    /\ NoTask \notin Tasks

VARIABLES locked,     \* mutex_t.locked
          waitqueue,  \* mutex_t.waitqueue
          next,       \* task.next
          spin,       \* the task inside mutex_unlock that holds mutex_t.spinlock
          status,     \* task.status
          pc,
          panic       \* the message the kernel stopped with

vars == <<locked, waitqueue, next, spin, status, pc, panic>>

mutex_init ==
    /\ locked = FALSE
    /\ waitqueue = NoTask
    /\ spin = NoTask

Init ==
    /\ mutex_init
    /\ next = [t \in Tasks |-> NoTask]
    /\ status = [t \in Tasks |-> "RUNNING"]
    /\ pc = [t \in Tasks |-> "out"]
    /\ panic = "none"

\* A task has nothing left to do with the mutex once it has died.
After(t) == IF status[t] = "ZOMBIE" THEN "dead" ELSE "out"
-----------------------------------------------------------------------------
\* mutex_lock of a mutex that is free.
LockFree(t) ==
    /\ pc[t] = "out" /\ spin = NoTask
    /\ ~locked
    /\ locked' = TRUE
    /\ pc' = [pc EXCEPT ![t] = "cs"]
    /\ UNCHANGED <<waitqueue, next, spin, status, panic>>

\* Mutant: the new waiter does not point to the ones before it.
LockPushUnlinked(t) ==
    /\ pc[t] = "out" /\ spin = NoTask
    /\ locked
    /\ waitqueue' = t
    /\ pc' = [pc EXCEPT ![t] = "pushed"]
    /\ UNCHANGED <<locked, next, spin, status, panic>>

\* mutex_lock of a mutex that is taken: the task pushes itself on the queue.
LockPush(t) ==
    /\ pc[t] = "out" /\ spin = NoTask
    /\ locked
    /\ next' = [next EXCEPT ![t] = waitqueue]
    /\ waitqueue' = t
    /\ pc' = [pc EXCEPT ![t] = "pushed"]
    /\ UNCHANGED <<locked, spin, status, panic>>

\* Mutant: the waiter sleeps interruptibly.
LockSleepInterruptible(t) ==
    /\ pc[t] = "pushed" /\ status[t] = "RUNNING"
    /\ status' = [status EXCEPT ![t] = "INTR_SLEEPING"]
    /\ pc' = [pc EXCEPT ![t] = "yield"]
    /\ UNCHANGED <<locked, waitqueue, next, spin, panic>>

\* mutex_lock: the compare-and-exchange that follows.
LockSleep(t) ==
    /\ pc[t] = "pushed"
    /\ \/ /\ status[t] \in {"RUNNING", "SLEEPING"}
          /\ status' = [status EXCEPT ![t] = "SLEEPING"]
          /\ pc' = [pc EXCEPT ![t] = "yield"]
          /\ UNCHANGED panic
       \/ /\ status[t] \notin {"RUNNING", "SLEEPING"}
          /\ panic' = "mutex_invalid_state"
          /\ UNCHANGED <<status, pc>>
    /\ UNCHANGED <<locked, waitqueue, next, spin>>

\* mutex_lock returns from sched_yield.
LockResume(t) ==
    /\ pc[t] = "yield"
    /\ status[t] = "RUNNING" \/ t \in IdleTasks
    /\ pc' = [pc EXCEPT ![t] = "cs"]
    /\ UNCHANGED <<locked, waitqueue, next, spin, status, panic>>

\* Mutant: the flag is not cleared.
UnlockBeginStillLocked(t) ==
    /\ pc[t] = "cs" /\ spin = NoTask
    /\ spin' = t
    /\ pc' = [pc EXCEPT ![t] = "unlock"]
    /\ UNCHANGED <<locked, waitqueue, next, status, panic>>

\* mutex_unlock clears the flag.
UnlockBegin(t) ==
    /\ pc[t] = "cs" /\ spin = NoTask
    /\ spin' = t
    /\ locked' = FALSE
    /\ pc' = [pc EXCEPT ![t] = "unlock"]
    /\ UNCHANGED <<waitqueue, next, status, panic>>

\* Mutant: after a task that has died, nobody else is woken.
UnlockPopOnce(t) ==
    LET w == waitqueue IN
    /\ pc[t] = "unlock" /\ w # NoTask
    /\ waitqueue' = next[w]
    /\ next' = [next EXCEPT ![w] = NoTask]
    /\ \/ /\ status[w] \in {"SLEEPING", "ZOMBIE"}
          /\ status' = [status EXCEPT ![w] = IF @ = "SLEEPING" THEN "RUNNING" ELSE @]
          /\ spin' = NoTask
          /\ pc' = [pc EXCEPT ![t] = After(t)]
          /\ UNCHANGED panic
       \/ /\ status[w] \notin {"SLEEPING", "ZOMBIE"}
          /\ panic' = "mutex_waiter_awake"
          /\ UNCHANGED <<status, spin, pc>>
    /\ UNCHANGED locked

\* Mutant: the popped waiter is made ready but its status is left alone.
UnlockPopStillSleeping(t) ==
    LET w == waitqueue IN
    /\ pc[t] = "unlock" /\ w # NoTask
    /\ status[w] = "SLEEPING"
    /\ waitqueue' = next[w]
    /\ next' = [next EXCEPT ![w] = NoTask]
    /\ spin' = NoTask
    /\ pc' = [pc EXCEPT ![t] = After(t)]
    /\ UNCHANGED <<locked, status, panic>>

\* mutex_unlock pops a waiter and wakes it; one that has died is passed over.
UnlockPop(t) ==
    LET w == waitqueue IN
    /\ pc[t] = "unlock" /\ w # NoTask
    /\ waitqueue' = next[w]
    /\ next' = [next EXCEPT ![w] = NoTask]
    /\ \/ /\ status[w] = "SLEEPING"
          /\ status' = [status EXCEPT ![w] = "RUNNING"]
          /\ spin' = NoTask
          /\ pc' = [pc EXCEPT ![t] = After(t)]
          /\ UNCHANGED panic
       \/ /\ status[w] = "ZOMBIE"
          /\ UNCHANGED <<status, spin, pc, panic>>
       \/ /\ status[w] \notin {"SLEEPING", "ZOMBIE"}
          /\ panic' = "mutex_waiter_awake"
          /\ UNCHANGED <<status, spin, pc>>
    /\ UNCHANGED locked

\* mutex_unlock finds nobody to wake.
UnlockEmpty(t) ==
    /\ pc[t] = "unlock" /\ waitqueue = NoTask
    /\ spin' = NoTask
    /\ pc' = [pc EXCEPT ![t] = After(t)]
    /\ UNCHANGED <<locked, waitqueue, next, status, panic>>

\* sys_exit of a session leader, up to the mutex_lock in task_zombify.
sys_exit(t) ==
    /\ t \in Leaders
    /\ pc[t] = "out" /\ status[t] = "RUNNING"
    /\ status' = [status EXCEPT ![t] = "ZOMBIE"]
    /\ UNCHANGED <<locked, waitqueue, next, spin, pc, panic>>

\* The steps that bring a task to the mutex, and the ones that follow.
Arrive(t) == panic = "none" /\ (LockFree(t) \/ LockPush(t) \/ sys_exit(t))
Proceed(t) ==
    /\ panic = "none"
    /\ LockSleep(t) \/ LockResume(t) \/ UnlockBegin(t) \/ UnlockPop(t) \/ UnlockEmpty(t)

Next == \E t \in Tasks : Arrive(t) \/ Proceed(t)

Spec == Init /\ [][Next]_vars

\* Critical sections end, and the scheduler runs what is ready.
FairSpec == Spec /\ \A t \in Tasks : WF_vars(Proceed(t))
-----------------------------------------------------------------------------
Statuses == {"RUNNING", "SLEEPING", "ZOMBIE"}
PCs == {"out", "pushed", "yield", "cs", "unlock", "dead"}

\* Type invariant.
TypeOK ==
    /\ locked \in BOOLEAN
    /\ waitqueue \in Tasks \cup {NoTask}
    /\ next \in [Tasks -> Tasks \cup {NoTask}]
    /\ spin \in Tasks \cup {NoTask}
    /\ status \in [Tasks -> Statuses]
    /\ pc \in [Tasks -> PCs]

\* S holds the head of the wait queue and, with a task, the one behind it.
Followed(S) ==
    /\ waitqueue # NoTask => waitqueue \in S
    /\ \A t \in S : next[t] # NoTask => next[t] \in S

\* The tasks met when the wait queue is followed from its head.
Listed == {t \in Tasks : \A S \in SUBSET Tasks : Followed(S) => t \in S}

\* The wait queue holds every task that sleeps or is about to, and only tasks
\* that are inside mutex_lock: mutex_unlock can wake each of them, and never
\* wakes a task for a lock it no longer waits for.
NoLostSleeper ==
    panic = "none" =>
        /\ {t \in Tasks : status[t] = "SLEEPING"} \subseteq Listed
        /\ {t \in Tasks : pc[t] = "pushed" /\ status[t] = "RUNNING"} \subseteq Listed
        /\ Listed \subseteq {t \in Tasks : pc[t] \in {"pushed", "yield"}}

\* A set flag means that somebody will clear it: the mutex cannot stay locked
\* with nobody between mutex_lock and mutex_unlock.
LockedMeansHeld == locked => \E t \in Tasks : pc[t] = "cs"

\* Nobody is lost: neither a sleeper off the queue nor a lock without a holder.
WaitersSafe == TypeOK /\ NoLostSleeper /\ LockedMeansHeld

\* While tasks wait, somebody is left to wake them: a task that will call
\* mutex_unlock, is inside it, or has been woken and is on its way.
NoOrphanWaiters ==
    panic = "none" /\ waitqueue # NoTask =>
        \E t \in Tasks :
            \/ pc[t] \in {"cs", "unlock"}
            \/ pc[t] = "yield" /\ status[t] = "RUNNING"

\* The queue is a stack, so new waiters overtake old ones; but once tasks stop
\* coming, everyone who waits in mutex_lock gets in, if the kernel lives.
WaitersDrain ==
    (<>[][\A t \in Tasks : ~Arrive(t)]_vars) =>
        \A t \in Tasks : pc[t] = "yield" ~> pc[t] = "cs" \/ panic # "none"

\* The check in mutex_unlock: a task found on the wait queue is asleep (or has
\* died).
QueuedTaskSleeps == panic # "mutex_waiter_awake"

\* The check in mutex_lock: a task that has to wait is running, or already
\* asleep.
WaiterStateValid == panic # "mutex_invalid_state"
=============================================================================
