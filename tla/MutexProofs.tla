---------------------------- MODULE MutexProofs -----------------------------
(***************************************************************************)
(* Proofs about the sleeping lock, for every set of tasks.  Two facts make *)
(* the waiter invariant inductive: the spinlock is held by the one task    *)
(* that is inside mutex_unlock, and a task whose status is SLEEPING is at  *)
(* the sched_yield of mutex_lock, so that popping it from the queue leaves *)
(* a woken task behind.                                                    *)
(***************************************************************************)
EXTENDS Mutex, TLAPS

\* One task at a time is inside mutex_unlock, and it holds the spinlock.
SpinOwner == \A t \in Tasks : pc[t] = "unlock" <=> spin = t

\* Only a task that yields in mutex_lock has the status SLEEPING.
SleeperYields == \A t \in Tasks : status[t] = "SLEEPING" => pc[t] = "yield"

WaiterInv == TypeOK /\ SpinOwner /\ SleeperYields /\ LockedMeansHeld /\ NoOrphanWaiters

\* The variables keep their types.
LEMMA TypeInit == Init => TypeOK
  BY Zenon, MutexAssumption DEF Init, mutex_init, TypeOK, Statuses, PCs

LEMMA TypeStep == TypeOK /\ [Next]_vars => TypeOK'
<1> SUFFICES ASSUME TypeOK, [Next]_vars PROVE TypeOK'
  OBVIOUS
<1> USE DEF TypeOK, Statuses, PCs
<1>1. CASE UNCHANGED vars
  BY <1>1 DEF vars
<1>2. ASSUME NEW t \in Tasks, Arrive(t) PROVE TypeOK'
  BY Zenon, <1>2 DEF Arrive, LockFree, LockPush, sys_exit
<1>3. ASSUME NEW t \in Tasks, Proceed(t) PROVE TypeOK'
  <2>1. CASE LockSleep(t)
    BY <2>1 DEF LockSleep
  <2>2. CASE LockResume(t)
    BY <2>2 DEF LockResume
  <2>3. CASE UnlockBegin(t)
    BY Zenon, <2>3 DEF UnlockBegin
  <2>4. CASE UnlockPop(t)
    <3>1. After(t) \in PCs /\ waitqueue \in Tasks
      BY <2>4 DEF After, UnlockPop
    <3> QED
      BY <2>4, <3>1 DEF UnlockPop
  <2>5. CASE UnlockEmpty(t)
    <3>1. After(t) \in PCs
      BY DEF After
    <3> QED
      BY <2>5, <3>1 DEF UnlockEmpty
  <2> QED
    BY <1>3, <2>1, <2>2, <2>3, <2>4, <2>5 DEF Proceed
<1> QED
  BY <1>1, <1>2, <1>3 DEF Next

\* mutex_t.locked is never left set with nobody in the critical section, idle
\* tasks and exiting session leaders included.
THEOREM Held == Spec => []LockedMeansHeld
<1>1. Init => LockedMeansHeld
  BY DEF Init, mutex_init, LockedMeansHeld
<1>2. TypeOK /\ LockedMeansHeld /\ [Next]_vars => LockedMeansHeld'
  <2> SUFFICES ASSUME TypeOK, LockedMeansHeld, [Next]_vars PROVE LockedMeansHeld'
    OBVIOUS
  <2> USE DEF TypeOK, LockedMeansHeld
  <2>1. CASE UNCHANGED vars
    BY <2>1 DEF vars
  <2>2. ASSUME NEW t \in Tasks, Arrive(t) PROVE LockedMeansHeld'
    BY Zenon, <2>2 DEF Arrive, LockFree, LockPush, sys_exit
  <2>3. ASSUME NEW t \in Tasks, Proceed(t) PROVE LockedMeansHeld'
    BY Zenon, <2>3 DEF Proceed, LockSleep, LockResume, UnlockBegin, UnlockPop, UnlockEmpty
  <2> QED
    BY <2>1, <2>2, <2>3 DEF Next
<1> QED
  BY <1>1, <1>2, TypeInit, TypeStep, PTL DEF Spec

LEMMA WaiterInit == Init => WaiterInv
  BY TypeInit, MutexAssumption
     DEF Init, mutex_init, WaiterInv, SpinOwner, SleeperYields, LockedMeansHeld, NoOrphanWaiters

\* Every step keeps the waiter invariant when no idle task uses the mutex.
LEMMA WaiterStep ==
    ASSUME IdleTasks = {} PROVE WaiterInv /\ [Next]_vars => WaiterInv'
<1> SUFFICES ASSUME WaiterInv, [Next]_vars PROVE WaiterInv'
  OBVIOUS
<1>0. TypeOK'
  BY TypeStep DEF WaiterInv
<1> USE MutexAssumption DEF WaiterInv, TypeOK
<1>1. CASE UNCHANGED vars
  BY <1>0, <1>1 DEF vars, SpinOwner, SleeperYields, LockedMeansHeld, NoOrphanWaiters
<1>2. ASSUME NEW t \in Tasks, Arrive(t) PROVE WaiterInv'
  <2>1. SpinOwner' /\ SleeperYields'
    BY <1>2 DEF Arrive, LockFree, LockPush, sys_exit, SpinOwner, SleeperYields
  <2>2. LockedMeansHeld'
    BY Zenon, <1>2 DEF Arrive, LockFree, LockPush, sys_exit, LockedMeansHeld
  <2>3. NoOrphanWaiters'
    BY <1>2 DEF Arrive, LockFree, LockPush, sys_exit, LockedMeansHeld, NoOrphanWaiters
  <2> QED
    BY <1>0, <2>1, <2>2, <2>3
<1>3. ASSUME NEW t \in Tasks, panic = "none", LockSleep(t) PROVE WaiterInv'
  BY <1>0, <1>3 DEF LockSleep, SpinOwner, SleeperYields, LockedMeansHeld, NoOrphanWaiters
<1>4. ASSUME NEW t \in Tasks, panic = "none", LockResume(t) PROVE WaiterInv'
  BY <1>0, <1>4 DEF LockResume, SpinOwner, SleeperYields, LockedMeansHeld, NoOrphanWaiters
<1>5. ASSUME NEW t \in Tasks, panic = "none", UnlockBegin(t) PROVE WaiterInv'
  BY <1>0, <1>5 DEF UnlockBegin, SpinOwner, SleeperYields, LockedMeansHeld, NoOrphanWaiters
<1>6. ASSUME NEW t \in Tasks, panic = "none", UnlockPop(t) PROVE WaiterInv'
  <2> DEFINE w == waitqueue
  <2>1. PICK p \in {"dead", "out"} : p = After(t)
    BY DEF After
  <2>2. w \in Tasks
    BY <1>6 DEF UnlockPop
  <2>3. CASE status[w] = "SLEEPING"
    <3>1. pc[w] = "yield" /\ w # t
      BY <1>6, <2>2, <2>3 DEF SleeperYields, UnlockPop
    <3>2. /\ status' = [status EXCEPT ![w] = "RUNNING"]
          /\ pc' = [pc EXCEPT ![t] = p]
          /\ spin' = NoTask /\ locked' = locked
      BY <1>6, <2>1, <2>3 DEF UnlockPop
    <3>3. SpinOwner'
      BY <1>6, <2>1, <3>2 DEF SpinOwner, UnlockPop
    <3>4. SleeperYields'
      BY <1>6, <2>1, <2>2, <3>1, <3>2 DEF SleeperYields, UnlockPop
    <3>5. LockedMeansHeld'
      <4> SUFFICES ASSUME locked' PROVE \E u \in Tasks : pc'[u] = "cs"
        BY DEF LockedMeansHeld
      <4>1. PICK u \in Tasks : pc[u] = "cs"
        BY <3>2 DEF LockedMeansHeld
      <4>2. u # t
        BY <1>6, <4>1 DEF UnlockPop
      <4> QED
        BY <3>2, <4>1, <4>2
    <3>6. NoOrphanWaiters'
      BY <2>2, <3>1, <3>2 DEF NoOrphanWaiters
    <3> QED
      BY <1>0, <3>3, <3>4, <3>5, <3>6
  <2>4. CASE status[w] # "SLEEPING"
    <3>1. status' = status /\ pc' = pc /\ spin' = spin /\ locked' = locked
      BY <1>6, <2>4 DEF UnlockPop
    <3>2. NoOrphanWaiters'
      BY <1>6, <3>1 DEF NoOrphanWaiters, UnlockPop
    <3> QED
      BY <1>0, <3>1, <3>2 DEF SpinOwner, SleeperYields, LockedMeansHeld
  <2> QED
    BY <2>3, <2>4
<1>7. ASSUME NEW t \in Tasks, panic = "none", UnlockEmpty(t) PROVE WaiterInv'
  <2>1. PICK p \in {"dead", "out"} : p = After(t)
    BY DEF After
  <2>2. pc' = [pc EXCEPT ![t] = p]
    BY <1>7, <2>1 DEF UnlockEmpty
  <2> QED
    BY <1>0, <1>7, <2>1, <2>2
       DEF UnlockEmpty, SpinOwner, SleeperYields, LockedMeansHeld, NoOrphanWaiters
<1> QED
  BY <1>1, <1>2, <1>3, <1>4, <1>5, <1>6, <1>7 DEF Next, Proceed

\* The inductive invariant holds in every reachable state.
THEOREM WaiterInvariant == ASSUME IdleTasks = {} PROVE Spec => []WaiterInv
<1>1. WaiterInv /\ [Next]_vars => WaiterInv'
  BY WaiterStep
<1> QED
  BY <1>1, WaiterInit, PTL DEF Spec

\* Type correctness of the mutex and of the states of its tasks.
THEOREM TypeCorrect == Spec => []TypeOK
  BY TypeInit, TypeStep, PTL DEF Spec

\* However many tasks contend for the mutex and die waiting for it, the wait
\* queue is never left with nobody to call mutex_unlock.
THEOREM WaitersHaveAWaker == ASSUME IdleTasks = {} PROVE Spec => []NoOrphanWaiters
<1>1. WaiterInv => NoOrphanWaiters
  BY DEF WaiterInv
<1> QED
  BY <1>1, WaiterInvariant, PTL

\* A waiter on the queue that has yielded sleeps until mutex_unlock wakes it.
ListedSleeps == panic = "none" => \A t \in Listed : pc[t] = "yield" => status[t] = "SLEEPING"

\* The links of task.next form one chain that starts at the head: nobody points to
\* the head, no two tasks to the same one, and a task off the queue to nobody.
OneChain ==
    /\ waitqueue # NoTask => \A t \in Tasks : next[t] # waitqueue
    /\ \A t, u \in Tasks : next[t] = next[u] /\ next[t] # NoTask => t = u
    /\ \A t \in Tasks : next[t] # NoTask => t \in Listed

QueueInv == TypeOK /\ SleeperYields /\ ListedSleeps /\ OneChain /\ NoLostSleeper

\* The queue can be followed along its tasks, and within any other set that can be.
LEMMA ListedFollowed ==
    ASSUME TypeOK
    PROVE  /\ Listed \subseteq Tasks /\ Followed(Listed)
           /\ \A S \in SUBSET Tasks : Followed(S) => Listed \subseteq S
  BY DEF TypeOK, Listed, Followed

\* mutex_lock puts the task in front of those on the queue.
LEMMA ListedPush ==
    ASSUME TypeOK, NEW t \in Tasks, LockPush(t), t \notin Listed
    PROVE  Listed' = Listed \cup {t}
<1>0. /\ waitqueue' = t /\ next' = [next EXCEPT ![t] = waitqueue]
      /\ next \in [Tasks -> Tasks \cup {NoTask}] /\ waitqueue \in Tasks \cup {NoTask}
  BY DEF LockPush, TypeOK
<1> DEFINE L == Listed \cup {t}
<1>1. PICK M \in SUBSET Tasks : M = L
  BY Zenon, ListedFollowed
<1>2. Listed' \subseteq L
  <2>1. Followed(M)'
    BY <1>0, <1>1, ListedFollowed DEF Followed
  <2> QED
    BY <1>1, <2>1 DEF Listed
<1>3. ASSUME NEW S \in SUBSET Tasks, Followed(S)' PROVE Listed \cup {t} \subseteq S
  <2>1. Followed(S \cap Listed)
    BY <1>0, <1>3, ListedFollowed, MutexAssumption DEF Followed
  <2>2. Listed \subseteq S
    BY <2>1, ListedFollowed
  <2> QED
    BY <1>0, <1>3, <2>2, MutexAssumption DEF Followed
<1>4. Listed \cup {t} \subseteq Listed'
  BY <1>3, ListedFollowed DEF Listed
<1> QED
  BY <1>2, <1>4

\* mutex_unlock takes the first task off the queue, and leaves the others on it.
LEMMA ListedPop ==
    ASSUME TypeOK, OneChain, NEW t \in Tasks, UnlockPop(t)
    PROVE  Listed' = Listed \ {waitqueue}
<1> DEFINE w == waitqueue
<1>0. /\ w \in Tasks /\ waitqueue' = next[w] /\ next' = [next EXCEPT ![w] = NoTask]
      /\ next \in [Tasks -> Tasks \cup {NoTask}]
  BY DEF UnlockPop, TypeOK
<1> DEFINE L == Listed \ {w}
<1>1. PICK M \in SUBSET Tasks : M = L
  BY Zenon, ListedFollowed
<1>2. Listed' \subseteq L
  <2>1. Followed(M)'
    BY <1>0, <1>1, ListedFollowed, MutexAssumption DEF Followed, OneChain
  <2> QED
    BY <1>1, <2>1 DEF Listed
<1>3. ASSUME NEW S \in SUBSET Tasks, Followed(S)' PROVE Listed \ {w} \subseteq S
  <2>1. Followed(S \cup {w})
    BY <1>0, <1>3 DEF Followed
  <2> QED
    BY <1>0, <2>1, ListedFollowed
<1>4. Listed \ {w} \subseteq Listed'
  BY <1>3, ListedFollowed DEF Listed
<1> QED
  BY <1>2, <1>4

\* The queue is the same as long as neither its head nor a link changes.
LEMMA ListedSame == ASSUME waitqueue' = waitqueue, next' = next PROVE Listed' = Listed
  BY DEF Listed, Followed

LEMMA QueueInit == Init => QueueInv
<1> SUFFICES ASSUME Init PROVE QueueInv
  OBVIOUS
<1>1. TypeOK
  BY TypeInit
<1>2. Followed({})
  BY DEF Init, mutex_init, Followed
<1>3. Listed = {}
  BY <1>1, <1>2, ListedFollowed
<1> QED
  BY <1>1, <1>3, MutexAssumption
     DEF Init, mutex_init, QueueInv, SleeperYields, ListedSleeps, OneChain, NoLostSleeper

\* Every step keeps the queue complete when no idle task uses the mutex.
LEMMA QueueStep ==
    ASSUME IdleTasks = {} PROVE QueueInv /\ [Next]_vars => QueueInv'
<1> SUFFICES ASSUME QueueInv, [Next]_vars PROVE QueueInv'
  OBVIOUS
<1>0. TypeOK'
  BY TypeStep DEF QueueInv
<1> USE MutexAssumption DEF QueueInv, TypeOK
<1>1. CASE UNCHANGED vars
  <2>1. Listed' = Listed
    BY <1>1, ListedSame DEF vars
  <2> QED
    BY <1>0, <1>1, <2>1 DEF vars, SleeperYields, ListedSleeps, OneChain, NoLostSleeper
<1>2. ASSUME NEW t \in Tasks, panic = "none", LockFree(t) PROVE QueueInv'
  <2>1. Listed' = Listed
    BY <1>2, ListedSame DEF LockFree
  <2> QED
    BY <1>0, <1>2, <2>1 DEF LockFree, SleeperYields, ListedSleeps, OneChain, NoLostSleeper
<1>3. ASSUME NEW t \in Tasks, panic = "none", LockPush(t) PROVE QueueInv'
  <2>1. t \notin Listed
    BY <1>3 DEF LockPush, NoLostSleeper
  <2>2. Listed' = Listed \cup {t}
    BY <1>3, <2>1, ListedPush
  <2>3. OneChain'
    <3>1. \A u \in Tasks : next[u] # t /\ next[t] = NoTask
      BY <2>1, ListedFollowed DEF OneChain, Followed
    <3>2. next' = [next EXCEPT ![t] = waitqueue] /\ waitqueue' = t
      BY <1>3 DEF LockPush
    <3>3. \A u \in Tasks : next'[u] # t
      BY <2>1, <3>1, <3>2, ListedFollowed DEF Followed
    <3>4. \A u, x \in Tasks : next'[u] = next'[x] /\ next'[u] # NoTask => u = x
      BY <3>1, <3>2 DEF OneChain
    <3>5. \A u \in Tasks : next'[u] # NoTask => u \in Listed'
      BY <2>2, <3>2 DEF OneChain
    <3> QED
      BY <3>2, <3>3, <3>4, <3>5 DEF OneChain
  <2>4. SleeperYields' /\ ListedSleeps' /\ NoLostSleeper'
    BY <1>3, <2>2 DEF LockPush, SleeperYields, ListedSleeps, NoLostSleeper
  <2> QED
    BY <1>0, <2>3, <2>4
<1>4. ASSUME NEW t \in Tasks, panic = "none", LockSleep(t) PROVE QueueInv'
  <2>1. Listed' = Listed
    BY <1>4, ListedSame DEF LockSleep
  <2> QED
    BY <1>0, <1>4, <2>1 DEF LockSleep, SleeperYields, ListedSleeps, OneChain, NoLostSleeper
<1>5. ASSUME NEW t \in Tasks, panic = "none", LockResume(t) PROVE QueueInv'
  <2>1. Listed' = Listed
    BY <1>5, ListedSame DEF LockResume
  <2> QED
    BY <1>0, <1>5, <2>1 DEF LockResume, SleeperYields, ListedSleeps, OneChain, NoLostSleeper
<1>6. ASSUME NEW t \in Tasks, panic = "none", UnlockBegin(t) PROVE QueueInv'
  <2>1. Listed' = Listed
    BY <1>6, ListedSame DEF UnlockBegin
  <2> QED
    BY <1>0, <1>6, <2>1 DEF UnlockBegin, SleeperYields, ListedSleeps, OneChain, NoLostSleeper
<1>7. ASSUME NEW t \in Tasks, panic = "none", UnlockPop(t) PROVE QueueInv'
  <2> DEFINE w == waitqueue
  <2>1. PICK p \in {"dead", "out"} : p = After(t)
    BY DEF After
  <2>2. w \in Tasks /\ pc[t] = "unlock" /\ next' = [next EXCEPT ![w] = NoTask] /\ waitqueue' = next[w]
    BY <1>7 DEF UnlockPop
  <2>3. Listed' = Listed \ {w}
    BY <1>7, ListedPop
  <2>4. OneChain'
    BY <2>2, <2>3, ListedFollowed DEF OneChain
  <2>5. CASE status[w] = "SLEEPING"
    <3>1. status' = [status EXCEPT ![w] = "RUNNING"] /\ pc' = [pc EXCEPT ![t] = p] /\ panic' = panic
      BY <1>7, <2>1, <2>5 DEF UnlockPop
    <3>2. pc[w] = "yield" /\ t \notin Listed
      BY <1>7, <2>2, <2>5 DEF SleeperYields, NoLostSleeper
    <3>3. SleeperYields' /\ ListedSleeps'
      BY <1>7, <2>1, <2>2, <2>3, <3>1, <3>2 DEF SleeperYields, ListedSleeps
    <3>4. NoLostSleeper'
      BY <1>7, <2>1, <2>2, <2>3, <3>1, <3>2 DEF NoLostSleeper
    <3> QED
      BY <1>0, <2>4, <3>3, <3>4
  <2>6. CASE status[w] # "SLEEPING"
    <3>1. status' = status /\ pc' = pc /\ (panic' = "none" => status[w] = "ZOMBIE")
      BY <1>7, <2>6 DEF UnlockPop
    <3> QED
      BY <1>0, <1>7, <2>3, <2>4, <2>6, <3>1 DEF SleeperYields, ListedSleeps, NoLostSleeper
  <2> QED
    BY <2>5, <2>6
<1>8. ASSUME NEW t \in Tasks, panic = "none", UnlockEmpty(t) PROVE QueueInv'
  <2>1. PICK p \in {"dead", "out"} : p = After(t)
    BY DEF After
  <2>2. pc' = [pc EXCEPT ![t] = p] /\ pc[t] = "unlock"
    BY <1>8, <2>1 DEF UnlockEmpty
  <2>3. Listed' = Listed
    BY <1>8, ListedSame DEF UnlockEmpty
  <2> QED
    BY <1>0, <1>8, <2>1, <2>2, <2>3
       DEF UnlockEmpty, SleeperYields, ListedSleeps, OneChain, NoLostSleeper
<1>9. ASSUME NEW t \in Tasks, panic = "none", sys_exit(t) PROVE QueueInv'
  <2>1. Listed' = Listed
    BY <1>9, ListedSame DEF sys_exit
  <2> QED
    BY <1>0, <1>9, <2>1 DEF sys_exit, SleeperYields, ListedSleeps, OneChain, NoLostSleeper
<1> QED
  BY <1>1, <1>2, <1>3, <1>4, <1>5, <1>6, <1>7, <1>8, <1>9 DEF Next, Arrive, Proceed

\* However tasks come, die and leave, the wait queue of the mutex holds all that
\* sleep on it and no other, and a locked mutex has a holder, whatever the number
\* of tasks (mutex_lock, mutex_unlock).
THEOREM NobodyLost == ASSUME IdleTasks = {} PROVE Spec => []WaitersSafe
<1>1. QueueInv /\ [Next]_vars => QueueInv'
  BY QueueStep
<1>2. Spec => []QueueInv
  BY <1>1, QueueInit, PTL DEF Spec
<1>3. QueueInv /\ LockedMeansHeld => WaitersSafe
  BY DEF QueueInv, WaitersSafe
<1> QED
  BY <1>2, <1>3, Held, PTL
=============================================================================
