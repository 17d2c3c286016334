-------------------------------- MODULE Sched --------------------------------
(***************************************************************************)
(* The scheduler of sched/scheduler.c: one run queue per CPU, schedule()   *)
(* in the steps at which other CPUs see its effects, stealing from another *)
(* CPU's queue, and the callers that put a task to sleep or make it ready. *)
(*                                                                         *)
(* A queue and its queue_entry_count change together.  Interrupts reach a  *)
(* CPU only in user mode or in its idle loop (every gate masks them), so   *)
(* on one CPU the steps of schedule() are not cut short; other CPUs run    *)
(* between them.                                                           *)
(***************************************************************************)
EXTENDS Integers, Sequences, FiniteSets, SequencesExt

CONSTANTS NumCpus, Tasks, NoTask

CPUs == 1 .. NumCpus

Idle(c) == <<"idle", c>>
IdleTasks == {Idle(c) : c \in CPUs}

VARIABLES runqueue,    \* sched_percpu_t.runqueue of each CPU
          status,      \* task.status; "NEW" before it is first made ready
          current,     \* cpu_t.current_task
          pc,          \* "run": outside schedule(); otherwise its next step
          next,        \* schedule()'s local next
          cur_running, \* schedule()'s local cur_running
          steal_sdata, \* schedule()'s local steal_sdata: a CPU, 0 if none
          raced,       \* history: tasks queued or stolen before their context was saved
          panic

vars == <<runqueue, status, current, pc, next, cur_running, steal_sdata, raced, panic>>

Init ==
    /\ runqueue = [c \in CPUs |-> <<>>]
    /\ status = [t \in Tasks \cup IdleTasks |-> IF t \in Tasks THEN "NEW" ELSE "RUNNING"]
    /\ current = [c \in CPUs |-> Idle(c)]
    /\ pc = [c \in CPUs |-> "run"]
    /\ next = [c \in CPUs |-> NoTask]
    /\ cur_running = [c \in CPUs |-> FALSE]
    /\ steal_sdata = [c \in CPUs |-> 0]
    /\ raced = {}
    /\ panic = "none"

OnCpu(t) == \E c \in CPUs : current[c] = t

Linked(t) == \E c \in CPUs : \E i \in DOMAIN runqueue[c] : runqueue[c][i] = t

\* Mutant: the task is linked at the front of the queue.
AddReadyFront(c, t) == runqueue' = [runqueue EXCEPT ![c] = <<t>> \o @] /\ UNCHANGED panic

\* sched_add_ready puts the task on the queue of the CPU that runs it.  To link
\* a node that is linked already destroys the list: the model ends there.
sched_add_ready(c, t) ==
    IF Linked(t) THEN panic' = "node linked twice" /\ UNCHANGED runqueue
    ELSE runqueue' = [runqueue EXCEPT ![c] = Append(@, t)] /\ UNCHANGED panic

\* process creation ends with sched_add_ready.
Spawn(c, t) ==
    /\ panic = "none" /\ pc[c] = "run" /\ status[t] = "NEW"
    /\ status' = [status EXCEPT ![t] = "RUNNING"]
    /\ sched_add_ready(c, t)
    /\ UNCHANGED <<current, pc, next, cur_running, steal_sdata, raced>>

\* send_signal, sleep_queue_tick, wait_queue_wake: wake a task that sleeps.
Wake(c, t) ==
    /\ panic = "none" /\ pc[c] = "run" /\ status[t] = "INTR_SLEEPING"
    /\ status' = [status EXCEPT ![t] = "RUNNING"]
    /\ sched_add_ready(c, t)
    /\ raced' = IF OnCpu(t) THEN raced \cup {t} ELSE raced
    /\ UNCHANGED <<current, pc, next, cur_running, steal_sdata>>

\* sys_waitpid's way to sleep: change the status, then call schedule().
Sleep(c) ==
    LET t == current[c] IN
    /\ panic = "none" /\ pc[c] = "run" /\ t \in Tasks
    /\ \/ /\ status[t] = "RUNNING"
          /\ status' = [status EXCEPT ![t] = "INTR_SLEEPING"]
          /\ pc' = [pc EXCEPT ![c] = "enter"]
          /\ UNCHANGED panic
       \/ /\ status[t] # "RUNNING"
          /\ panic' = "sys_wait: task in invalid state"
          /\ UNCHANGED <<status, pc>>
    /\ UNCHANGED <<runqueue, current, next, cur_running, steal_sdata, raced>>

\* The timer interrupt and sched_yield call schedule().
Yield(c) ==
    /\ panic = "none" /\ pc[c] = "run"
    /\ pc' = [pc EXCEPT ![c] = "enter"]
    /\ UNCHANGED <<runqueue, status, current, next, cur_running, steal_sdata, raced, panic>>

\* schedule() up to the lock: with nothing queued a running task goes on.
Enter(c) ==
    LET t == current[c]
        running == status[t] = "RUNNING"
    IN  /\ panic = "none" /\ pc[c] = "enter"
        /\ cur_running' = [cur_running EXCEPT ![c] = running]
        /\ pc' = [pc EXCEPT ![c] =
                     IF runqueue[c] = <<>> /\ running /\ t # Idle(c) THEN "run" ELSE "pick"]
        /\ UNCHANGED <<runqueue, status, current, next, steal_sdata, raced, panic>>

\* sched_find_most_loaded_queue: the pointer moves on only past queues that
\* are not empty, so the search ends at the first empty one.
Examined == {c \in CPUs : \A d \in 1 .. c : runqueue[d] # <<>>}
sched_find_most_loaded_queue ==
    {c \in Examined : \A d \in Examined :
        \/ Len(runqueue[d]) < Len(runqueue[c])
        \/ Len(runqueue[d]) = Len(runqueue[c]) /\ c <= d}

\* Mutant: the task taken is left on the queue.
TakeKeeping(c, q) ==
    /\ next' = [next EXCEPT ![c] = Head(runqueue[q])]
    /\ raced' = raced
    /\ UNCHANGED runqueue

\* The head of queue q, taken under q's lock.
Take(c, q) ==
    LET t == Head(runqueue[q]) IN
    /\ next' = [next EXCEPT ![c] = t]
    /\ runqueue' = [runqueue EXCEPT ![q] = Tail(@)]
    /\ raced' = IF \E d \in CPUs \ {c} : current[d] = t /\ pc[d] = "switch"
                THEN raced \cup {t} ELSE raced

\* schedule() under its own lock, or at the choice of a queue to steal from.
Pick(c) ==
    /\ panic = "none" /\ pc[c] = "pick"
    /\ \/ /\ runqueue[c] # <<>> /\ Take(c, c)
          /\ pc' = [pc EXCEPT ![c] = "requeue"]
          /\ UNCHANGED steal_sdata
       \/ /\ runqueue[c] = <<>>
          /\ next' = [next EXCEPT ![c] = Idle(c)]
          /\ \/ /\ sched_find_most_loaded_queue = {}
                /\ pc' = [pc EXCEPT ![c] = "requeue"]
                /\ UNCHANGED steal_sdata
             \/ \E q \in sched_find_most_loaded_queue :
                    /\ pc' = [pc EXCEPT ![c] = "steal"]
                    /\ steal_sdata' = [steal_sdata EXCEPT ![c] = q]
          /\ UNCHANGED <<runqueue, raced>>
    /\ UNCHANGED <<status, current, cur_running, panic>>

\* schedule() under the other queue's lock, which may have become empty.
Steal(c) ==
    LET q == steal_sdata[c] IN
    /\ panic = "none" /\ pc[c] = "steal"
    /\ \/ runqueue[q] # <<>> /\ Take(c, q)
       \/ runqueue[q] = <<>> /\ UNCHANGED <<runqueue, next, raced>>
    /\ pc' = [pc EXCEPT ![c] = "requeue"]
    /\ steal_sdata' = [steal_sdata EXCEPT ![c] = 0]
    /\ UNCHANGED <<status, current, cur_running, panic>>

\* Mutant: the idle task is queued as well.
RequeueIdleToo(c) == cur_running[c]
\* Mutant: a task that was running is not queued again.
RequeueNever(c) == FALSE

\* A task that was running goes back to the queue; the idle task never does.
RequeueCurrent(c) == cur_running[c] /\ current[c] # Idle(c)

\* Without the lock, and before the context of the current task is saved.
Requeue(c) ==
    /\ panic = "none" /\ pc[c] = "requeue"
    /\ IF RequeueCurrent(c) THEN sched_add_ready(c, current[c]) ELSE UNCHANGED <<runqueue, panic>>
    /\ pc' = [pc EXCEPT ![c] = "switch"]
    /\ UNCHANGED <<status, current, next, cur_running, steal_sdata, raced>>

cpu_switch_task(c) == current' = [current EXCEPT ![c] = next[c]]

\* native_context_switch saves the old stack pointer, loads the new one and
\* continues in cpu_switch_task.
Switch(c) ==
    /\ panic = "none" /\ pc[c] = "switch"
    /\ cpu_switch_task(c)
    /\ next' = [next EXCEPT ![c] = NoTask]
    /\ cur_running' = [cur_running EXCEPT ![c] = FALSE]
    /\ pc' = [pc EXCEPT ![c] = "run"]
    /\ UNCHANGED <<runqueue, status, steal_sdata, raced, panic>>

Schedule(c) == Enter(c) \/ Pick(c) \/ Steal(c) \/ Requeue(c) \/ Switch(c)

Next == \E c \in CPUs :
            \/ \E t \in Tasks : Spawn(c, t) \/ Wake(c, t)
            \/ Sleep(c)
            \/ Yield(c)
            \/ Schedule(c)

Spec == Init /\ [][Next]_vars

\* The timer is periodic on every CPU and schedule() runs to its end.
FairSpec == Spec /\ \A c \in CPUs : WF_vars(Yield(c)) /\ WF_vars(Schedule(c))

-----------------------------------------------------------------------------
\* Type invariant.
TypeOK ==
    /\ runqueue \in [CPUs -> Seq(Tasks)]
    /\ status \in [Tasks \cup IdleTasks -> {"NEW", "RUNNING", "INTR_SLEEPING"}]
    /\ current \in [CPUs -> Tasks \cup IdleTasks]
    /\ pc \in [CPUs -> {"run", "enter", "pick", "steal", "requeue", "switch"}]
    /\ steal_sdata \in [CPUs -> CPUs \cup {0}]
    /\ next \in [CPUs -> Tasks \cup IdleTasks \cup {NoTask}]
    /\ cur_running \in [CPUs -> BOOLEAN]
    /\ raced \subseteq Tasks

Places(t) ==
    Cardinality({c \in CPUs : current[c] = t /\ ~(pc[c] = "switch" /\ RequeueCurrent(c))})
  + Cardinality({c \in CPUs : next[c] = t})
  + Cardinality({x \in CPUs \X (1 .. Cardinality(Tasks)) :
                    x[2] <= Len(runqueue[x[1]]) /\ runqueue[x[1]][x[2]] = t})

\* Every task that is ready to run is on a queue exactly once, or running, or
\* the one a CPU is switching to, whatever schedule(), a wake-up and a sleep
\* do in between: none is forgotten and none is queued twice.
NoTaskLost == \A t \in Tasks : status[t] = "RUNNING" => Places(t) = 1

\* Two CPUs run the same task, on the same kernel stack, only after it was
\* woken between its change of status and its switch, or stolen between its
\* requeue and its switch: schedule() has no other way to run a task twice.
TwoCpusOnlyByRace ==
    \A c, d \in CPUs :
        c # d /\ current[c] = current[d] => current[c] \in raced

\* A task that is ready runs again: preemption is round robin.
ReadyRuns ==
    \A t \in Tasks :
        status[t] = "RUNNING" ~> \E c \in CPUs : current[c] = t /\ pc[c] = "run"
=============================================================================
