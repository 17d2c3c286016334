---------------------------- MODULE SleepQueue -----------------------------
(***************************************************************************)
(* clock_nanosleep and the queue of a CPU's sleepers (sched/task_sleep.c): *)
(* a list of descriptors, each with the time that it has left after the    *)
(* one before, that lie on the stacks of the sleeping tasks.  The timer    *)
(* interrupt (sys/timer.c, arch/x86_64/interrupts.c) wakes those whose time*)
(* has come, and a signal wakes a sleeper without the queue's knowledge.   *)
(***************************************************************************)
EXTENDS Integers

CONSTANTS Tasks,   \* tasks of one CPU
          Queue,    \* pcpu_data[cpu].queue
          Times,   \* times to sleep
          Tick     \* time of a timer tick

VARIABLES next, prev,  \* the links of the list
          delta,       \* the descriptors
          status,      \* task->status
          walk,        \* the CPU's way along the list, with interrupts off
          in,          \* the tasks in clock_nanosleep: their descriptors exist
          want, slept, \* history: the time asked for, and the timer's time since
          odd,         \* history: a second sleeper, a signal to a sleeper, a spurious interrupt
          undef        \* why the queue is not followed from here on

vars == <<next, prev, delta, status, walk, in, want, slept, odd, undef>>

Nodes == Tasks \cup {Queue}
Limit == CHOOSE m \in {n + Tick : n \in Times} : \A n \in Times : n + Tick <= m
Idle == [by |-> "nobody"]

Init ==
    /\ next = [n \in Nodes |-> n] /\ prev = [n \in Nodes |-> n]
    /\ delta = [t \in Tasks |-> 0] /\ status = [t \in Tasks |-> "running"]
    /\ walk = Idle /\ in = {} /\ want = [t \in Tasks |-> 0] /\ slept = [t \in Tasks |-> 0]
    /\ odd = {} /\ undef = "no"

Free == undef = "no" /\ walk = Idle

\* list_add_tail: node goes before list.
list_add_tail(list, node) ==
    LET last == prev[list]
    IN  /\ next' = [next EXCEPT ![node] = list, ![last] = node]
        /\ prev' = [prev EXCEPT ![list] = node, ![node] = last]

\* The walk has come to a descriptor whose stack is no longer there.
Touch == walk # Idle /\ walk.cur \notin in \cup {Queue}
Dangling ==
    /\ undef = "no" /\ Touch
    /\ undef' = "dangling" /\ walk' = Idle
    /\ UNCHANGED <<next, prev, delta, status, in, want, slept, odd>>
-----------------------------------------------------------------------------
(* Going to sleep.                                                         *)

\* A task that comes again while its last descriptor is linked lays the new
\* one over it.
sys_clock_nanosleep(t, time) ==
    /\ Free /\ t \notin in
    /\ walk' = [by |-> "sleeper", task |-> t, cur |-> next[Queue], left |-> time]
    /\ want' = [want EXCEPT ![t] = time]
    /\ undef' = IF next[t] = t THEN "no" ELSE "overwritten"
    /\ UNCHANGED <<next, prev, delta, status, in, slept, odd>>

\* A round of the loop that finds the place.
Passes == walk.cur # Queue /\ walk.left >= delta[walk.cur]
Pass ==
    /\ undef = "no" /\ walk.by = "sleeper" /\ ~Touch /\ Passes
    /\ walk' = [walk EXCEPT !.cur = next[@], !.left = @ - delta[walk.cur]]
    /\ UNCHANGED <<next, prev, delta, status, in, want, slept, odd, undef>>

\* Into an empty list the descriptor is put.  With others in it, the one that
\* was found is linked to the new one instead of the other way round; and if
\* that is the head, the word before it in memory is changed.
Enqueue ==
    LET t == walk.task
    IN  /\ undef = "no" /\ walk.by = "sleeper" /\ ~Touch /\ ~Passes
        /\ in' = in \cup {t} /\ walk' = Idle
        /\ status' = [status EXCEPT ![t] = "sleeping"]
        /\ IF next[Queue] = Queue
           THEN /\ list_add_tail(Queue, t)
                /\ delta' = [delta EXCEPT ![t] = walk.left]
                /\ UNCHANGED <<odd, undef>>
           ELSE /\ odd' = odd \cup {"second"}
                /\ IF walk.cur = Queue THEN undef' = "overwritten" /\ UNCHANGED <<next, prev, delta>>
                   ELSE /\ list_add_tail(t, walk.cur)
                        /\ delta' = [delta EXCEPT ![t] = walk.left, ![walk.cur] = @ - walk.left]
                        /\ UNCHANGED undef
        /\ UNCHANGED <<want, slept>>

\* The sleeper has been woken and returns, its descriptor linked or not.
Return(t) ==
    /\ Free /\ t \in in /\ status[t] = "running"
    /\ in' = in \ {t}
    /\ want' = [want EXCEPT ![t] = 0] /\ slept' = [slept EXCEPT ![t] = 0]
    /\ UNCHANGED <<next, prev, delta, status, walk, odd, undef>>

\* send_signal, to a task that sleeps; it may come from another CPU.
send_signal(t) ==
    /\ undef = "no" /\ status[t] = "sleeping"
    /\ status' = [status EXCEPT ![t] = "running"]
    /\ odd' = odd \cup {"signal"}
    /\ UNCHANGED <<next, prev, delta, walk, in, want, slept, undef>>
-----------------------------------------------------------------------------
(* The timer.                                                              *)

\* interrupt_handler and timer_interrupt: what is neither an exception nor an
\* interrupt of a device nor a call is taken for the timer's, which leaves
\* the spurious interrupt.
interrupt_handler(vector) ==
    /\ Free
    /\ walk' = [by |-> "tick", cur |-> next[Queue], tmp |-> next[next[Queue]], ns |-> Tick]
    /\ slept' = [t \in Tasks |-> IF vector = "timer" /\ status[t] = "sleeping" /\ slept[t] < Limit
                                 THEN slept[t] + Tick ELSE slept[t]]
    /\ odd' = IF vector = "timer" THEN odd ELSE odd \cup {"spurious"}
    /\ UNCHANGED <<next, prev, delta, status, in, want, undef>>

\* Mutant: a sleeper whose time is up with this tick stays.
DueLate(d, ns) == d < ns
Due(d, ns) == d <= ns

\* Mutant: the list still leads to a descriptor that was taken out.
UnlinkedNot(t) == next
Unlinked(t) == [next EXCEPT ![prev[t]] = next[t], ![t] = t]

\* Mutant: a sleeper is taken out of the list and not run.
WokenNot == "sleeping"
Woken == "running"

\* A round of sleep_queue_tick's loop.  A sleeper that a signal has woken
\* stays in the list and ends the loop.
sleep_queue_tick ==
    LET t == walk.cur
        woken == Due(delta[t], walk.ns) /\ status[t] = "sleeping"
        left == walk.ns - delta[t]
    IN  /\ undef = "no" /\ walk.by = "tick" /\ walk.cur # Queue /\ ~Touch
        /\ delta' = [delta EXCEPT ![t] = IF Due(@, walk.ns) THEN 0 ELSE @ - walk.ns]
        /\ walk' = IF woken /\ left > 0
                   THEN [walk EXCEPT !.ns = left, !.cur = walk.tmp, !.tmp = Unlinked(t)[walk.tmp]]
                   ELSE Idle
        /\ IF woken THEN /\ next' = Unlinked(t)
                         /\ prev' = [prev EXCEPT ![next[t]] = prev[t], ![t] = t]
                         /\ status' = [status EXCEPT ![t] = Woken]
           ELSE UNCHANGED <<next, prev, status>>
        /\ UNCHANGED <<in, want, slept, odd, undef>>
TickEnds ==
    /\ undef = "no" /\ walk.by = "tick" /\ walk.cur = Queue
    /\ walk' = Idle
    /\ UNCHANGED <<next, prev, delta, status, in, want, slept, odd, undef>>

Next ==
    \/ \E t \in Tasks : \/ \E time \in Times : sys_clock_nanosleep(t, time)
                        \/ Return(t) \/ send_signal(t)
    \/ \E vector \in {"timer", "spurious"} : interrupt_handler(vector)
    \/ Pass \/ Enqueue \/ sleep_queue_tick \/ TickEnds \/ Dangling

\* The timer ticks and the CPU goes on.
Progress == interrupt_handler("timer") \/ Pass \/ Enqueue \/ sleep_queue_tick \/ TickEnds
Spec == Init /\ [][Next]_vars
-----------------------------------------------------------------------------
\* Type invariant.
TypeOK ==
    /\ next \in [Nodes -> Nodes] /\ prev \in [Nodes -> Nodes]
    /\ delta \in [Tasks -> 0 .. Limit] /\ status \in [Tasks -> {"running", "sleeping"}]
    /\ in \subseteq Tasks /\ undef \in {"no", "overwritten", "dangling"}

\* As long as one task sleeps at a time and no signal comes, a sleeper is woken
\* by the tick that completes its time: never after it, and before it only if
\* a spurious interrupt was counted as a tick (sleep_queue_tick).
WokenOnTick ==
    (walk = Idle /\ odd \cap {"second", "signal"} = {}) =>
        \A t \in in : IF status[t] = "sleeping" THEN slept[t] = 0 \/ slept[t] < want[t]
                      ELSE slept[t] >= want[t] \/ "spurious" \in odd

\* The queue leads to what is not there, and the kernel writes where it must
\* not, only when a second task sleeps on the CPU or a signal wakes a sleeper.
SoundAlone == undef # "no" => odd \cap {"second", "signal"} # {}
-----------------------------------------------------------------------------
(* Why they hold, in every state: the invariant that the steps keep.       *)

\* The head is no descriptor, the timer ticks, and the times that are asked for are
\* bounded (by the width of ns).
Sane ==
    /\ Queue \notin Tasks /\ Tick \in Nat \ {0}
    /\ Times \subseteq Nat /\ \E m \in Times : \A n \in Times : n <= m

Walks ==
    [by : {"sleeper"}, task : Tasks, cur : Nodes, left : 0 .. Limit] \cup
    [by : {"tick"}, cur : Nodes, tmp : Nodes, ns : 1 .. Tick]
Types ==
    /\ TypeOK /\ walk \in Walks \cup {Idle}
    /\ want \in [Tasks -> Nat] /\ slept \in [Tasks -> Nat] /\ \A t \in Tasks : want[t] + Tick <= Limit

Clean == odd \cap {"second", "signal"} = {}
Sleeper == next[Queue]
Around(n) == IF n = Queue THEN Sleeper ELSE IF n = Sleeper THEN Queue ELSE n

\* A list of one sleeper at most, and what a way along it may be.
Alone ==
    /\ undef = "no"
    /\ \A n \in Nodes : next[n] = Around(n) /\ prev[n] = Around(n)
    /\ Sleeper \in in \cup {Queue}
    /\ \A t \in Tasks : status[t] = "sleeping" <=> t = Sleeper
    /\ \A t \in Tasks \ in : slept[t] = 0
    /\ walk.by = "sleeper" => /\ walk.task \notin in /\ walk.cur \in in \cup {Queue}
                              /\ Sleeper = Queue => walk.cur = Queue /\ walk.left = want[walk.task]
    /\ walk.by = "tick" => /\ walk.cur = Sleeper
                           /\ Sleeper # Queue => walk.tmp = Queue /\ walk.ns = Tick

\* The descriptor has what is left of the sleeper's time, unless spurious
\* interrupts took some; a tick is counted before the descriptor is.
Timed ==
    LET more == IF walk.by = "tick" THEN Tick ELSE 0
    IN  /\ Sleeper # Queue =>
              /\ delta[Sleeper] + slept[Sleeper] <= want[Sleeper] + more
              /\ "spurious" \notin odd => delta[Sleeper] + slept[Sleeper] = want[Sleeper] + more
              /\ more = 0 => slept[Sleeper] = 0 \/ delta[Sleeper] > 0
        /\ \A t \in in : t # Sleeper => slept[t] >= want[t] \/ "spurious" \in odd

IInv == Types /\ (Clean => Alone /\ Timed)

=============================================================================
