------------------------------ MODULE Receive -------------------------------
(***************************************************************************)
(* Receiving from a socket (net/socket.c): tasks wait in socket_recvfrom   *)
(* for the packets that socket_rx_packet puts in its queue, and signals    *)
(* interrupt them.  One CPU: a call runs with interrupts off until it      *)
(* yields or returns, so that nobody ever waits for recv_lock.  What       *)
(* several CPUs do to such a wait is in module Tty, for the same loop.     *)
(***************************************************************************)
EXTENDS Integers, Sequences

CONSTANTS Tasks, MaxPackets  \* bound: packets that arrive, numbered from 1

VARIABLES recv_queue, waitqueue,  \* waitqueue: the tasks whose wait node is on it
          status, pending,        \* task.status, task.sig_pending
          at,                     \* "user", "yield" inside of socket_recvfrom, "dead"
          arrived, received,      \* packets so far; history: those returned, in order
          panic

vars == <<recv_queue, waitqueue, status, pending, at, arrived, received, panic>>

Init ==
    /\ recv_queue = <<>> /\ waitqueue = {}
    /\ status = [t \in Tasks |-> "RUNNING"] /\ pending = [t \in Tasks |-> {}]
    /\ at = [t \in Tasks |-> "user"]
    /\ arrived = 0 /\ received = <<>> /\ panic = "no"

\* A node is on the queue once; all that are on it are woken together.
wait_queue_register(t) == waitqueue \cup {t}

\* Mutant: the node stays on the queue.
LeaveRegistered(t) ==
    /\ status' = [status EXCEPT ![t] = "RUNNING"]
    /\ at' = [at EXCEPT ![t] = IF pending[t] \subseteq {"SIGCHLD"} THEN "user" ELSE "dead"]
    /\ pending' = [pending EXCEPT ![t] = {}]
    /\ UNCHANGED waitqueue
\* The signals that are pending when the call returns: SIGCHLD is dropped, any
\* other one ends the task.
Leave(t) ==
    /\ waitqueue' = waitqueue \ {t}
    /\ status' = [status EXCEPT ![t] = "RUNNING"]
    /\ at' = [at EXCEPT ![t] = IF pending[t] \subseteq {"SIGCHLD"} THEN "user" ELSE "dead"]
    /\ pending' = [pending EXCEPT ![t] = {}]

\* Mutant: a pending signal is not looked at.
SleepsAnyway(t) == TRUE
\* Neither a packet nor a signal is there.
Sleeps(t) == pending[t] = {}

\* One round of the loop: socket_recvfrom from its start or from the return of
\* sched_yield, to the next yield or to its end.
Round(t) ==
    \/ /\ recv_queue # <<>>
       /\ received' = Append(received, Head(recv_queue))
       /\ recv_queue' = Tail(recv_queue)
       /\ Leave(t)
    \/ /\ recv_queue = <<>> /\ ~Sleeps(t)
       /\ Leave(t)
       /\ UNCHANGED <<recv_queue, received>>
    \/ /\ recv_queue = <<>> /\ Sleeps(t)
       /\ waitqueue' = wait_queue_register(t)
       /\ status' = [status EXCEPT ![t] = "INTR_SLEEPING"]
       /\ at' = [at EXCEPT ![t] = "yield"]
       /\ UNCHANGED <<recv_queue, received, pending>>

sys_recvfrom(t) == at[t] = "user" /\ Round(t) /\ UNCHANGED <<arrived, panic>>
Resume(t) == at[t] = "yield" /\ status[t] = "RUNNING" /\ Round(t) /\ UNCHANGED <<arrived, panic>>

\* An interrupt from user mode ends the same way as a call.
signal_try_handle(t) ==
    /\ at[t] = "user" /\ pending[t] # {}
    /\ Leave(t)
    /\ UNCHANGED <<recv_queue, arrived, received, panic>>

\* Mutant: the queue is emptied and nobody is woken.
WakeNobody == waitqueue' = {} /\ UNCHANGED <<status, panic>>
\* wait_queue_wake, which expects everyone on the queue to be asleep.
wait_queue_wake ==
    IF \E t \in waitqueue : status[t] # "INTR_SLEEPING"
    THEN panic' = "wake" /\ UNCHANGED <<status, waitqueue>>
    ELSE /\ status' = [t \in Tasks |-> IF t \in waitqueue THEN "RUNNING" ELSE status[t]]
         /\ waitqueue' = {}
         /\ UNCHANGED panic

\* Mutant: the packet is put in front.
RxInFront ==
    /\ arrived < MaxPackets
    /\ arrived' = arrived + 1
    /\ recv_queue' = <<arrived'>> \o recv_queue
    /\ wait_queue_wake
    /\ UNCHANGED <<pending, at, received>>
\* The interrupt of the network card.
socket_rx_packet ==
    /\ arrived < MaxPackets
    /\ arrived' = arrived + 1
    /\ recv_queue' = Append(recv_queue, arrived')
    /\ wait_queue_wake
    /\ UNCHANGED <<pending, at, received>>

send_signal(t, sig) ==
    /\ at[t] # "dead"
    /\ pending' = [pending EXCEPT ![t] = @ \cup {sig}]
    /\ status' = [status EXCEPT ![t] = "RUNNING"]
    /\ UNCHANGED <<recv_queue, waitqueue, at, arrived, received, panic>>

Next ==
    /\ panic = "no"
    /\ \/ socket_rx_packet
       \/ \E t \in Tasks : sys_recvfrom(t) \/ Resume(t) \/ signal_try_handle(t)
                        \/ \E sig \in {"SIGCHLD", "SIGINT"} : send_signal(t, sig)

\* The scheduler runs some task that is ready.
Progress == panic = "no" /\ \E t \in Tasks : Resume(t)
Spec == Init /\ [][Next]_vars
-----------------------------------------------------------------------------
\* Type invariant.
TypeOK ==
    /\ recv_queue \in Seq(1 .. MaxPackets) /\ waitqueue \subseteq Tasks
    /\ status \in [Tasks -> {"RUNNING", "INTR_SLEEPING"}]
    /\ pending \in [Tasks -> SUBSET {"SIGCHLD", "SIGINT"}]
    /\ at \in [Tasks -> {"user", "yield", "dead"}] /\ panic \in {"no", "wake"}

\* Several tasks that receive from one socket, and give up when a signal comes,
\* take every packet once and in the order of arrival.
PacketsInOrder == received \o recv_queue = [i \in 1 .. arrived |-> i]

\* No task sleeps in socket_recvfrom while there is a packet or a signal for it.
NoSleepOverPacket ==
    \A t \in Tasks : (panic = "no" /\ status[t] = "INTR_SLEEPING") =>
        recv_queue = <<>> /\ pending[t] = {} /\ t \in waitqueue

\* The panic of wait_queue_wake needs a signal that has woken a task which has
\* not run since: its node is still on the queue.
PanicNeedsSignal == panic # "no" => \E t \in Tasks : pending[t] # {} /\ at[t] = "yield"
-----------------------------------------------------------------------------
(* Why they hold, in every state: the invariant that the steps keep.       *)

\* A number of packets that arrive.
Sane == MaxPackets \in Nat

\* The packets are numbered as they came.
Numbered ==
    /\ arrived \in 0 .. MaxPackets /\ received \in Seq(Nat) /\ recv_queue \in Seq(Nat)
    /\ arrived = Len(received) + Len(recv_queue)
    /\ \A i \in 1 .. Len(received) : received[i] = i
    /\ \A i \in 1 .. Len(recv_queue) : recv_queue[i] = Len(received) + i

\* Who is on the queue waits in the loop; one that is awake has a signal.
Waiting ==
    \A t \in waitqueue : at[t] = "yield" /\ (status[t] = "INTR_SLEEPING" \/ pending[t] # {})

IInv == TypeOK /\ Numbered /\ Waiting /\ NoSleepOverPacket /\ PanicNeedsSignal
=============================================================================
