-------------------------------- MODULE Tty ---------------------------------
(***************************************************************************)
(* Terminal input: a task that reads a tty, the keyboard interrupt that    *)
(* feeds it and the signals that interrupt the read.  Composes the mutex   *)
(* tty->lock (module Mutex, whose actions are used unchanged) with the     *)
(* wait queue of sched/waitqueue.c, send_signal of sched/signal.c and the  *)
(* ring buffer of dev/tty.c.                                               *)
(*                                                                         *)
(* at[t] is the place of task t in tty_read or tty_consume; pc[t], from    *)
(* Mutex, its place in the lock's functions.  The interrupt runs on top of *)
(* whatever task its CPU was running, here the task Keyboard.  The n-th    *)
(* keystroke produces the character n.                                     *)
(***************************************************************************)
EXTENDS Mutex, Sequences, SequencesExt

CONSTANTS Reader,      \* the task that calls tty_read
          Keyboard,    \* the task that the keyboard interrupts
          BufferSize,  \* tty_buffer_size
          MaxKeys,     \* bound: keystrokes
          IntrKeys,    \* the keystrokes that produce c_cc[VINTR]
          Lengths      \* the lengths tty_read is called with

ASSUME TtyAssumption ==
    /\ Tasks = {Reader, Keyboard} /\ Reader # Keyboard
    /\ Reader \notin IdleTasks /\ Leaders = {}
    /\ BufferSize \in Nat \ {0, 1}

VARIABLES at,
          buffer, head, tail,  \* read_buffer, read_buffer_head, read_buffer_tail
          foreground, \* is tty->fg_pgrp the process group of the reader?
          queue,      \* tty->waitqueue: the tasks whose wait node is on it
          pending,    \* task.sig_pending of the reader
          child,      \* the place of a child of the reader in send_signal
          keys,       \* keystrokes so far
          accepted,   \* history: the characters put in the buffer
          delivered   \* history: the characters returned by tty_read

ttyVars == <<at, buffer, head, tail, foreground, queue, pending, child, keys,
             accepted, delivered>>
allVars == <<vars, ttyVars>>

Garbage == 0  \* a byte outside of what was typed

tty_create ==
    /\ mutex_init
    /\ buffer = [i \in 0 .. (BufferSize - 1) |-> Garbage]
    /\ head = 0 /\ tail = 0
    /\ foreground = FALSE
    /\ queue = <<>>

TtyInit ==
    /\ Init
    /\ tty_create
    /\ at = [t \in Tasks |-> "out"]
    /\ pending = {}
    /\ child = "idle"
    /\ keys = 0
    /\ accepted = <<>>
    /\ delivered = <<>>

Goto(t, place) == at' = [at EXCEPT ![t] = place]
-----------------------------------------------------------------------------
(* tty_read.                                                               *)

ReadCall ==
    /\ at[Reader] = "out"
    /\ Goto(Reader, "entry")
    /\ UNCHANGED <<vars, buffer, head, tail, queue, pending, child, keys, accepted, delivered, foreground>>

ReadEntry ==
    /\ at[Reader] = "entry" /\ pc[Reader] = "cs"
    /\ Goto(Reader, IF head = tail THEN "loop" ELSE "copy")
    /\ UNCHANGED <<vars, buffer, head, tail, queue, pending, child, keys, accepted, delivered, foreground>>

\* wait_queue_register of the reader's own node.
wait_queue_register ==
    /\ at[Reader] = "loop" /\ pc[Reader] = "cs"
    /\ queue' = IF Contains(queue, Reader) THEN queue ELSE Append(queue, Reader)
    /\ Goto(Reader, "registered")
    /\ UNCHANGED <<vars, buffer, head, tail, pending, child, keys, accepted, delivered, foreground>>

\* The compare-and-exchange that marks the reader as sleeping.
ReadSleep ==
    /\ at[Reader] = "registered"
    /\ \/ /\ status[Reader] \in {"RUNNING", "INTR_SLEEPING"}
          /\ status' = [status EXCEPT ![Reader] = "INTR_SLEEPING"]
          /\ Goto(Reader, "check")
          /\ UNCHANGED panic
       \/ /\ status[Reader] \notin {"RUNNING", "INTR_SLEEPING"}
          /\ panic' = "wq_register cmpxchg failed"
          /\ UNCHANGED <<status, at>>
    /\ UNCHANGED <<locked, waitqueue, next, spin, pc>>
    /\ UNCHANGED <<buffer, head, tail, queue, pending, child, keys, accepted, delivered, foreground>>

ReadCheckData ==
    /\ at[Reader] = "check"
    /\ Goto(Reader, IF head # tail THEN "stop" ELSE "check_signal")
    /\ UNCHANGED <<vars, buffer, head, tail, queue, pending, child, keys, accepted, delivered, foreground>>

\* Mutant: signal_pending is not asked before the task yields.
ReadCheckNoSignal ==
    /\ at[Reader] = "check_signal"
    /\ Goto(Reader, "drop")
    /\ UNCHANGED <<vars, buffer, head, tail, queue, pending, child, keys, accepted, delivered, foreground>>

ReadCheckSignal ==
    /\ at[Reader] = "check_signal"
    /\ Goto(Reader, IF pending # {} THEN "intr" ELSE "drop")
    /\ UNCHANGED <<vars, buffer, head, tail, queue, pending, child, keys, accepted, delivered, foreground>>

\* sched_yield, called without tty->lock, returns when the task is ready.
ReadResume ==
    /\ at[Reader] = "drop" /\ pc[Reader] = "out"
    /\ status[Reader] = "RUNNING"
    /\ Goto(Reader, "loop")
    /\ UNCHANGED <<vars, buffer, head, tail, queue, pending, child, keys, accepted, delivered, foreground>>

\* wait_queue_unregister of the reader's own node.
wait_queue_unregister ==
    /\ at[Reader] \in {"stop", "intr"}
    /\ queue' = Remove(queue, Reader)
    /\ Goto(Reader, IF at[Reader] = "stop" THEN "stopped" ELSE "intred")
    /\ UNCHANGED <<vars, buffer, head, tail, pending, child, keys, accepted, delivered, foreground>>

\* Mutant: the status is not put back.
ReadWakeForgotten ==
    /\ at[Reader] \in {"stopped", "intred"}
    /\ Goto(Reader, IF at[Reader] = "stopped" THEN "copy" ELSE "finish")
    /\ UNCHANGED <<vars, buffer, head, tail, queue, pending, child, keys, accepted, delivered, foreground>>

\* The compare-and-exchange that takes the sleeping state back.
ReadWake ==
    /\ at[Reader] \in {"stopped", "intred"}
    /\ status' = [status EXCEPT ![Reader] = IF @ = "INTR_SLEEPING" THEN "RUNNING" ELSE @]
    /\ Goto(Reader, IF at[Reader] = "stopped" THEN "copy" ELSE "finish")
    /\ UNCHANGED <<locked, waitqueue, next, spin, pc, panic>>
    /\ UNCHANGED <<buffer, head, tail, queue, pending, child, keys, accepted, delivered, foreground>>

\* read_count, before it is cut to the length asked for.
ReadCount == IF tail > head THEN tail - head ELSE BufferSize - head + tail

\* Mutant: the head does not wrap.
ReadCopyUnwrapped(length) ==
    LET n == IF ReadCount > length THEN length ELSE ReadCount
        Byte(i) == IF i < BufferSize THEN buffer[i] ELSE Garbage
    IN  /\ at[Reader] = "copy"
        /\ delivered' = delivered \o [i \in 1 .. n |-> Byte(head + i - 1)]
        /\ head' = head + n
        /\ Goto(Reader, "finish")
        /\ UNCHANGED <<vars, buffer, tail, queue, pending, child, keys, accepted, foreground>>

\* One memcpy from the head, which runs over the end of the buffer when the
\* data wraps around; then the head moves, and wraps.
ReadCopy(length) ==
    LET n == IF ReadCount > length THEN length ELSE ReadCount
        Byte(i) == IF i < BufferSize THEN buffer[i] ELSE Garbage
    IN  /\ at[Reader] = "copy"
        /\ delivered' = delivered \o [i \in 1 .. n |-> Byte(head + i - 1)]
        /\ head' = (head + n) % BufferSize
        /\ Goto(Reader, "finish")
        /\ UNCHANGED <<vars, buffer, tail, queue, pending, child, keys, accepted, foreground>>

\* tty_read has returned; signal_try_handle runs before user mode is resumed.
\* SIGCHLD is discarded, any other signal ends the task.
signal_try_handle ==
    /\ at[Reader] = "finish" /\ pc[Reader] = "out"
    /\ pending' = {}
    /\ Goto(Reader, IF pending \subseteq {"SIGCHLD"} THEN "out" ELSE "dead")
    /\ UNCHANGED <<vars, buffer, head, tail, queue, child, keys, accepted, delivered, foreground>>
-----------------------------------------------------------------------------
(* The keyboard interrupt.                                                 *)

KeyPress ==
    /\ at[Keyboard] = "out" /\ keys < MaxKeys
    /\ keys' = keys + 1
    /\ Goto(Keyboard, "key")
    /\ UNCHANGED <<vars, buffer, head, tail, queue, pending, child, accepted, delivered, foreground>>

\* Mutant: a full buffer is overwritten.
ConsumeOverwriting ==
    /\ at[Keyboard] = "key" /\ pc[Keyboard] = "cs"
    /\ buffer' = [buffer EXCEPT ![tail] = keys]
    /\ tail' = (tail + 1) % BufferSize
    /\ accepted' = Append(accepted, keys)
    /\ Goto(Keyboard, IF keys \in IntrKeys THEN "interrupt" ELSE "wake")
    /\ UNCHANGED <<vars, head, queue, pending, child, keys, delivered, foreground>>

\* tty_consume up to the wakeup: a character that finds the buffer full is dropped.
tty_consume ==
    /\ at[Keyboard] = "key" /\ pc[Keyboard] = "cs"
    /\ \/ /\ (tail + 1) % BufferSize = head
          /\ Goto(Keyboard, "done")
          /\ UNCHANGED <<buffer, tail, accepted, foreground>>
       \/ /\ (tail + 1) % BufferSize # head
          /\ buffer' = [buffer EXCEPT ![tail] = keys]
          /\ tail' = (tail + 1) % BufferSize
          /\ accepted' = Append(accepted, keys)
          /\ Goto(Keyboard, IF keys \in IntrKeys THEN "interrupt" ELSE "wake")
    /\ UNCHANGED <<vars, head, queue, pending, child, keys, delivered, foreground>>

\* Mutant: the nodes are taken off the queue, the tasks left asleep.
WakeNobody ==
    /\ at[Keyboard] = "wake"
    /\ queue' = <<>>
    /\ Goto(Keyboard, "done")
    /\ UNCHANGED <<vars, buffer, head, tail, pending, child, keys, accepted, delivered, foreground>>

\* wait_queue_wake: everyone on the queue is taken off and made ready.
wait_queue_wake ==
    /\ at[Keyboard] = "wake"
    /\ \/ /\ \A t \in Range(queue) : status[t] = "INTR_SLEEPING"
          /\ status' = [t \in Tasks |-> IF t \in Range(queue) THEN "RUNNING" ELSE status[t]]
          /\ queue' = <<>>
          /\ Goto(Keyboard, "done")
          /\ UNCHANGED panic
       \/ /\ \E t \in Range(queue) : status[t] # "INTR_SLEEPING"
          /\ panic' = "wait_queue_wake: task on queue not sleeping"
          /\ UNCHANGED <<status, queue, at>>
    /\ UNCHANGED <<locked, waitqueue, next, spin, pc>>
    /\ UNCHANGED <<buffer, head, tail, pending, child, keys, accepted, delivered, foreground>>

KeyDone ==
    /\ at[Keyboard] = "done" /\ pc[Keyboard] = "out"
    /\ Goto(Keyboard, "out")
    /\ UNCHANGED <<vars, buffer, head, tail, queue, pending, child, keys, accepted, delivered, foreground>>

\* The second half of send_signal: an interruptible sleeper is made ready.
WakeReader == status' = [status EXCEPT ![Reader] = IF @ = "INTR_SLEEPING" THEN "RUNNING" ELSE @]

\* tty_ioctl(TIOCSPGRP): a shell of the session moves the terminal to another
\* process group, without tty->lock.
SetForeground ==
    /\ foreground' = ~foreground
    /\ UNCHANGED <<vars, at, buffer, head, tail, queue, pending, child, keys>>
    /\ UNCHANGED <<accepted, delivered>>

\* VINTR: pgrp_send_signal of SIGINT to the foreground group, called after
\* tty->lock has been released.
InterruptPend ==
    /\ at[Keyboard] = "interrupt" /\ pc[Keyboard] = "out"
    /\ pending' = IF foreground THEN pending \cup {"SIGINT"} ELSE pending
    /\ Goto(Keyboard, IF foreground THEN "signalled" ELSE "out")
    /\ UNCHANGED <<vars, buffer, head, tail, queue, child, keys, accepted, delivered, foreground>>

InterruptWake ==
    /\ at[Keyboard] = "signalled"
    /\ WakeReader
    /\ Goto(Keyboard, "out")
    /\ UNCHANGED <<locked, waitqueue, next, spin, pc, panic>>
    /\ UNCHANGED <<buffer, head, tail, queue, pending, child, keys, accepted, delivered, foreground>>
-----------------------------------------------------------------------------
(* A child of the reader exits: send_signal of SIGCHLD.                    *)

ChildPend ==
    /\ child = "idle"
    /\ pending' = pending \cup {"SIGCHLD"}
    /\ child' = "pended"
    /\ UNCHANGED <<vars, at, buffer, head, tail, queue, keys, accepted, delivered, foreground>>

ChildWake ==
    /\ child = "pended"
    /\ WakeReader
    /\ child' = "idle"
    /\ UNCHANGED <<locked, waitqueue, next, spin, pc, panic>>
    /\ UNCHANGED <<at, buffer, head, tail, queue, pending, keys, accepted, delivered, foreground>>
-----------------------------------------------------------------------------
\* The calls of mutex_lock and mutex_unlock that tty_read and tty_consume make.
LockCall(t) ==
    /\ \/ at[t] \in {"entry", "loop", "key"} /\ (LockFree(t) \/ LockPush(t))
       \/ LockSleep(t)
       \/ LockResume(t)
       \/ at[t] \in {"drop", "finish", "done", "interrupt"} /\ UnlockBegin(t)
       \/ UnlockPop(t)
       \/ UnlockEmpty(t)
    /\ UNCHANGED ttyVars

ReadStep ==
    \/ ReadEntry
    \/ wait_queue_register
    \/ ReadSleep
    \/ ReadCheckData
    \/ ReadCheckSignal
    \/ ReadResume
    \/ wait_queue_unregister
    \/ ReadWake
    \/ \E length \in Lengths : ReadCopy(length)
    \/ signal_try_handle

KeyStep ==
    \/ tty_consume
    \/ wait_queue_wake
    \/ KeyDone
    \/ InterruptPend
    \/ InterruptWake

TtyNext ==
    /\ panic = "none"
    /\ \/ ReadCall
       \/ LockCall(Reader) \/ ReadStep
       \/ KeyPress
       \/ LockCall(Keyboard) \/ KeyStep
       \/ ChildPend \/ ChildWake
       \/ SetForeground

TtySpec == TtyInit /\ [][TtyNext]_allVars

\* Each task that is ready runs on; the lock is first come first served.
TtyFairSpec ==
    /\ TtySpec
    /\ SF_allVars(panic = "none" /\ (LockCall(Reader) \/ ReadStep))
    /\ SF_allVars(panic = "none" /\ (LockCall(Keyboard) \/ KeyStep))
    /\ WF_allVars(panic = "none" /\ ChildWake)
-----------------------------------------------------------------------------
\* Type invariant.
TtyTypeOK ==
    /\ status \in [Tasks -> Statuses \cup {"INTR_SLEEPING"}]
    /\ buffer \in [0 .. (BufferSize - 1) -> 0 .. MaxKeys]
    /\ head \in 0 .. (BufferSize - 1)
    /\ tail \in 0 .. (BufferSize - 1)
    /\ queue \in {<<>>, <<Reader>>}
    /\ pending \subseteq {"SIGINT", "SIGCHLD"}

\* The reader is off its CPU and only a wakeup brings it back.
Asleep == at[Reader] = "drop" /\ pc[Reader] = "out" /\ status[Reader] = "INTR_SLEEPING"

\* tty_read does not sleep while there is input: whoever put a character in the
\* buffer has yet to wake the reader.  The exception is the VINTR character,
\* which is put in the buffer too but wakes nobody outside the foreground group
\* of that moment.
NoLostWakeup ==
    panic = "none" /\ Asleep /\ head # tail =>
        \/ at[Keyboard] \in {"wake", "interrupt", "signalled"}
        \/ Last(accepted) \in IntrKeys

\* A reader that can be interrupted is not left asleep with a signal pending:
\* send_signal records the signal before it looks at the status, tty_read does
\* the two in the opposite order.
NoLostSignal ==
    panic = "none" /\ Asleep /\ pending # {} =>
        at[Keyboard] = "signalled" \/ child = "pended"

\* The characters in the buffer, oldest first.
Content ==
    [i \in 1 .. ((tail + BufferSize - head) % BufferSize) |-> buffer[(head + i - 1) % BufferSize]]

\* What tty_read has returned and what is still in the buffer is what was
\* accepted, in order: nothing is lost, repeated or reordered, although the
\* reader and the interrupt may be inside tty->lock together.  Only a read that
\* runs over the end of the buffer returns other bytes, in the right number.
InputInOrder ==
    LET all == delivered \o Content
    IN  /\ Len(all) = Len(accepted)
        /\ \A i \in DOMAIN all : all[i] \in {accepted[i], Garbage}
        /\ \A i \in 1 .. Len(Content) : Content[i] # Garbage

\* The states in which tty_read calls mutex_lock and wait_queue_register are
\* the ones these functions accept.
ReadStatesValid == panic \notin {"wq_register cmpxchg failed", "mutex_invalid_state"}

\* Characters come out of tty_read once and in order, up to those that a full
\* buffer drops; the reader never sleeps over a character or a signal, and calls
\* neither a lock nor a wait queue in a state that they refuse.
InputSafe == TtyTypeOK /\ NoLostWakeup /\ NoLostSignal /\ InputInOrder /\ ReadStatesValid

\* A reader that sleeps when a character (not VINTR) arrives returns from tty_read.
InputIsRead ==
    Asleep /\ head # tail /\ Last(accepted) \notin IntrKeys
        ~> at[Reader] \in {"out", "dead"} \/ panic # "none"

\* The check in wait_queue_wake: a task found on the queue is asleep.
WakeFindsSleeper == panic # "wait_queue_wake: task on queue not sleeping"
=============================================================================
