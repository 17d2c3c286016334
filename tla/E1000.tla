------------------------------- MODULE E1000 --------------------------------
(***************************************************************************)
(* The driver of the network card (dev/net/e1000/e1000.c): a ring of       *)
(* descriptors for frames that arrive, a ring for frames to send, and the  *)
(* interrupt.  The card is external: it owns the descriptors from its head *)
(* up to the tail, sets a cause bit and sends an interrupt message for     *)
(* every frame; a message that comes while one is pending is the same.     *)
(* Reading the cause register clears it or not, as the card is set up.     *)
(***************************************************************************)
EXTENDS Integers, Sequences

CONSTANTS RxCount, TxCount,  \* E1000_RX_DESC_COUNT, E1000_TX_DESC_COUNT
          MaxRx, MaxTx,      \* bounds: frames that arrive, frames sent
          Cpus

VARIABLES rx,   \* head, tail, the descriptors' done bit and frame, cur_rx
          irq,  \* cause bit, message pending, the handler's place, icr and old_rx
          tx,   \* head, tail, the frame in each page, cur_tx, each CPU's place
          got,  \* history: frames accepted, frames passed on, frames sent, frames on the wire
          bad   \* history: what went wrong: a frame came in the window, a ring was overrun, two sends raced

vars == <<rx, irq, tx, got, bad>>

\* The card owns all descriptors but one.
e1000_init_rx == [head |-> 0, tail |-> RxCount - 1, cur |-> 0,
                  done |-> [i \in 0 .. RxCount - 1 |-> FALSE], frame |-> [i \in 0 .. RxCount - 1 |-> 0]]
e1000_init_tx == [head |-> 0, tail |-> 0, cur |-> 0, frame |-> [i \in 0 .. TxCount - 1 |-> 0],
                  at |-> [c \in Cpus |-> "out"]]

Init ==
    /\ rx = e1000_init_rx /\ tx = e1000_init_tx
    /\ irq = [cause |-> FALSE, msg |-> FALSE, pc |-> "idle", icr |-> FALSE, old |-> -1]
    /\ got = [accepted |-> 0, passed |-> <<>>, sent |-> 0, wire |-> <<>>]
    /\ bad = {}
-----------------------------------------------------------------------------
(* Reception.                                                              *)

\* The card: a frame that finds no descriptor is dropped.
CardReceives ==
    /\ got.accepted < MaxRx /\ rx.head # rx.tail
    /\ got' = [got EXCEPT !.accepted = @ + 1]
    /\ rx' = [rx EXCEPT !.done[rx.head] = TRUE, !.frame[rx.head] = got.accepted + 1,
                        !.head = (@ + 1) % RxCount]
    /\ irq' = [irq EXCEPT !.cause = TRUE, !.msg = TRUE]
    /\ bad' = IF irq.pc \in {"tail", "ack"} THEN bad \cup {"window"} ELSE bad
    /\ UNCHANGED tx

\* e1000_irq: the cause is read, and nothing else done when it is empty.
ReadCause ==
    /\ irq.pc = "idle" /\ irq.msg
    /\ \E cleared \in BOOLEAN :
         irq' = [irq EXCEPT !.msg = FALSE, !.icr = irq.cause, !.cause = irq.cause /\ ~cleared,
                            !.pc = IF irq.cause THEN "loop" ELSE "idle", !.old = -1]
    /\ bad' = IF irq.cause THEN bad \ {"window"} ELSE bad
    /\ UNCHANGED <<rx, tx, got>>

\* Mutant: the done bit is left.
HandleKeepingDone ==
    /\ irq.pc = "loop" /\ rx.done[rx.cur]
    /\ got' = [got EXCEPT !.passed = Append(@, rx.frame[rx.cur])]
    /\ rx' = [rx EXCEPT !.cur = (@ + 1) % RxCount]
    /\ irq' = [irq EXCEPT !.old = rx.cur]
    /\ UNCHANGED <<tx, bad>>
\* A round of the loop, with ether_rx_packet; the done bit is cleared first.
Handle ==
    /\ irq.pc = "loop" /\ rx.done[rx.cur]
    /\ got' = [got EXCEPT !.passed = Append(@, rx.frame[rx.cur])]
    /\ rx' = [rx EXCEPT !.done[rx.cur] = FALSE, !.cur = (@ + 1) % RxCount]
    /\ irq' = [irq EXCEPT !.old = rx.cur]
    /\ UNCHANGED <<tx, bad>>

\* Mutant: one frame for each interrupt.
LoopOnce ==
    /\ irq.pc = "loop" /\ (irq.old >= 0 \/ ~rx.done[rx.cur])
    /\ irq' = [irq EXCEPT !.pc = "tail"]
    /\ UNCHANGED <<rx, tx, got, bad>>
LoopEnds ==
    /\ irq.pc = "loop" /\ ~rx.done[rx.cur]
    /\ irq' = [irq EXCEPT !.pc = "tail"]
    /\ UNCHANGED <<rx, tx, got, bad>>

\* Mutant: the tail is not moved.
TailKept == rx.tail
\* The tail is put on the last descriptor handled.
NewTail == IF irq.old >= 0 THEN irq.old ELSE rx.tail

WriteTail ==
    /\ irq.pc = "tail"
    /\ rx' = [rx EXCEPT !.tail = NewTail]
    /\ irq' = [irq EXCEPT !.pc = "ack"]
    /\ UNCHANGED <<tx, got, bad>>

\* The cause that was read is written back, which clears it; then end of interrupt.
Acknowledge ==
    /\ irq.pc = "ack"
    /\ irq' = [irq EXCEPT !.cause = @ /\ ~irq.icr, !.pc = "idle"]
    /\ UNCHANGED <<rx, tx, got, bad>>
-----------------------------------------------------------------------------
(* Transmission.                                                           *)

Outstanding == (tx.cur - tx.head) % TxCount
\* Frames that are filled and not kicked, when one CPU at a time sends.
Filled == IF \E c \in Cpus : tx.at[c] = "filled" THEN 1 ELSE 0

\* e1000_send: the page and the descriptor, whether or not the card is done
\* with them; then cur_tx and the tail.
Fill(c) ==
    /\ got.sent < MaxTx /\ tx.at[c] = "out"
    /\ got' = [got EXCEPT !.sent = @ + 1]
    /\ tx' = [tx EXCEPT !.frame[tx.cur] = got.sent + 1, !.at[c] = "filled"]
    /\ bad' = bad \cup (IF Outstanding = TxCount - 1 THEN {"overrun"} ELSE {})
                  \cup (IF \E d \in Cpus : tx.at[d] # "out" THEN {"raced"} ELSE {})
    /\ UNCHANGED <<rx, irq>>

\* Mutant: cur_tx does not wrap.
NextTxUnwrapped == tx.cur + 1
NextTx == (tx.cur + 1) % TxCount

Kick(c) ==
    /\ tx.at[c] = "filled"
    /\ tx' = [tx EXCEPT !.cur = NextTx, !.tail = NextTx, !.at[c] = "out"]
    /\ UNCHANGED <<rx, irq, got, bad>>

CardSends ==
    /\ tx.head # tx.tail
    /\ got' = [got EXCEPT !.wire = Append(@, tx.frame[tx.head])]
    /\ tx' = [tx EXCEPT !.head = (@ + 1) % TxCount]
    /\ UNCHANGED <<rx, irq, bad>>

Next == CardReceives \/ ReadCause \/ Handle \/ LoopEnds \/ WriteTail \/ Acknowledge
        \/ (\E c \in Cpus : Fill(c) \/ Kick(c)) \/ CardSends

\* Interrupts that are pending are taken and the handler goes on.
Interrupt == ReadCause \/ Handle \/ LoopEnds \/ WriteTail \/ Acknowledge
Spec == Init /\ [][Next]_vars
-----------------------------------------------------------------------------
\* Type invariant.
TypeOK ==
    /\ {rx.head, rx.tail, rx.cur} \subseteq 0 .. RxCount - 1
    /\ {tx.head, tx.tail, tx.cur} \subseteq 0 .. TxCount - 1
    /\ irq.pc \in {"idle", "loop", "tail", "ack"}
    /\ bad \subseteq {"window", "overrun", "raced"}

\* The frames that are in the ring, from cur_rx on.
InRing(n) == [i \in 1 .. n |-> rx.frame[(rx.cur + i - 1) % RxCount]]

\* Frames are passed on once each, in the order of arrival, and the card never
\* writes over one that the driver has not handled, at any fill of the ring.
FramesInOrder ==
    LET n == got.accepted - Len(got.passed)
    IN  n \in 0 .. RxCount - 1 /\ got.passed \o InRing(n) = [i \in 1 .. got.accepted |-> i]

\* When the handler has run and has nothing left, the card has descriptors again.
RingRefilled == (irq.pc = "idle" /\ got.accepted = Len(got.passed)) => rx.head # rx.tail

\* A frame stays in the ring with no interrupt to come only if it came between
\* the handler's last look at the ring and its write to the cause register.
StrandedOnlyInWindow == (irq.pc = "idle" /\ ~irq.msg /\ rx.done[rx.cur]) => "window" \in bad

\* As long as the ring was never overrun and no two CPUs sent at the same time,
\* what is on the wire and what is still in the ring are the frames sent, once
\* each and in order.
SentInOrder ==
    LET ring == [i \in 1 .. Outstanding + Filled |-> tx.frame[(tx.head + i - 1) % TxCount]]
    IN  bad \cap {"overrun", "raced"} = {} => got.wire \o ring = [i \in 1 .. got.sent |-> i]
-----------------------------------------------------------------------------
(* The inductive invariant.                                                *)

\* What is taken of the constants.
Sane == RxCount \in Nat /\ RxCount >= 2 /\ TxCount \in Nat \ {0}

\* In a ring of n descriptors, the one j places after c.
Nth(n, c, j) == IF c + j < n THEN c + j ELSE c + j - n

\* Frames that the card has accepted and the driver not passed on.
Waiting == got.accepted - Len(got.passed)

Descriptors == 0 .. RxCount - 1

Records ==
    /\ rx \in [head : Descriptors, tail : Descriptors, cur : Descriptors,
               done : [Descriptors -> BOOLEAN], frame : [Descriptors -> Nat]]
    /\ irq \in [cause : BOOLEAN, msg : BOOLEAN, pc : {"idle", "loop", "tail", "ack"},
                icr : BOOLEAN, old : Descriptors \cup {-1}]
    /\ got \in [accepted : Nat, passed : Seq(Nat), sent : Nat, wire : Seq(Nat)]
    /\ tx \in [head : 0 .. TxCount - 1, tail : 0 .. TxCount - 1, cur : 0 .. TxCount - 1,
               frame : [0 .. TxCount - 1 -> Nat], at : [Cpus -> {"out", "filled"}]]
    /\ bad \subseteq {"window", "overrun", "raced"}

\* From cur_rx on: frames that wait, descriptors of the card up to the tail, and
\* those that the driver has still to give back.
Order ==
    /\ Waiting \in 0 .. RxCount - 1 /\ rx.head = Nth(RxCount, rx.cur, Waiting)
    /\ \E k \in Waiting .. RxCount - 1 : rx.tail = Nth(RxCount, rx.cur, k)
    /\ irq.pc \in {"idle", "ack"} \/ irq.old = -1 => rx.tail = Nth(RxCount, rx.cur, RxCount - 1)
    /\ irq.old # -1 /\ irq.pc \in {"loop", "tail"} => irq.old = Nth(RxCount, rx.cur, RxCount - 1)

Contents ==
    /\ \A i \in 1 .. Len(got.passed) : got.passed[i] = i
    /\ \A j \in Descriptors : rx.done[Nth(RxCount, rx.cur, j)] <=> j < Waiting
    /\ \A j \in 0 .. Waiting - 1 : rx.frame[Nth(RxCount, rx.cur, j)] = Len(got.passed) + j + 1

\* Outside the window of e1000_irq a frame that waits has the handler's attention.
Noticed ==
    Waiting > 0 /\ "window" \notin bad =>
        irq.pc = "loop" \/ (irq.pc = "idle" /\ irq.msg /\ irq.cause)

RxInv == Records /\ Order /\ Contents /\ Noticed

\* From the card's head on: the frames sent and not on the wire, the last of
\* which a CPU may still be about to hand over.
Queued ==
    bad \cap {"overrun", "raced"} = {} =>
        /\ tx.tail = tx.cur /\ Outstanding + Filled <= TxCount - 1
        /\ \A c, d \in Cpus : tx.at[c] = "filled" /\ tx.at[d] = "filled" => c = d
        /\ got.sent = Len(got.wire) + Outstanding + Filled
        /\ \A i \in 1 .. Len(got.wire) : got.wire[i] = i
        /\ \A j \in 0 .. Outstanding + Filled - 1 : tx.frame[Nth(TxCount, tx.head, j)] = Len(got.wire) + j + 1

IInv == RxInv /\ Queued
=============================================================================
