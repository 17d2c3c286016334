-------------------------------- MODULE Arp ---------------------------------
(***************************************************************************)
(* Sending an IPv4 packet (ipv4_tx_packet): the hardware address of the    *)
(* next hop comes from the ARP table, or from a request on the network     *)
(* (net/arp.c), for which the sender waits in a hash table of wait queues. *)
(* The peers and the network are external: a request or a reply may get    *)
(* lost, and a peer may ask first.  With one CPU the part of a call        *)
(* between two yields is atomic, as interrupts are off; with two, packets  *)
(* are handled beside it.  The tables have one lock, of module Mutex: a    *)
(* woken waiter does not set it again, so that a newcomer can get in       *)
(* beside it, and the handler of an interrupt that came over an idle task  *)
(* does not wait at all.  What two of them do to the chains together is    *)
(* not followed (undef is then "overlap").                                 *)
(***************************************************************************)
EXTENDS Integers, Sequences

CONSTANTS Tasks,      \* tasks that send
          Hops,       \* addresses of next hops
          Askers,     \* bound: those that may ask first
          Broadcast,  \* netdev->ip_broadcast
          Buckets,    \* bound: 32 in the code
          NumCpus

VARIABLES arp_table,      \* the addresses in it
          arp_waittable,  \* its chains of [address, queue], newest first
          at, hop,        \* the senders
          older,          \* history: the addresses behind a sender's in its chain
          status, pending,
          handler,        \* the one interrupt of the card: its step and its packet
          lock,           \* its flag, its queue and those inside
          failed,         \* history: a call has returned -ENETUNREACH
          wire, lost,     \* packets on their way; history: one got lost
          undef           \* why the kernel is not followed from here on

vars == <<arp_table, arp_waittable, at, hop, older, status, pending, handler, lock, failed, wire, lost, undef>>

Hash(address) == address % Buckets
NoPacket == [at |-> "none", ip |-> Broadcast]

Init ==
    /\ arp_table = {} /\ arp_waittable = [b \in 0 .. Buckets - 1 |-> <<>>]
    /\ at = [t \in Tasks |-> "user"] /\ hop = [t \in Tasks |-> Broadcast] /\ older = [t \in Tasks |-> {}]
    /\ status = [t \in Tasks |-> "RUNNING"] /\ pending = [t \in Tasks |-> FALSE]
    /\ handler = NoPacket /\ lock = [locked |-> FALSE, waiting |-> <<>>, inside |-> {}]
    /\ failed = FALSE /\ wire = {} /\ lost = FALSE /\ undef = "no"

arp_get_entry(address) == address \in arp_table

\* One CPU: a call that has begun goes on until it yields or returns, and so does
\* the handler.
Resting(t) == at[t] \in {"user", "yield"}
Alone(t) == NumCpus > 1 \/ (handler.at = "none" /\ \A q \in Tasks \ {t} : Resting(q))
\* Mutant: a packet is handled in the middle of a call.
Anytime == TRUE
Quiet == NumCpus > 1 \/ \A t \in Tasks : Resting(t)
-----------------------------------------------------------------------------
(* The lock, of senders and the handler.                                   *)

Irq == 0   \* not a task

\* mutex_lock: one that finds the lock taken goes to the front of its queue; over an
\* idle task the handler goes on.
mutex_lock(c) ==
    /\ lock' = IF lock.locked THEN [lock EXCEPT !.waiting = <<c>> \o @]
               ELSE [lock EXCEPT !.locked = TRUE, !.inside = @ \cup {c}]
    /\ \/ undef' = IF ~lock.locked /\ lock.inside # {} THEN "overlap" ELSE "no"
       \/ c = Irq /\ lock.locked /\ undef' = "overlap"
\* mutex_unlock: the first of the queue returns from mutex_lock with the flag clear.
mutex_unlock(c) ==
    lock' = [locked |-> FALSE, waiting |-> IF lock.waiting = <<>> THEN <<>> ELSE Tail(lock.waiting),
             inside |-> (lock.inside \ {c}) \cup (IF lock.waiting = <<>> THEN {} ELSE {Head(lock.waiting)})]
-----------------------------------------------------------------------------
(* The sender.                                                             *)

arp_send_request(address) == wire' = wire \cup {[op |-> "request", ip |-> address]}

\* A packet for the broadcast address is sent at once; for another, arp_search begins,
\* which on one CPU comes to its end if the address is known.
ipv4_tx_packet(t, route) ==
    /\ at[t] = "user" /\ Alone(t)
    /\ IF route = Broadcast \/ (NumCpus = 1 /\ arp_get_entry(route)) THEN UNCHANGED <<at, hop, lock, undef>>
       ELSE at' = [at EXCEPT ![t] = "looking"] /\ hop' = [hop EXCEPT ![t] = route] /\ mutex_lock(t)
    /\ UNCHANGED <<arp_table, arp_waittable, older, status, pending, handler, failed, wire, lost>>

\* arp_search: the address is known, or asked for.
arp_search(t) ==
    /\ at[t] = "looking" /\ t \in lock.inside
    /\ mutex_unlock(t)
    /\ IF arp_get_entry(hop[t])
       THEN at' = [at EXCEPT ![t] = "user"] /\ hop' = [hop EXCEPT ![t] = Broadcast] /\ UNCHANGED wire
       ELSE at' = [at EXCEPT ![t] = "requested"] /\ arp_send_request(hop[t]) /\ UNCHANGED hop
    /\ UNCHANGED <<arp_table, arp_waittable, older, status, pending, handler, failed, lost, undef>>

\* The mutex_lock of arp_search.
Relock(t) ==
    /\ at[t] = "requested"
    /\ at' = [at EXCEPT ![t] = "joining"] /\ mutex_lock(t)
    /\ UNCHANGED <<arp_table, arp_waittable, hop, older, status, pending, handler, failed, wire, lost>>

\* The wait queue of an address, made at the front when there is none.
Place(chain, address) == {i \in DOMAIN chain : chain[i].address = address}
Join(chain, address, t) ==
    IF Place(chain, address) = {} THEN <<[address |-> address, queue |-> {t}]>> \o chain
    ELSE [chain EXCEPT ![CHOOSE i \in Place(chain, address) : TRUE].queue = @ \cup {t}]

\* arp_search from there to sched_yield.
Wait(t) ==
    LET b == Hash(hop[t])
        chain == Join(arp_waittable[b], hop[t], t)
    IN  /\ at[t] = "joining" /\ t \in lock.inside
        /\ mutex_unlock(t)
        /\ status' = [status EXCEPT ![t] = "INTR_SLEEPING"]
        /\ arp_waittable' = [arp_waittable EXCEPT ![b] = chain]
        /\ older' = [older EXCEPT ![t] = {chain[i].address : i \in {k \in DOMAIN chain :
                                            \A j \in Place(chain, hop[t]) : k > j}}]
        /\ at' = [at EXCEPT ![t] = "yield"]
        /\ UNCHANGED <<arp_table, hop, pending, handler, failed, wire, lost, undef>>

\* wait_queue_unregister: the node is on one queue at most.
Unregister(t) ==
    [b \in DOMAIN arp_waittable |->
       [i \in DOMAIN arp_waittable[b] |-> [arp_waittable[b][i] EXCEPT !.queue = @ \ {t}]]]

\* From the return of sched_yield: -EINTR becomes a pointer that ipv4_tx_packet
\* copies from.
Resume(t) ==
    /\ at[t] = "yield" /\ status[t] = "RUNNING" /\ Alone(t)
    /\ arp_waittable' = Unregister(t)
    /\ IF pending[t] THEN undef' = "interrupted" /\ UNCHANGED <<at, lock>>
       ELSE at' = [at EXCEPT ![t] = "checking"] /\ mutex_lock(t)
    /\ older' = [older EXCEPT ![t] = {}]
    /\ UNCHANGED <<arp_table, hop, status, pending, handler, failed, wire, lost>>

\* The last arp_get_entry; without an entry it is -ENETUNREACH.
Check(t) ==
    /\ at[t] = "checking" /\ t \in lock.inside
    /\ mutex_unlock(t)
    /\ failed' = (failed \/ ~arp_get_entry(hop[t]))
    /\ at' = [at EXCEPT ![t] = "user"] /\ hop' = [hop EXCEPT ![t] = Broadcast]
    /\ UNCHANGED <<arp_table, arp_waittable, older, status, pending, handler, wire, lost, undef>>

\* A signal that comes before the sleep is not noticed by arp_search: it may as well
\* come right before the lock is taken.
send_signal(t) ==
    /\ at[t] \in {"requested", "yield"} /\ Quiet
    /\ pending' = [pending EXCEPT ![t] = TRUE]
    /\ status' = [status EXCEPT ![t] = "RUNNING"]
    /\ UNCHANGED <<arp_table, arp_waittable, at, hop, older, handler, lock, failed, wire, lost, undef>>
-----------------------------------------------------------------------------
(* The interrupt of the network card.                                      *)

\* Mutant: everyone in the chain is woken.
WokenAll(chain, i) == UNION {chain[k].queue : k \in DOMAIN chain}
\* wait_queue_wake empties the queue.
Woken(chain, i) == chain[i].queue

\* Mutants: the chain is emptied, or left as it is.
Emptied(chain, i) == <<>>
Kept(chain, i) == chain
\* The chain begins behind the entry, whatever was before it.
Behind(chain, i) == SubSeq(chain, i + 1, Len(chain))

arp_add_entry(address) ==
    LET b == Hash(address)
        chain == arp_waittable[b]
        i == CHOOSE k \in Place(chain, address) : TRUE
    IN  /\ arp_table' = arp_table \cup {address}
        /\ IF Place(chain, address) = {} THEN UNCHANGED <<arp_waittable, status, undef>>
           ELSE IF \E t \in Woken(chain, i) : status[t] # "INTR_SLEEPING"
           THEN undef' = "not_sleeping" /\ UNCHANGED <<arp_waittable, status>>
           ELSE /\ status' = [t \in Tasks |-> IF t \in Woken(chain, i) THEN "RUNNING" ELSE status[t]]
                /\ arp_waittable' = [arp_waittable EXCEPT ![b] = Behind(chain, i)]
                /\ UNCHANGED undef

\* ether_rx_packet and arp_rx_packet: a peer's request teaches a new address, and its
\* answer (arp_send_reply) is not followed; a reply is always entered.
arp_rx_packet(p) ==
    /\ Quiet /\ handler.at = "none" /\ p \in wire /\ p.op \in {"ask", "reply"}
    /\ wire' = wire \ {p}
    /\ handler' = [at |-> IF p.op = "ask" THEN "looking" ELSE "adding", ip |-> p.ip]
    /\ mutex_lock(Irq)
    /\ UNCHANGED <<arp_table, arp_waittable, at, hop, older, status, pending, failed, lost>>
HandlerLooks ==
    /\ handler.at = "looking" /\ Irq \in lock.inside
    /\ mutex_unlock(Irq)
    /\ handler' = IF arp_get_entry(handler.ip) THEN NoPacket ELSE [handler EXCEPT !.at = "unknown"]
    /\ UNCHANGED <<arp_table, arp_waittable, at, hop, older, status, pending, failed, wire, lost, undef>>
HandlerRelocks ==
    /\ handler.at = "unknown"
    /\ handler' = [handler EXCEPT !.at = "adding"] /\ mutex_lock(Irq)
    /\ UNCHANGED <<arp_table, arp_waittable, at, hop, older, status, pending, failed, wire, lost>>
HandlerAdds ==
    /\ handler.at = "adding" /\ Irq \in lock.inside
    /\ mutex_unlock(Irq)
    /\ arp_add_entry(handler.ip) /\ handler' = NoPacket
    /\ UNCHANGED <<at, hop, older, pending, failed, wire, lost>>
Handler == HandlerLooks \/ HandlerRelocks \/ HandlerAdds

\* The peers: each may ask once before it is known, and answers a request.
Network(w) ==
    wire' = w /\ UNCHANGED <<arp_table, arp_waittable, at, hop, older, status, pending, handler, lock, failed, undef>>
PeerAsks(a) == a \notin arp_table /\ Network(wire \cup {[op |-> "ask", ip |-> a]}) /\ UNCHANGED lost
PeerReplies(a) ==
    /\ [op |-> "request", ip |-> a] \in wire
    /\ Network((wire \ {[op |-> "request", ip |-> a]}) \cup {[op |-> "reply", ip |-> a]})
    /\ UNCHANGED lost
Lose(p) == p \in wire /\ Network(wire \ {p}) /\ lost' = (lost \/ p.op \in {"request", "reply"})

Replies == {[op |-> "reply", ip |-> a] : a \in Hops}

\* What a task does once its call has begun.
Goes(t) == arp_search(t) \/ Relock(t) \/ Wait(t) \/ Resume(t) \/ Check(t)

Next ==
    /\ undef = "no"
    /\ \/ \E t \in Tasks : \/ Goes(t) \/ send_signal(t)
                           \/ \E a \in Hops \cup {Broadcast} : ipv4_tx_packet(t, a)
       \/ Handler
       \/ \E p \in wire : arp_rx_packet(p) \/ Lose(p)
       \/ \E a \in Askers : PeerAsks(a)
       \/ \E a \in Hops : PeerReplies(a)

\* Calls go on, ready tasks run, peers answer and answers arrive.
Progress ==
    /\ undef = "no"
    /\ \/ \E t \in Tasks : Goes(t)
       \/ Handler
       \/ \E a \in Hops : PeerReplies(a)
       \/ \E p \in Replies : arp_rx_packet(p)
Spec == Init /\ [][Next]_vars
-----------------------------------------------------------------------------
Sections == {"looking", "joining", "checking"}

\* Type invariant.
TypeOK ==
    /\ arp_table \subseteq Hops
    /\ \A b \in DOMAIN arp_waittable : arp_waittable[b] \in Seq([address : Hops, queue : SUBSET Tasks])
    /\ at \in [Tasks -> Sections \cup {"user", "requested", "yield"}] /\ hop \in [Tasks -> Hops \cup {Broadcast}]
    /\ status \in [Tasks -> {"RUNNING", "INTR_SLEEPING"}] /\ pending \in [Tasks -> BOOLEAN]
    /\ wire \subseteq [op : {"request", "reply", "ask"}, ip : Hops]

Asleep(t) == undef = "no" /\ status[t] = "INTR_SLEEPING"
Listed(t) == LET chain == arp_waittable[Hash(hop[t])]
             IN  \E i \in Place(chain, hop[t]) : t \in chain[i].queue

\* As long as the lock lets in one at a time, a sleeping sender drops out of the
\* wait table only when an address behind its own in the same chain is answered
\* (the chain then begins behind that).
DroppedOnlyByOlder ==
    \A t \in Tasks : Asleep(t) => Listed(t) \/ \E a \in older[t] : arp_get_entry(a)

\* On one CPU no listed sender waits for an address that is already known; on
\* two, the reply may come between its request and its place in the wait table.
NoReplyMissed == NumCpus = 1 => \A t \in Tasks : Asleep(t) /\ Listed(t) => ~arp_get_entry(hop[t])

\* A sender that was woken finds the entry: it never fails with -ENETUNREACH.
WokenFinds == ~failed

\* On one CPU nobody waits for the lock or gets in beside another.
Unshared == NumCpus = 1 => undef # "overlap"
-----------------------------------------------------------------------------
(* The inductive invariant.                                                *)

\* What is taken of the constants.
Sane == Hops \subseteq Nat /\ Askers \subseteq Hops /\ Buckets \in Nat \ {0} /\ NumCpus \in Nat /\ Irq \notin Tasks

Entries == [address : Hops, queue : SUBSET Tasks]

Types ==
    /\ arp_table \subseteq Hops /\ arp_waittable \in [0 .. Buckets - 1 -> Seq(Entries)]
    /\ at \in [Tasks -> Sections \cup {"user", "requested", "yield"}] /\ hop \in [Tasks -> Hops \cup {Broadcast}]
    /\ older \in [Tasks -> SUBSET Hops]
    /\ status \in [Tasks -> {"RUNNING", "INTR_SLEEPING"}] /\ pending \in [Tasks -> BOOLEAN]
    /\ wire \subseteq [op : {"request", "reply", "ask"}, ip : Hops]
    /\ \A t \in Tasks : at[t] # "user" => hop[t] \in Hops
    /\ handler \in [at : {"none", "looking", "unknown", "adding"}, ip : Hops \cup {Broadcast}]
    /\ handler.at # "none" => handler.ip \in Hops

\* An address has one queue in a chain.
Single(chain) == \A i, j \in DOMAIN chain : chain[i].address = chain[j].address => i = j

\* Chains hold the addresses of their bucket, and on the queue of an address are
\* senders that wait for it and know what is behind.
Chained ==
    \A b \in 0 .. Buckets - 1 :
        /\ Single(arp_waittable[b])
        /\ \A i \in DOMAIN arp_waittable[b] :
             /\ Hash(arp_waittable[b][i].address) = b
             /\ \A t \in arp_waittable[b][i].queue :
                  /\ at[t] = "yield" /\ hop[t] = arp_waittable[b][i].address
                  /\ \A k \in DOMAIN arp_waittable[b] : k > i => arp_waittable[b][k].address \in older[t]

\* A sleeper is on its queue, or was cut off by an answer behind it; one that
\* was woken by an answer and not by a signal has it.
Sleepers ==
    \A t \in Tasks :
        /\ status[t] = "INTR_SLEEPING" => at[t] = "yield" /\ (Listed(t) \/ \E a \in older[t] : a \in arp_table)
        /\ at[t] = "yield" /\ status[t] = "RUNNING" /\ ~pending[t] => hop[t] \in arp_table
        /\ at[t] = "checking" => hop[t] \in arp_table

\* On one CPU nobody asks or waits for what is known ...
Unknown ==
    NumCpus = 1 /\ undef = "no" =>
        /\ \A t \in Tasks : at[t] \in {"requested", "joining"} => hop[t] \notin arp_table
        /\ \A b \in 0 .. Buckets - 1 : \A i \in DOMAIN arp_waittable[b] : arp_waittable[b][i].address \notin arp_table

\* ... as one call or the handler is at work, and has the lock for itself.
OneAtWork ==
    /\ lock \in [locked : BOOLEAN, waiting : Seq(Tasks \cup {Irq}), inside : SUBSET (Tasks \cup {Irq})]
    /\ NumCpus = 1 =>
        /\ undef # "overlap"
        /\ undef = "no" =>
             /\ handler.at # "none" => \A t \in Tasks : Resting(t)
             /\ \A t, q \in Tasks : Resting(t) \/ Resting(q) \/ t = q
             /\ lock.waiting = <<>> /\ lock.locked = (lock.inside # {})
             /\ \A c \in lock.inside : \/ c = Irq /\ handler.at \in {"looking", "adding"}
                                       \/ c \in Tasks /\ at[c] \in Sections

Waits == Types /\ Chained /\ Sleepers /\ Unknown /\ ~failed
IInv == Waits /\ OneAtWork
=============================================================================
