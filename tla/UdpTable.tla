------------------------------ MODULE UdpTable ------------------------------
(***************************************************************************)
(* UDP sockets and the hash table of ports (net/ipv4/udp.c, net/socket.c): *)
(* creation, binding, the port a first send chooses, arriving datagrams    *)
(* and release.  A socket is the block of memory it lies in, and kmalloc   *)
(* gives a freed block out again.  Every call works with interrupts off    *)
(* and takes the table's lock for each access, so that with one CPU calls  *)
(* follow each other, and with two the accesses interleave.  The lock is   *)
(* the one of module Mutex: a woken waiter does not set it again, so that  *)
(* a newcomer can get in beside it; what two tasks inside do to a chain    *)
(* together is not followed (undef is then "overlap").                     *)
(***************************************************************************)
EXTENDS Integers, FiniteSets, SequencesExt

CONSTANTS Socks,     \* blocks of memory for sockets
          Nil,
          Addrs,     \* local addresses; 0 is INADDR_ANY
          Byte,      \* bound: values of a byte; a port has two
          Asked,     \* bound: ports that binds and datagrams name
          EphStart,  \* ephemeral_port_start
          Buckets,   \* bound: 256 in the code
          Cpus       \* bound: calls under way at once; with one CPU never more than one

VARIABLES sock,      \* the sockets, with their ipv4_sdata
          table,     \* udp_table
          next_eph_port,
          call,      \* what each CPU is doing
          lock,      \* udp_table_lock: its flag, its queue and the calls inside
          undef,     \* why the chains are not followed from here on
          raced      \* history: a port was taken between look-up and insertion

vars == <<sock, table, next_eph_port, call, lock, undef, raced>>

Ports == 0 .. Byte * Byte - 1
native_to_be16(p) == (p % Byte) * Byte + p \div Byte
ip_port_hashf(addr, port) == ((17 * 5 + addr) * 5 + port) % Buckets

Idle == [pc |-> "idle", s |-> Nil, addr |-> 0, port |-> 0]
\* linked: inserted and not removed since; auto: given a port by a send.
Blank == [open |-> FALSE, bound |-> FALSE, addr |-> 0, port |-> 0, next |-> Nil,
          linked |-> FALSE, auto |-> FALSE]

Init ==
    /\ sock = [s \in Socks |-> Blank]
    /\ table = [b \in 0 .. Buckets - 1 |-> Nil]
    /\ next_eph_port = EphStart
    /\ call = [c \in Cpus |-> Idle]
    /\ lock = [locked |-> FALSE, waiting |-> <<>>, inside |-> {}]
    /\ undef = "no" /\ raced = FALSE
-----------------------------------------------------------------------------
(* The table.                                                              *)

\* Where a walk along a chain stops: at the end, at a socket that was asked
\* for, at freed memory, or nowhere.
Walk(bucket, found) ==
    FoldLeft(LAMBDA cur, i : IF cur = Nil \/ ~sock[cur].open \/ cur \in found THEN cur ELSE sock[cur].next,
             table[bucket], [i \in 0 .. Cardinality(Socks) |-> i])

Outcome(cur, found) ==
    IF cur = Nil THEN "none"
    ELSE IF ~sock[cur].open THEN "freed" ELSE IF cur \in found THEN "found" ELSE "loop"

HasKey(s, addr, port) == sock[s].addr = addr /\ sock[s].port = port

udp_table_get(addr, port) ==
    LET found == {s \in Socks : HasKey(s, addr, port)}
        cur == Walk(ip_port_hashf(addr, port), found)
    IN  [s |-> cur, is |-> Outcome(cur, found)]

Lost(is) == is \in {"freed", "loop"}
Fail(is) == undef' = is /\ UNCHANGED <<sock, table, next_eph_port, call, lock, raced>>

\* A linked socket gets a new key or is freed: its chain runs into another one,
\* into itself or into freed memory.
Stray(s) == IF ~sock[s].linked THEN "no" ELSE IF sock[s].auto THEN "sent" ELSE "other"

Goto(c, pc, s, addr, port) == call' = [call EXCEPT ![c] = [pc |-> pc, s |-> s, addr |-> addr, port |-> port]]
Goon(c, pc) == call' = [call EXCEPT ![c].pc = pc]
Return(c) == call' = [call EXCEPT ![c] = Idle]

\* What is done with the lock held; the call has its key, or goes by the socket's.
Sections == {"register", "probe", "insert", "check", "remove", "exact", "any"}

\* mutex_lock: a call that finds the lock taken goes to the front of its queue.
mutex_lock(c) ==
    lock' = IF lock.locked THEN [lock EXCEPT !.waiting = <<c>> \o @]
            ELSE [lock EXCEPT !.locked = TRUE, !.inside = @ \cup {c}]
\* A newcomer finds the flag clear although a woken waiter is inside.
Overlap == IF ~lock.locked /\ lock.inside # {} THEN "overlap" ELSE "no"
\* mutex_unlock: the first of the queue returns from mutex_lock with the flag clear.
mutex_unlock(c) ==
    lock' = [locked |-> FALSE, waiting |-> IF lock.waiting = <<>> THEN <<>> ELSE Tail(lock.waiting),
             inside |-> (lock.inside \ {c}) \cup (IF lock.waiting = <<>> THEN {} ELSE {Head(lock.waiting)})]
Inside(c, pc) == call[c].pc = pc /\ c \in lock.inside

\* A call comes to a section: its first, after writes that concern no other call, or
\* a later one.
Enter(c, pc, s, addr, port) == Goto(c, pc, s, addr, port) /\ mutex_lock(c)
Relock(c) ==
    /\ call[c].pc \in Sections /\ c \notin lock.inside /\ ~Contains(lock.waiting, c)
    /\ mutex_lock(c) /\ undef' = Overlap
    /\ UNCHANGED <<sock, table, next_eph_port, call, raced>>

udp_table_insert(c) ==
    LET s == call[c].s
        b == ip_port_hashf(sock[s].addr, sock[s].port)
    IN  /\ Inside(c, "insert")
        /\ sock' = [sock EXCEPT ![s].next = table[b], ![s].linked = TRUE]
        /\ table' = [table EXCEPT ![b] = s]
        /\ raced' = (raced \/ \E q \in Socks \ {s} : /\ sock[q].linked
                                                     /\ HasKey(q, sock[s].addr, sock[s].port))
        /\ Return(c) /\ mutex_unlock(c)
        /\ UNCHANGED <<next_eph_port, undef>>

\* Mutant: the chain is cut before s.
RemoveCutting(c) ==
    LET s == call[c].s
        b == ip_port_hashf(sock[s].addr, sock[s].port)
    IN  /\ Inside(c, "remove")
        /\ table' = [table EXCEPT ![b] = sock[s].next]
        /\ sock' = [sock EXCEPT ![s].next = Nil, ![s].linked = FALSE]
        /\ Goon(c, "free") /\ mutex_unlock(c)
        /\ UNCHANGED <<next_eph_port, undef, raced>>
\* The link to s in its chain is set to what follows s.
udp_table_remove(c) ==
    LET s == call[c].s
        b == ip_port_hashf(sock[s].addr, sock[s].port)
        found == {q \in Socks : q = s \/ sock[q].next = s}
        before == Walk(b, found)
        is == Outcome(before, found)
    IN  /\ Inside(c, "remove")
        /\ IF Lost(is) THEN Fail(is)
           ELSE /\ table' = IF table[b] = s THEN [table EXCEPT ![b] = sock[s].next] ELSE table
                /\ sock' = [q \in Socks |->
                              IF is = "none" THEN sock[q]
                              ELSE IF q = s THEN [sock[q] EXCEPT !.next = Nil, !.linked = FALSE]
                              ELSE IF q = before THEN [sock[q] EXCEPT !.next = sock[s].next] ELSE sock[q]]
                /\ Goon(c, "free") /\ mutex_unlock(c)
                /\ UNCHANGED <<next_eph_port, undef, raced>>
-----------------------------------------------------------------------------
(* The calls on a socket.                                                  *)

CanCall(c) == undef = "no" /\ call[c].pc = "idle"
\* No call is at work on s; an arriving packet may be.
Mine(s) == sock[s].open /\ \A c \in Cpus : call[c].s = s => call[c].pc = "deliver"

\* socket_create, with ipv4_create_socket and udp_create_socket.
socket_create(c, s) ==
    /\ CanCall(c) /\ ~sock[s].open
    /\ sock' = [sock EXCEPT ![s] = [Blank EXCEPT !.open = TRUE]]
    /\ UNCHANGED <<table, next_eph_port, call, lock, undef, raced>>

\* socket_bind with an address that udp_bind refuses: bound all the same.
BindRefused(c, s) ==
    /\ CanCall(c) /\ Mine(s) /\ ~sock[s].bound
    /\ sock' = [sock EXCEPT ![s].bound = TRUE]
    /\ UNCHANGED <<table, next_eph_port, call, lock, undef, raced>>

\* socket_bind and udp_bind: the socket has its new key before the table is asked.
udp_bind(c, s, addr, port) ==
    /\ CanCall(c) /\ Mine(s) /\ ~sock[s].bound
    /\ sock' = [sock EXCEPT ![s].addr = addr, ![s].port = port, ![s].bound = TRUE]
    /\ Enter(c, "register", s, addr, port)
    /\ undef' = IF sock[s].linked THEN Stray(s) ELSE Overlap
    /\ UNCHANGED <<table, next_eph_port, raced>>

\* Mutant: the port is not looked up.
RegisterBlind(c) ==
    /\ Inside(c, "register")
    /\ Goon(c, "insert") /\ mutex_unlock(c)
    /\ UNCHANGED <<sock, table, next_eph_port, undef, raced>>
\* udp_register up to the insertion; -EADDRINUSE: the address stays, the port and
\* `bound' are reset.
udp_register(c) ==
    LET query == udp_table_get(call[c].addr, call[c].port)
        used == query.is = "found"
    IN  /\ Inside(c, "register")
        /\ IF Lost(query.is) THEN Fail(query.is)
           ELSE /\ sock' = IF used THEN [sock EXCEPT ![call[c].s].port = 0, ![call[c].s].bound = FALSE] ELSE sock
                /\ IF used THEN Return(c) ELSE Goon(c, "insert")
                /\ mutex_unlock(c)
                /\ UNCHANGED <<table, next_eph_port, undef, raced>>

\* A round of udp_get_ephemeral_port takes its number before it looks in the table.
NextRound(c, s) ==
    /\ Goto(c, "probe", s, 0, native_to_be16(next_eph_port))
    /\ next_eph_port' = (next_eph_port + 1) % (Byte * Byte)

\* udp_sendto on a socket without a port; the sending is in module Arp.
udp_sendto(c, s) ==
    /\ CanCall(c) /\ Mine(s) /\ sock[s].port = 0
    /\ sock' = [sock EXCEPT ![s].addr = 0, ![s].auto = TRUE]
    /\ undef' = IF sock[s].linked THEN "sent" ELSE "no"
    /\ NextRound(c, s)
    /\ UNCHANGED <<table, lock, raced>>

\* One round of udp_get_ephemeral_port; port 0 makes the send fail.
udp_get_ephemeral_port(c) ==
    LET s == call[c].s
        port == call[c].port
        query == udp_table_get(0, port)
    IN  /\ Inside(c, "probe")
        /\ IF Lost(query.is) THEN Fail(query.is)
           ELSE /\ IF query.is = "found" THEN NextRound(c, s) /\ UNCHANGED sock
                   ELSE /\ sock' = [sock EXCEPT ![s].port = port]
                        /\ IF port = 0 THEN Return(c) ELSE Goon(c, "insert")
                        /\ UNCHANGED next_eph_port
                /\ mutex_unlock(c)
                /\ UNCHANGED <<table, undef, raced>>

\* Mutant: the socket's own entry in the table is left.
ReleaseLeaving(c, s) ==
    /\ CanCall(c) /\ Mine(s)
    /\ Goto(c, "free", s, 0, 0)
    /\ UNCHANGED <<sock, table, next_eph_port, lock, undef, raced>>
\* socket_put and udp_release: only a bound socket is looked for in the table.
udp_release(c, s) ==
    /\ CanCall(c) /\ Mine(s)
    /\ IF sock[s].bound
       THEN Enter(c, "check", s, sock[s].addr, sock[s].port) /\ undef' = Overlap
       ELSE Goto(c, "free", s, 0, 0) /\ UNCHANGED <<lock, undef>>
    /\ UNCHANGED <<sock, table, next_eph_port, raced>>
Check(c) ==
    LET query == udp_table_get(call[c].addr, call[c].port)
    IN  /\ Inside(c, "check")
        /\ IF Lost(query.is) THEN Fail(query.is)
           ELSE /\ Goon(c, IF query.is = "found" THEN "remove" ELSE "free")
                /\ mutex_unlock(c)
                /\ UNCHANGED <<sock, table, next_eph_port, undef, raced>>

\* The kfree at the end of socket_put.
Free(c) ==
    LET s == call[c].s
    IN  /\ call[c].pc = "free"
        /\ sock' = [sock EXCEPT ![s] = Blank]
        /\ undef' = Stray(s) /\ Return(c)
        /\ UNCHANGED <<table, next_eph_port, lock, raced>>

\* udp_rx_packet: the exact address first, then sockets of any address.
udp_rx_packet(c, dst, port) ==
    /\ CanCall(c)
    /\ Enter(c, "exact", Nil, dst, port) /\ undef' = Overlap
    /\ UNCHANGED <<sock, table, next_eph_port, raced>>
Receiver(c) ==
    LET exact == call[c].pc = "exact"
        query == udp_table_get(call[c].addr, call[c].port)
    IN  /\ Inside(c, "exact") \/ Inside(c, "any")
        /\ IF Lost(query.is) THEN Fail(query.is)
           ELSE /\ IF query.is = "found" THEN Goto(c, "deliver", query.s, 0, 0)
                   ELSE IF exact THEN Goto(c, "any", Nil, 0, call[c].port) ELSE Return(c)
                /\ mutex_unlock(c)
                /\ UNCHANGED <<sock, table, next_eph_port, undef, raced>>

\* socket_rx_packet is called without the table's lock.
Deliver(c) ==
    /\ call[c].pc = "deliver"
    /\ undef' = IF sock[call[c].s].open THEN "no" ELSE "late"
    /\ Return(c)
    /\ UNCHANGED <<sock, table, next_eph_port, lock, raced>>

Next ==
    /\ undef = "no"
    /\ \E c \in Cpus :
         \/ Relock(c) \/ udp_table_insert(c) \/ udp_table_remove(c)
         \/ udp_register(c) \/ udp_get_ephemeral_port(c) \/ Check(c) \/ Free(c) \/ Receiver(c) \/ Deliver(c)
         \/ \E s \in Socks :
              \/ socket_create(c, s) \/ BindRefused(c, s) \/ udp_sendto(c, s) \/ udp_release(c, s)
              \/ \E addr \in Addrs, port \in Asked : udp_bind(c, s, addr, port)
         \/ \E dst \in Addrs \ {0}, port \in Asked : udp_rx_packet(c, dst, port)

Spec == Init /\ [][Next]_vars
-----------------------------------------------------------------------------
\* Type invariant.
TypeOK ==
    /\ sock \in [Socks -> [open : BOOLEAN, bound : BOOLEAN, addr : Addrs, port : Ports,
                           next : Socks \cup {Nil}, linked : BOOLEAN, auto : BOOLEAN]]
    /\ table \in [0 .. Buckets - 1 -> Socks \cup {Nil}]
    /\ next_eph_port \in Ports
    /\ \A c \in Cpus : call[c].pc \in Sections \cup {"idle", "free", "deliver"}
    /\ lock.locked \in BOOLEAN /\ lock.inside \subseteq Cpus /\ ToSet(lock.waiting) \subseteq Cpus

\* As long as no two calls raced for a port and the lock let in one at a time, a
\* look-up finds exactly the one socket that holds the address and port, whatever
\* the order of binds, refused binds, sends and releases: the chains end, and never
\* run through freed memory.
TableExact ==
    (undef = "no" /\ ~raced) =>
        \A addr \in Addrs, port \in Ports :
            {s \in Socks : sock[s].linked /\ HasKey(s, addr, port)} =
            LET query == udp_table_get(addr, port) IN IF query.is = "none" THEN {} ELSE {query.s}

\* A socket is rebound or freed while it is linked only if a send gave it its
\* port: udp_release looks for sockets that bind has bound.
StrayOnlyBySending == undef # "other"

\* On one CPU no port is given out twice, no datagram is put in the queue of a
\* socket that is gone, and nobody waits for the lock.
CallsDoNotRace == Cardinality(Cpus) = 1 => ~raced /\ undef \notin {"late", "overlap"} /\ lock.waiting = <<>>
=============================================================================
