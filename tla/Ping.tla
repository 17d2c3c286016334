-------------------------------- MODULE Ping --------------------------------
(***************************************************************************)
(* Raw sockets (net/ipv4/raw.c) and the program that uses them             *)
(* (userspace/ping): every ICMP packet goes to every raw socket, and ping  *)
(* takes whatever comes for the answer to what it sent.  The peer and the  *)
(* network are external: it answers requests whose checksum is right, asks *)
(* on its own, and packets get lost.  One CPU.                             *)
(***************************************************************************)
EXTENDS Integers, Sequences

CONSTANTS Procs,      \* processes that run ping, once each
          Starts,     \* numbers of rounds that the pings may have behind them
          Rounds,     \* bound: requests that each sends from there
          MaxArrived  \* bound: packets that arrive

VARIABLES socket_list, recv_queue,  \* the raw sockets (a set: each gets a copy), named by their processes
          pc, seq,                  \* of the pings
          sent,                     \* requests of each since its start
          net,                      \* packets on their way
          arrived, heard,           \* history: packets that came in; those each ping has read
          since,                    \* history: Len(arrived) when its socket was made
          foreign, lost             \* history: pings that got another packet than their answers; losses

vars == <<socket_list, recv_queue, pc, seq, sent, net, arrived, heard, since, foreign, lost>>

Echo(p, n) == [type |-> 8, of |-> p, seq |-> n]
Reply(p, n) == [type |-> 0, of |-> p, seq |-> n]
\* What the peer sends on its own.
Foreign == [type |-> 8, of |-> 0, seq |-> 1]

Init ==
    /\ socket_list = {} /\ recv_queue = [p \in Procs |-> <<>>]
    /\ pc = [p \in Procs |-> "out"] /\ sent = [p \in Procs |-> 0]
    /\ net = {} /\ arrived = <<>> /\ heard = [p \in Procs |-> <<>>] /\ since = [p \in Procs |-> 0]
    /\ foreign = {} /\ lost = FALSE
    /\ \E n \in Starts : seq = [p \in Procs |-> n]
-----------------------------------------------------------------------------
(* The checksum.                                                           *)

Half == 65536
\* The 28 words of the payload: word k holds the bytes 2 * k and 2 * k + 1.
PayloadSum == (2 * 256 + 2) * ((27 * 28) \div 2) + 28
\* The sum of the words of the packet: type 8, the number of the request, payload.
WordSum(n) == 8 * 256 + n + PayloadSum

\* Mutant: the carry is dropped.
FoldNone(sum) == sum % Half
FoldOnce(sum) == (IF sum >= Half THEN (sum \div Half) + (sum % Half) ELSE sum) % Half
icmp_checksum(n) == Half - 1 - FoldOnce(WordSum(n))

\* What a receiver checks: with the checksum the words add up to 0xffff in
\* one's complement.
Verifies(n) == LET sum == WordSum(n) + icmp_checksum(n) IN sum > 0 /\ sum % (Half - 1) = 0
-----------------------------------------------------------------------------
(* The programs.                                                           *)

\* socket(), with socket_create, ipv4_create_socket and ipv4_raw_create_socket.
ipv4_raw_create_socket(p) ==
    /\ pc[p] = "out" /\ pc' = [pc EXCEPT ![p] = "send"]
    /\ socket_list' = socket_list \cup {p}
    /\ since' = [since EXCEPT ![p] = Len(arrived)]
    /\ UNCHANGED <<recv_queue, seq, sent, net, arrived, heard, foreign, lost>>

\* One request, through ipv4_raw_sendto.
ipv4_raw_sendto(p) ==
    /\ pc[p] = "send" /\ sent[p] < Rounds
    /\ pc' = [pc EXCEPT ![p] = "receive"] /\ sent' = [sent EXCEPT ![p] = @ + 1]
    /\ seq' = [seq EXCEPT ![p] = (@ + 1) % Half]
    /\ net' = net \cup {Echo(p, seq'[p])}
    /\ UNCHANGED <<socket_list, recv_queue, arrived, heard, since, foreign, lost>>

\* Mutant: the next request is sent without waiting.
RecvNothing(p) ==
    /\ pc[p] = "receive" /\ pc' = [pc EXCEPT ![p] = "send"]
    /\ heard' = IF recv_queue[p] = <<>> THEN heard ELSE [heard EXCEPT ![p] = Append(@, Head(recv_queue[p]))]
    /\ recv_queue' = IF recv_queue[p] = <<>> THEN recv_queue ELSE [recv_queue EXCEPT ![p] = Tail(@)]
    /\ UNCHANGED <<socket_list, seq, sent, net, arrived, since, foreign, lost>>
\* recvfrom returns a packet, whatever it is; ping sleeps and goes on.
Recv(p) ==
    /\ pc[p] = "receive" /\ recv_queue[p] # <<>>
    /\ heard' = [heard EXCEPT ![p] = Append(@, Head(recv_queue[p]))]
    /\ recv_queue' = [recv_queue EXCEPT ![p] = Tail(@)]
    /\ pc' = [pc EXCEPT ![p] = "send"]
    /\ UNCHANGED <<socket_list, seq, sent, net, arrived, since, foreign, lost>>

\* The program ends, by a signal or because a call failed: socket_put and
\* ipv4_raw_release.
ipv4_raw_release(p) ==
    /\ pc[p] \in {"send", "receive"} /\ pc' = [pc EXCEPT ![p] = "gone"]
    /\ socket_list' = socket_list \ {p}
    /\ recv_queue' = [recv_queue EXCEPT ![p] = <<>>] /\ heard' = [heard EXCEPT ![p] = <<>>]
    /\ sent' = [sent EXCEPT ![p] = 0] /\ seq' = [seq EXCEPT ![p] = 0] /\ since' = [since EXCEPT ![p] = 0]
    /\ foreign' = foreign \ {p}
    /\ UNCHANGED <<net, arrived, lost>>
-----------------------------------------------------------------------------
(* The network.                                                            *)

\* Mutant: only one socket gets the packet.
FirstReceiver == IF socket_list = {} THEN {} ELSE {CHOOSE p \in socket_list : TRUE}
\* The walk of ipv4_raw_rx_packet meets every socket; all are for ICMP here.
Receivers == socket_list

\* ipv4_raw_rx_packet: a copy for each socket.
ipv4_raw_rx_packet(m) ==
    /\ Len(arrived) < MaxArrived
    /\ arrived' = Append(arrived, m)
    /\ recv_queue' = [p \in Procs |-> IF p \in Receivers THEN Append(recv_queue[p], m) ELSE recv_queue[p]]
    /\ foreign' = foreign \cup {p \in socket_list : m # Reply(p, seq[p])}
    /\ net' = net \ {m}
    /\ UNCHANGED <<socket_list, pc, seq, sent, heard, since, lost>>

PeerReplies(p) ==
    /\ \E m \in net : m = Echo(p, m.seq) /\ net' = (net \ {m}) \cup (IF Verifies(m.seq) THEN {Reply(p, m.seq)} ELSE {})
    /\ UNCHANGED <<socket_list, recv_queue, pc, seq, sent, arrived, heard, since, foreign, lost>>

Lose(m) == /\ net' = net \ {m} /\ lost' = TRUE
           /\ UNCHANGED <<socket_list, recv_queue, pc, seq, sent, arrived, heard, since, foreign>>

\* ipv4_rx_packet: what is addressed to this device and is ICMP goes to the raw sockets.
Arrives(p) == \E m \in net : m.type = 0 /\ m.of = p /\ ipv4_raw_rx_packet(m)
Next ==
    \/ \E p \in Procs : \/ ipv4_raw_create_socket(p) \/ ipv4_raw_sendto(p) \/ Recv(p) \/ ipv4_raw_release(p)
                        \/ PeerReplies(p) \/ Arrives(p)
    \/ ipv4_raw_rx_packet(Foreign)
    \/ \E m \in net : Lose(m)

\* Programs run on, the peer answers and answers arrive.
Progress(p) == Recv(p) \/ PeerReplies(p) \/ Arrives(p)
Spec == Init /\ [][Next]_vars
-----------------------------------------------------------------------------
\* Type invariant.
TypeOK ==
    /\ socket_list \subseteq Procs /\ seq \in [Procs -> 0 .. Half - 1]
    /\ pc \in [Procs -> {"out", "send", "receive", "gone"}] /\ sent \in [Procs -> 0 .. Rounds]

\* Every raw socket gets every packet that comes between its creation and its
\* release, once and in order, whatever other sockets do.
FanOut ==
    \A p \in socket_list : heard[p] \o recv_queue[p] = SubSeq(arrived, since[p] + 1, Len(arrived))

\* The answer that ping shows after a request is the answer to that request,
\* unless another ICMP packet has come: it looks at neither number nor sender.
ShowsOwnReply ==
    \A p \in Procs : (pc[p] = "send" /\ heard[p] # <<>> /\ p \notin foreign) => heard[p][Len(heard[p])] = Reply(p, seq[p])

\* The checksum of every request is right, except for the requests 238 and
\* 239, where the one fold leaves a carry.
ChecksumVerifies == \A p \in Procs : sent[p] > 0 => (Verifies(seq[p]) <=> seq[p] \notin {238, 239})
-----------------------------------------------------------------------------
(* The inductive invariant.                                                *)

\* What is taken of the constants: no process has the name of the peer.
Sane == /\ 0 \notin Procs /\ Starts \subseteq 0 .. Half - 1 /\ Rounds \in Nat /\ MaxArrived \in Nat

Messages == [type : {0, 8}, of : Procs \cup {0}, seq : 0 .. Half - 1]
Types ==
    /\ TypeOK /\ net \subseteq Messages /\ arrived \in Seq(Messages) /\ foreign \subseteq Procs
    /\ recv_queue \in [Procs -> Seq(Messages)] /\ heard \in [Procs -> Seq(Messages)] /\ since \in [Procs -> Nat]

\* The list holds the sockets of the programs that run.
Listed == \A p \in Procs : p \in socket_list <=> pc[p] \in {"send", "receive"}

\* What was read and what may be read are the packets since the start.
Copy(all, start, read, waiting) ==
    /\ start + Len(read) + Len(waiting) = Len(all)
    /\ \A i \in 1 .. Len(read) : read[i] = all[start + i]
    /\ \A i \in 1 .. Len(waiting) : waiting[i] = all[start + Len(read) + i]
Copies == \A p \in socket_list : Copy(arrived, since[p], heard[p], recv_queue[p])

Silent(p) == \A m \in net : m.of # p
\* A ping that no other packet has reached has one request or its answer out
\* while it waits, and nothing otherwise.
Turns ==
    \A p \in Procs :
        /\ pc[p] = "out" => Silent(p) /\ heard[p] = <<>> /\ recv_queue[p] = <<>>
        /\ (pc[p] = "send" /\ p \notin foreign) => 
               Silent(p) /\ recv_queue[p] = <<>> /\ (heard[p] # <<>> => heard[p][Len(heard[p])] = Reply(p, seq[p]))
        /\ (pc[p] = "receive" /\ p \notin foreign) =>
               /\ \A m \in net : m.of = p => m.seq = seq[p]
               /\ ~(Echo(p, seq[p]) \in net /\ Reply(p, seq[p]) \in net)
               /\ recv_queue[p] = <<>> \/ (recv_queue[p] = <<Reply(p, seq[p])>> /\ Silent(p))

IInv == Types /\ Listed /\ Copies /\ Turns
=============================================================================
