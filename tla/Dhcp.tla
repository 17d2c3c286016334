-------------------------------- MODULE Dhcp --------------------------------
(***************************************************************************)
(* dhcpcl configures a network device (userspace/dhcpcl): it asks for an   *)
(* offer, requests the address offered, and sets address, mask and routes  *)
(* with the ioctls of net/ipv4/ipv4.c; net/ipv4/route.c then chooses the   *)
(* route of a packet.  It may be run again.  The servers and the network   *)
(* are external: several servers may answer, a server may refuse, and      *)
(* messages are lost, duplicated and reordered.  What a message looks like *)
(* shows when it is read.                                                  *)
(***************************************************************************)
EXTENDS Integers, Sequences

\* An address or a mask is the set of its one bits.
CONSTANTS Servers,    \* what they offer: [ip, mask, gateway]
          MaxRuns,    \* bound: runs of dhcpcl
          MaxQueue,   \* bound: messages that wait in the socket
          Bits        \* of an address: 32 in the code

VARIABLES pc,           \* the place of dhcpcl
          req,          \* req_address, req_mask and req_gateway
          ifc,          \* netdev: ip_addr and ip_subnet
          routes,       \* ip_route_table
          queue,        \* the socket's recv_queue
          net,          \* messages on their way
          runs,         \* runs so far
          lost,         \* history: a message got lost
          odd,          \* history: in this run a server refused, or a second offer came
          acked,        \* history: the addresses that servers acknowledged
          torn          \* history: a run ended between the address and the mask

Addresses == SUBSET Bits

client == <<pc, req, ifc, routes, runs>>
vars == <<client, queue, net, lost, odd, acked, torn>>

Nothing == [ip |-> {}, mask |-> {}, gateway |-> {}]
Msg(op, s) == [op |-> op, of |-> s]

Init ==
    /\ pc = "out" /\ req = Nothing
    /\ ifc = [ip |-> {}, mask |-> {}] /\ routes = <<>>
    /\ queue = <<>> /\ net = {} /\ runs = 0 /\ lost = FALSE /\ odd = FALSE /\ acked = {} /\ torn = FALSE
-----------------------------------------------------------------------------
(* dhcpcl.                                                                 *)

\* The socket, its port and its device, then DHCP_DISCOVER as a broadcast.
Discover ==
    /\ pc = "out" /\ runs < MaxRuns
    /\ pc' = "offer" /\ runs' = runs + 1
    /\ net' = net \cup {Msg("discover", s) : s \in Servers}
    /\ odd' = (net # {})
    /\ UNCHANGED <<req, ifc, routes, queue, lost, acked, torn>>

\* A call reports an error, or dhcpcl is killed: exit closes the socket.
End == pc' = "out" /\ queue' = <<>> /\ req' = Nothing
Exit ==
    /\ pc \notin {"out", "undefined"} /\ End
    /\ torn' = (torn \/ pc = "mask")
    /\ UNCHANGED <<ifc, routes, net, runs, lost, odd, acked>>

\* A message is whole; or too small or without the magic number; or has a padding
\* option; or lacks one that dhcpcl asks for.
Forms == {"whole", "short", "padded", "bare"}

\* Mutant: the mask of the second message is used.
MaskLate(m) == [req EXCEPT !.mask = m.of.mask]
Keep(m) == req

\* recvfrom and the options of the offer; then DHCP_REQUEST.  The loop does not get
\* past a padding option, an option that is missing leaves its variable uninitialised
\* (undefined), and a message that is no offer ends the program.
Offer(form) ==
    /\ pc = "offer" /\ queue # <<>>
    /\ \/ form = "padded" /\ pc' = "spin" /\ queue' = <<>> /\ UNCHANGED <<req, net>>
       \/ (form = "short" \/ (form # "padded" /\ Head(queue).op # "offer")) /\ End /\ UNCHANGED net
       \/ form = "bare" /\ Head(queue).op = "offer" /\ pc' = "undefined" /\ queue' = <<>> /\ UNCHANGED <<req, net>>
       \/ /\ form = "whole" /\ Head(queue).op = "offer"
          /\ req' = Head(queue).of
          /\ pc' = "ack" /\ queue' = Tail(queue)
          /\ net' = net \cup {Msg("request", req')}
    /\ UNCHANGED <<ifc, routes, runs, lost, odd, acked, torn>>

\* Mutants: the acknowledgement is not waited for; other messages are skipped.
AckAssumed(form) ==
    /\ pc = "ack" /\ pc' = "address"
    /\ UNCHANGED <<req, ifc, routes, queue, net, runs, lost, odd, acked, torn>>
AckOnly(form) ==
    /\ pc = "ack" /\ queue # <<>>
    /\ queue' = Tail(queue)
    /\ pc' = IF Head(queue).op = "ack" THEN "address" ELSE pc
    /\ UNCHANGED <<req, ifc, routes, net, runs, lost, odd, acked, torn>>
\* The second recvfrom: whatever is long enough and has the magic number is taken for
\* the acknowledgement, and its options are not read.  What is behind it in the queue
\* or comes later is not received any more.
Ack(form) ==
    /\ pc = "ack" /\ queue # <<>>
    /\ \/ form = "short" /\ End
       \/ form # "short" /\ queue' = <<>> /\ req' = Keep(Head(queue)) /\ pc' = "address"
    /\ UNCHANGED <<ifc, routes, net, runs, lost, odd, acked, torn>>

\* ip_route_add puts an entry at the end of the list.
ip_route_add(r) == routes' = Append(routes, r)

\* The ioctls SIO_SETIFADDR, SIO_SETIFMASK and twice SIO_ADDROUTE, and the end of
\* the program.
SetAddress ==
    /\ pc = "address" /\ pc' = "mask"
    /\ ifc' = [ifc EXCEPT !.ip = req.ip]
    /\ UNCHANGED <<req, routes, queue, net, runs, lost, odd, acked, torn>>
SetMask ==
    /\ pc = "mask" /\ pc' = "gateway"
    /\ ifc' = [ifc EXCEPT !.mask = req.mask] /\ torn' = FALSE
    /\ UNCHANGED <<req, routes, queue, net, runs, lost, odd, acked>>
AddGateway ==
    /\ pc = "gateway" /\ pc' = "local"
    /\ ip_route_add([dest |-> {}, mask |-> {}, gateway |-> req.gateway, metric |-> 1000])
    /\ UNCHANGED <<req, ifc, queue, net, runs, lost, odd, acked, torn>>
AddLocal ==
    /\ pc = "local" /\ End
    /\ ip_route_add([dest |-> req.ip \cap req.mask, mask |-> req.mask, gateway |-> {}, metric |-> 1000])
    /\ UNCHANGED <<ifc, net, runs, lost, odd, acked, torn>>

\* Mutant: of equal metrics the last is chosen.
BetterOrEqual(r, best) == r.metric >= best.metric
Better(r, best) == r.metric > best.metric
Matches(ip, r) == ip \cap r.mask = r.dest \cap r.mask
\* ip_route_get walks along the list with the best entry so far, at first a
\* record of metric 0, and takes every match that is Better: it ends with the
\* match that is Better than those before it and than which none after it is.
Chosen(ip) ==
    {i \in DOMAIN routes :
       /\ Matches(ip, routes[i]) /\ Better(routes[i], [metric |-> 0])
       /\ \A j \in DOMAIN routes : Matches(ip, routes[j]) =>
              (j < i => Better(routes[i], routes[j])) /\ (j > i => ~Better(routes[j], routes[i]))}
ip_route_get(ip) ==
    IF Chosen(ip) = {} THEN [dest |-> {}, mask |-> {}, gateway |-> {}, metric |-> 0]
    ELSE routes[CHOOSE i \in Chosen(ip) : TRUE]
-----------------------------------------------------------------------------
(* The servers and the network.                                            *)

\* Every server answers a DISCOVER; a REQUEST names no server, and the one
\* whose address it asks for answers it.
SendOffer(s) ==
    /\ Msg("discover", s) \in net
    /\ net' = (net \ {Msg("discover", s)}) \cup {Msg("offer", s)}
    /\ UNCHANGED <<client, queue, lost, odd, acked, torn>>
SendAck(s, ok) ==
    /\ Msg("request", s) \in net
    /\ net' = (net \ {Msg("request", s)}) \cup {Msg(IF ok THEN "ack" ELSE "nak", s)}
    /\ odd' = (odd \/ ~ok)
    /\ acked' = IF ok THEN acked \cup {s.ip} ELSE acked
    /\ UNCHANGED <<client, queue, lost, torn>>

\* A message reaches the client's socket, and may come again.
Deliver(m, again) ==
    /\ m \in net /\ m.op \in {"offer", "ack", "nak"} /\ pc # "out" /\ Len(queue) < MaxQueue
    /\ queue' = IF pc \in {"offer", "ack"} THEN Append(queue, m) ELSE queue
    /\ net' = IF again THEN net ELSE net \ {m}
    /\ odd' = (odd \/ (m.op = "offer" /\ (pc = "ack" \/ queue # <<>>)))
    /\ UNCHANGED <<client, lost, acked, torn>>

Lose(m) == m \in net /\ net' = net \ {m} /\ lost' = TRUE /\ UNCHANGED <<client, queue, odd, acked, torn>>

ClientStep ==
    \/ \E form \in Forms : Offer(form) \/ Ack(form)
    \/ SetAddress \/ SetMask \/ AddGateway \/ AddLocal
Next ==
    \/ Discover \/ ClientStep \/ Exit
    \/ \E s \in Servers : SendOffer(s) \/ \E ok \in BOOLEAN : SendAck(s, ok)
    \/ \E m \in net : Lose(m) \/ \E again \in BOOLEAN : Deliver(m, again)

\* The program runs on, servers answer and messages arrive.
Progress ==
    \/ ClientStep
    \/ \E s \in Servers : SendOffer(s) \/ SendAck(s, TRUE)
    \/ \E m \in net : Deliver(m, FALSE)
Spec == Init /\ [][Next]_vars
-----------------------------------------------------------------------------
Configuring == {"address", "mask", "gateway", "local"}

\* Type invariant.
TypeOK ==
    /\ pc \in Configuring \cup {"out", "offer", "ack", "spin", "undefined"}
    /\ req \in Servers \cup {Nothing} /\ Len(queue) <= MaxQueue /\ runs \in 0 .. MaxRuns

\* Address and mask of the device are those of one offer, also when another server's
\* message is taken for the acknowledgement: but from SIO_SETIFADDR to SIO_SETIFMASK,
\* and after a run that ended there until another sets both.
ConfiguredAsOffered ==
    \/ pc = "mask" \/ torn
    \/ ifc \in {[ip |-> s.ip, mask |-> s.mask] : s \in Servers} \cup {[ip |-> {}, mask |-> {}]}

\* The device gets an address that no server acknowledged only if a server
\* refused, or if a second offer or an earlier run's message came.
ConfiguredMeansAcked == (pc \in Configuring /\ ~odd) => req.ip \in acked

\* Whatever the number of runs, a packet for any address goes to the gateway
\* of the first offer that was used: neither the route to the own network nor
\* the routes of later runs, all with the same metric, are ever chosen.
FirstGatewayOnly ==
    \A ip \in Addresses : routes # <<>> => ip_route_get(ip).gateway = routes[1].gateway
-----------------------------------------------------------------------------
(* The inductive invariant.                                                *)

\* What is taken of the constants.
Sane ==
    /\ MaxRuns \in Nat /\ MaxQueue \in Nat
    /\ Servers \subseteq [ip : Addresses, mask : Addresses, gateway : Addresses]

Answers == [op : {"offer", "ack", "nak"}, of : Servers]
Types ==
    /\ TypeOK /\ odd \in BOOLEAN /\ torn \in BOOLEAN /\ ifc \in [ip : Addresses, mask : Addresses]
    /\ net \subseteq [op : {"discover", "request", "offer", "ack", "nak"}, of : Servers]
    /\ queue \in Seq(Answers)
    /\ pc \notin {"offer", "ack"} => queue = <<>>
    /\ pc \in Configuring \cup {"ack"} => req \in Servers

\* All routes have one metric, and the first fits every address: it is one to a
\* gateway, which is added before the one to the network.
Equal ==
    /\ routes \in Seq([dest : Addresses, mask : Addresses, gateway : Addresses, metric : {1000}])
    /\ routes # <<>> => routes[1].mask = {}
    /\ pc = "local" => routes # <<>>

\* In a run in which nothing odd came, what is on its way belongs to its place:
\* offers, then the request for the one taken and its acknowledgement.
InTurn ==
    ~odd =>
       /\ pc = "offer" => /\ \A m \in net : m.op \in {"discover", "offer"}
                          /\ queue = <<>> \/ (Len(queue) = 1 /\ queue[1].op = "offer")
       /\ pc = "ack" => /\ \A m \in net : /\ m.op # "nak" /\ (m.op = "request" => m.of = req)
                                          /\ m.op = "ack" => m.of = req /\ req.ip \in acked
                        /\ \A i \in 1 .. Len(queue) : queue[i].op = "ack" /\ req.ip \in acked
       /\ pc \in Configuring => req.ip \in acked

\* Address and mask belong together, and from the one ioctl to the other the
\* address is that of the offer taken.
Paired == ConfiguredAsOffered /\ (pc \in Configuring \ {"address"} => ifc.ip = req.ip)

IInv == Types /\ Equal /\ Paired /\ InTurn
=============================================================================
