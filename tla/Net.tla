-------------------------------- MODULE Net ---------------------------------
(***************************************************************************)
(* The network, for TLC: the parts of Interface (ARP, the card's rings)    *)
(* and of Sockets (raw sockets, the wait for a packet, dhcpcl), where the  *)
(* safety properties are.  In a behaviour one of them takes the steps,     *)
(* and `which' says which: two that do not meet need no interleaving.      *)
(* The table of UDP ports is in MCFiles.                                   *)
(***************************************************************************)
EXTENDS Interface, Sockets

\* Addresses of three bits.
TwoServers == {[ip |-> {1, 2}, mask |-> {2}, gateway |-> {0, 2}], [ip |-> {0, 1}, mask |-> {1, 2}, gateway |-> {1}]}

ReceiveVars == <<recv_queue, waitqueue, recv_status, recv_pending, recv_at, arrived, received,
                 panic>>
PingVars == <<socket_list, raw_queue, ping_pc, seq, sent, ping_net, raw_arrived, heard, since,
              foreign, ping_lost>>
ArpVars == <<arp_table, arp_waittable, arp_at, hop, older, arp_status, arp_pending, handler, lock,
             failed, arp_wire, arp_lost, undef>>
CardVars == <<rx, irq, tx, got, bad>>
DhcpVars == <<dhcp_pc, req, ifc, routes, queue, dhcp_net, runs, dhcp_lost, odd, acked, torn>>
vars == <<which, ReceiveVars, PingVars, ArpVars, CardVars, DhcpVars>>

\* The other parts stay in the state before their first step.
Rest ==
    /\ IF which = "receive" THEN TRUE ELSE UNCHANGED ReceiveVars
    /\ IF which = "ping" THEN TRUE ELSE UNCHANGED PingVars
    /\ IF which \in {"arp", "arp2"} THEN TRUE ELSE UNCHANGED ArpVars
    /\ IF which = "card" THEN TRUE ELSE UNCHANGED CardVars
    /\ IF which = "dhcp" THEN TRUE ELSE UNCHANGED DhcpVars

Init ==
    /\ which \in {"receive", "ping", "arp", "arp2", "card", "dhcp"}
    /\ which # "ping" => seq = [p \in Procs |-> CHOOSE n \in Starts : TRUE]
    /\ Receive!Init /\ Ping!Init /\ Arp(1)!Init /\ Card!Init /\ Dhcp!Init

Next ==
    /\ \/ which = "receive" /\ Receive!Next
       \/ which = "ping" /\ Ping!Next
       \/ which = "arp" /\ Arp(1)!Next
       \/ which = "arp2" /\ Arp(2)!Next
       \/ which = "card" /\ Card!Next
       \/ which = "dhcp" /\ Dhcp!Next
    /\ Rest /\ UNCHANGED which

\* The fairness of the parts, for the one that runs.
Progress ==
    /\ \/ which = "receive" /\ Receive!Progress
       \/ which = "ping" /\ Ping!Progress(2)
       \/ which = "arp" /\ Arp(1)!Progress
       \/ which = "card" /\ Card!Interrupt
       \/ which = "dhcp" /\ Dhcp!Progress
    /\ Rest /\ UNCHANGED which
Spec == Init /\ [][Next]_vars /\ WF_vars(Progress)

(* Waits that end.  A part stays the one that runs: each wait below comes  *)
(* to the end that is given for its part.  Tasks and programs are alike.   *)

Waiting ==
    \/ which = "receive" /\ recv_at[1] = "yield" /\ recv_queue # <<>>
    \/ which = "ping" /\ ping_pc[2] = "receive"
    \/ which = "arp" /\ arp_at[1] = "yield" /\ older[1] = {}
    \/ which = "card" /\ rx.done[rx.cur] /\ "window" \notin bad
    \/ which = "dhcp" /\ dhcp_pc # "out"
Ended ==
    \/ which = "receive" /\ (recv_at[1] # "yield" \/ recv_queue = <<>> \/ panic # "no")
    \/ which = "ping" /\ (ping_pc[2] # "receive" \/ ping_lost \/ seq[2] \in {238, 239} \/ Len(raw_arrived) = MaxArrived)
    \/ which = "arp" /\ (arp_at[1] # "yield" \/ arp_lost \/ undef # "no")
    \/ which = "card" /\ (~rx.done[rx.cur] \/ "window" \in bad)
    \/ which = "dhcp" /\ (dhcp_pc \in {"out", "spin", "undefined"} \/ dhcp_lost)

\* A waiter of socket_recvfrom goes on when there is a packet, or another takes it.  A
\* ping whose request was not lost, and verifies, goes on.  On one CPU a sender that is
\* last in its chain gets its answer, if nothing is lost: there is no second request
\* (arp_search).  A frame that comes outside of the window of e1000_irq is passed on.  If
\* nothing is lost and its offer has all options and no padding, dhcpcl ends.
WaitsEnd == Waiting ~> Ended
=============================================================================
