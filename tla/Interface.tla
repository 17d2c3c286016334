-------------------------------- MODULE Interface ---------------------------
(***************************************************************************)
(* The interface: what is proved of the senders that wait for a hardware   *)
(* address (Arp) and of the rings of the network card (E1000), which share *)
(* no variable.  For each the invariant IInv of its module holds in the    *)
(* initial states, every step keeps it, and the properties follow from it, *)
(* for all values of the constants that are Sane.  Net puts them beside    *)
(* Sockets, for TLC.                                                       *)
(***************************************************************************)
EXTENDS Integers, Sequences, TLAPS

(* Sequences.                                                              *)

\* A list with an element more.
LEMMA Longer ==
  ASSUME NEW S, NEW q \in Seq(S), NEW x \in S
  PROVE  /\ Append(q, x) \in Seq(S) /\ Len(Append(q, x)) = Len(q) + 1 /\ Append(q, x) # <<>>
         /\ \A i \in 1 .. Len(q) : Append(q, x)[i] = q[i]
         /\ Append(q, x)[Len(q) + 1] = x
  OBVIOUS

\* A list without its first element.
LEMMA Shorter ==
  ASSUME NEW S, NEW q \in Seq(S), q # <<>>
  PROVE  /\ Len(q) >= 1 /\ Head(q) \in S /\ Head(q) = q[1]
         /\ Tail(q) \in Seq(S) /\ Len(Tail(q)) = Len(q) - 1
         /\ \A i \in 1 .. Len(q) - 1 : Tail(q)[i] = q[i + 1]
  OBVIOUS

\* One list behind another.
LEMMA Joined ==
  ASSUME NEW S, NEW q \in Seq(S), NEW r \in Seq(S)
  PROVE  /\ q \o r \in Seq(S) /\ Len(q \o r) = Len(q) + Len(r)
         /\ \A i \in 1 .. Len(q) : (q \o r)[i] = q[i]
         /\ \A i \in 1 .. Len(r) : (q \o r)[Len(q) + i] = r[i]
  OBVIOUS

\* What is behind the first m elements.
LEMMA Remaining ==
  ASSUME NEW S, NEW q \in Seq(S), NEW m \in Nat, m <= Len(q)
  PROVE  /\ SubSeq(q, m + 1, Len(q)) \in Seq(S) /\ Len(SubSeq(q, m + 1, Len(q))) = Len(q) - m
         /\ \A i \in 1 .. Len(q) - m : SubSeq(q, m + 1, Len(q))[i] = q[m + i]
  OBVIOUS

\* A list with an element replaced.
LEMMA Replaced ==
  ASSUME NEW S, NEW q \in Seq(S), NEW p \in 1 .. Len(q), NEW x \in S, NEW r, r = [q EXCEPT ![p] = x]
  PROVE  /\ r \in Seq(S) /\ Len(r) = Len(q) /\ DOMAIN r = 1 .. Len(q) /\ r[p] = x
         /\ \A i \in 1 .. Len(q) : i # p => r[i] = q[i]
  OBVIOUS
-----------------------------------------------------------------------------
(* The ARP table, for the number of CPUs: arp.c, ipv4_tx_packet.           *)

CONSTANTS Tasks, Hops, Askers, Broadcast, Buckets

VARIABLES arp_table, arp_waittable, arp_at, hop, older, arp_status, arp_pending, handler, lock,
          failed, arp_wire, arp_lost, undef

Arp(N) == INSTANCE Arp WITH at <- arp_at, status <- arp_status, pending <- arp_pending,
                            lost <- arp_lost, wire <- arp_wire, NumCpus <- N

ASSUME ArpSane == Arp(1)!Sane /\ Arp(2)!Sane

\* No sender waits, nothing is known.
LEMMA ArpInitIInv == ASSUME NEW N, Arp(N)!Sane, Arp(N)!Init PROVE Arp(N)!IInv
<1> USE DEF Arp!Sane, Arp!Init
<1>1. arp_waittable \in [0 .. Buckets - 1 -> Seq(Arp(N)!Entries)] /\ \A b \in 0 .. Buckets - 1 : DOMAIN arp_waittable[b] = {}
  OBVIOUS
<1>2. Arp(N)!Types
  BY <1>1 DEF Arp!Types, Arp!NoPacket
<1>3. Arp(N)!Chained /\ Arp(N)!Unknown
  BY <1>1 DEF Arp!Chained, Arp!Single, Arp!Unknown
<1>4. Arp(N)!Sleepers
  BY DEF Arp!Sleepers
<1>5. Arp(N)!OneAtWork
  BY DEF Arp!OneAtWork, Arp!NoPacket, Arp!Resting
<1> QED BY <1>2, <1>3, <1>4, <1>5 DEF Arp!IInv, Arp!Waits

\* The bucket of an address.
LEMMA ArpHashIs == ASSUME NEW N, Arp(N)!Sane, NEW a \in Hops PROVE Arp(N)!Hash(a) \in 0 .. Buckets - 1
  BY DEF Arp!Sane, Arp!Hash

\* A task takes its place: the chain may have one entry more in front, and the
\* queue of the address the task more.
LEMMA ArpJoined ==
  ASSUME NEW N, NEW chain \in Seq(Arp(N)!Entries), NEW a \in Hops, NEW t \in Tasks, Arp(N)!Single(chain)
  PROVE  LET new == Arp(N)!Join(chain, a, t)
         IN  /\ new \in Seq(Arp(N)!Entries) /\ Arp(N)!Single(new)
             /\ \E s \in {0, 1} :
                  /\ Len(new) = Len(chain) + s
                  /\ \A i \in 1 .. Len(chain) :
                       /\ new[i + s].address = chain[i].address
                       /\ chain[i].queue \subseteq new[i + s].queue
                       /\ new[i + s].queue \subseteq chain[i].queue \cup (IF chain[i].address = a THEN {t} ELSE {})
                  /\ s = 1 => new[1].address = a /\ new[1].queue = {t}
             /\ \E p \in 1 .. Len(new) : new[p].address = a /\ t \in new[p].queue
<1> DEFINE new == Arp(N)!Join(chain, a, t)
           e == [address |-> a, queue |-> {t}]
<1>0. Len(chain) \in Nat /\ DOMAIN chain = 1 .. Len(chain)
  OBVIOUS
<1>e. \A i \in 1 .. Len(chain) : chain[i] \in Arp(N)!Entries /\ chain[i].address \in Hops /\ chain[i].queue \subseteq Tasks
  <2>1. \A i \in 1 .. Len(chain) : chain[i] \in Arp(N)!Entries
    OBVIOUS
  <2>2. \A x \in Arp(N)!Entries : x.address \in Hops /\ x.queue \subseteq Tasks
    BY DEF Arp!Entries
  <2> QED BY <2>1, <2>2
<1>1. CASE Arp(N)!Place(chain, a) = {}
  <2>1. new = <<e>> \o chain
    BY <1>1 DEF Arp!Join
  <2>2. e \in Arp(N)!Entries /\ <<e>> \in Seq(Arp(N)!Entries) /\ Len(<<e>>) = 1 /\ <<e>>[1] = e
    BY DEF Arp!Entries
  <2> HIDE DEF e
  <2>3. /\ new \in Seq(Arp(N)!Entries) /\ Len(new) = 1 + Len(chain) /\ new[1] = e
        /\ \A i \in 1 .. Len(chain) : new[1 + i] = chain[i]
    BY <2>1, <2>2, Joined
  <2> HIDE DEF new
  <2>4. Len(new) = Len(chain) + 1 /\ \A i \in 1 .. Len(chain) : i + 1 = 1 + i /\ new[i + 1] = chain[i]
    BY <2>3, <1>0
  <2>5. \A i \in 1 .. Len(new) : i = 1 \/ (i - 1 \in 1 .. Len(chain) /\ new[i] = chain[i - 1])
    <3> TAKE i \in 1 .. Len(new)
    <3>1. i = 1 \/ (i - 1 \in 1 .. Len(chain) /\ (i - 1) + 1 = i)
      BY <2>4, <1>0
    <3> QED BY <3>1, <2>4
  <2>6. \A i \in 1 .. Len(chain) : chain[i].address # a
    BY <1>1, <1>0 DEF Arp!Place
  <2>7. e.address = a /\ e.queue = {t}
    BY DEF e
  <2>8. Arp(N)!Single(new)
    <3>1. DOMAIN new = 1 .. Len(new)
      BY <2>3
    <3>2. \A i, j \in 1 .. Len(new) : new[i].address = new[j].address => i = j
      <4> TAKE i, j \in 1 .. Len(new)
      <4> HAVE new[i].address = new[j].address
      <4>1. CASE i = 1 /\ j = 1
        BY <4>1
      <4>2. CASE i = 1 /\ j # 1
        BY Zenon, <4>2, <2>3, <2>5, <2>6, <2>7
      <4>3. CASE i # 1 /\ j = 1
        BY Zenon, <4>3, <2>3, <2>5, <2>6, <2>7
      <4>4. CASE i # 1 /\ j # 1
        <5>1. i - 1 \in 1 .. Len(chain) /\ j - 1 \in 1 .. Len(chain) /\ chain[i - 1].address = chain[j - 1].address
          BY <4>4, <2>5
        <5>2. i - 1 = j - 1
          BY Zenon, <5>1, <1>0 DEF Arp!Single
        <5> QED BY <5>2
      <4> QED BY <4>1, <4>2, <4>3, <4>4
    <3> QED BY <3>1, <3>2 DEF Arp!Single
  <2>9. \E p \in 1 .. Len(new) : new[p].address = a /\ t \in new[p].queue
    <3>1. 1 \in 1 .. Len(new)
      BY <2>4, <1>0
    <3> QED BY <3>1, <2>3, <2>7
  <2>10. \E s \in {0, 1} :
           /\ Len(new) = Len(chain) + s
           /\ \A i \in 1 .. Len(chain) :
                /\ new[i + s].address = chain[i].address
                /\ chain[i].queue \subseteq new[i + s].queue
                /\ new[i + s].queue \subseteq chain[i].queue \cup (IF chain[i].address = a THEN {t} ELSE {})
           /\ s = 1 => new[1].address = a /\ new[1].queue = {t}
    <3> WITNESS 1 \in {0, 1}
    <3> QED BY <2>3, <2>4, <2>7
  <2> QED BY <2>3, <2>8, <2>9, <2>10 DEF new
<1>2. CASE Arp(N)!Place(chain, a) # {}
  <2> DEFINE p == CHOOSE i \in Arp(N)!Place(chain, a) : TRUE
  <2>1. p \in 1 .. Len(chain) /\ chain[p].address = a
    BY <1>2 DEF Arp!Place
  <2>2. new = [chain EXCEPT ![p] = [chain[p] EXCEPT !.queue = chain[p].queue \cup {t}]]
    BY <1>2 DEF Arp!Join
  <2> HIDE DEF p, new
  <2>3. /\ [chain[p] EXCEPT !.queue = chain[p].queue \cup {t}] \in Arp(N)!Entries
        /\ [chain[p] EXCEPT !.queue = chain[p].queue \cup {t}].address = a
        /\ [chain[p] EXCEPT !.queue = chain[p].queue \cup {t}].queue = chain[p].queue \cup {t}
    BY <2>1, <1>e DEF Arp!Entries
  <2>4. /\ new \in Seq(Arp(N)!Entries) /\ Len(new) = Len(chain) /\ DOMAIN new = 1 .. Len(chain)
        /\ \A i \in 1 .. Len(chain) : i # p => new[i] = chain[i]
        /\ new[p] = [chain[p] EXCEPT !.queue = chain[p].queue \cup {t}]
    <3> DEFINE x == [chain[p] EXCEPT !.queue = chain[p].queue \cup {t}]
    <3>1. x \in Arp(N)!Entries /\ new = [chain EXCEPT ![p] = x]
      BY <2>2, <2>3
    <3> HIDE DEF x
    <3>2. /\ new \in Seq(Arp(N)!Entries) /\ Len(new) = Len(chain) /\ DOMAIN new = 1 .. Len(chain)
          /\ \A i \in 1 .. Len(chain) : i # p => new[i] = chain[i]
          /\ new[p] = x
      BY <2>1, <3>1, Replaced
    <3> QED BY <3>2 DEF x
  <2>5. \A i \in 1 .. Len(chain) :
           /\ new[i].address = chain[i].address
           /\ chain[i].queue \subseteq new[i].queue
           /\ new[i].queue \subseteq chain[i].queue \cup (IF chain[i].address = a THEN {t} ELSE {})
    BY Zenon, <2>1, <2>3, <2>4
  <2>6. Arp(N)!Single(new)
    BY <2>4, <2>5, <1>0 DEF Arp!Single
  <2>7. \E s \in {0, 1} :
           /\ Len(new) = Len(chain) + s
           /\ \A i \in 1 .. Len(chain) :
                /\ new[i + s].address = chain[i].address
                /\ chain[i].queue \subseteq new[i + s].queue
                /\ new[i + s].queue \subseteq chain[i].queue \cup (IF chain[i].address = a THEN {t} ELSE {})
           /\ s = 1 => new[1].address = a /\ new[1].queue = {t}
    <3>1. \A i \in 1 .. Len(chain) : i + 0 = i
      BY <1>0
    <3> WITNESS 0 \in {0, 1}
    <3> QED BY <3>1, <2>4, <2>5, <1>0
  <2>8. \E k \in 1 .. Len(new) : new[k].address = a /\ t \in new[k].queue
    BY Zenon, <2>1, <2>3, <2>4
  <2> QED BY <2>4, <2>6, <2>7, <2>8 DEF new
<1> QED BY <1>1, <1>2

\* The chains.
LEMMA ArpChains ==
  ASSUME NEW N, Arp(N)!Sane, Arp(N)!IInv, NEW b \in 0 .. Buckets - 1
  PROVE  /\ arp_waittable[b] \in Seq(Arp(N)!Entries) /\ Len(arp_waittable[b]) \in Nat
         /\ DOMAIN arp_waittable[b] = 1 .. Len(arp_waittable[b]) /\ Arp(N)!Single(arp_waittable[b])
         /\ \A i \in 1 .. Len(arp_waittable[b]) :
              /\ arp_waittable[b][i].address \in Hops /\ arp_waittable[b][i].queue \subseteq Tasks
              /\ Arp(N)!Hash(arp_waittable[b][i].address) = b
<1>1. arp_waittable[b] \in Seq(Arp(N)!Entries) /\ Arp(N)!Single(arp_waittable[b])
  BY DEF Arp!IInv, Arp!Waits, Arp!Types, Arp!Chained
<1>2. DOMAIN arp_waittable[b] = 1 .. Len(arp_waittable[b]) /\ Len(arp_waittable[b]) \in Nat
  BY <1>1
<1>3. \A i \in 1 .. Len(arp_waittable[b]) : arp_waittable[b][i] \in Arp(N)!Entries
  BY <1>1
<1>4. \A x \in Arp(N)!Entries : x.address \in Hops /\ x.queue \subseteq Tasks
  BY DEF Arp!Entries
<1> QED BY <1>1, <1>2, <1>3, <1>4 DEF Arp!IInv, Arp!Waits, Arp!Chained

\* A task that is on no queue goes on to where it is on none either.
LEMMA ArpMoves ==
  ASSUME NEW N, Arp(N)!Sane, Arp(N)!IInv, undef = "no", NEW t \in Tasks, arp_at[t] # "yield",
         NEW x \in {"user", "looking", "requested", "joining"}, NEW a \in Hops \cup {Broadcast},
         x # "user" => a \in Hops, x \in {"requested", "joining"} /\ N = 1 => a \notin arp_table,
         arp_at' = [arp_at EXCEPT ![t] = x], hop' = [hop EXCEPT ![t] = a],
         UNCHANGED <<arp_table, arp_waittable, older, arp_status, arp_pending, handler>>, ~failed',
         arp_wire' \subseteq [op : {"request", "reply", "ask"}, ip : Hops]
  PROVE  Arp(N)!Waits'
<1>1. Arp(N)!Types'
  BY DEF Arp!IInv, Arp!Waits, Arp!Types, Arp!Sections
<1>2. \A q \in Tasks : q # t => arp_at'[q] = arp_at[q] /\ hop'[q] = hop[q]
  BY DEF Arp!IInv, Arp!Waits, Arp!Types
<1>3. arp_at'[t] = x /\ hop'[t] = a
  BY DEF Arp!IInv, Arp!Waits, Arp!Types
<1>4. Arp(N)!Chained'
  <2>1. \A b \in 0 .. Buckets - 1 : \A i \in DOMAIN arp_waittable[b] : \A q \in arp_waittable[b][i].queue :
           q \in Tasks /\ q # t
    BY ArpChains DEF Arp!IInv, Arp!Waits, Arp!Chained
  <2> QED BY <1>2, <2>1 DEF Arp!IInv, Arp!Waits, Arp!Chained
<1>5. Arp(N)!Sleepers'
  BY <1>2, <1>3 DEF Arp!IInv, Arp!Waits, Arp!Sleepers, Arp!Listed
<1>6. Arp(N)!Unknown'
  BY <1>2, <1>3 DEF Arp!IInv, Arp!Waits, Arp!Unknown
<1> QED BY <1>1, <1>4, <1>5, <1>6 DEF Arp!Waits

\* ipv4_tx_packet, arp_search's look-up and its second mutex_lock, and its return.
LEMMA ArpSends ==
  ASSUME NEW N, Arp(N)!Sane, Arp(N)!IInv, undef = "no", NEW t \in Tasks, NEW a \in Hops \cup {Broadcast}, Arp(N)!ipv4_tx_packet(t, a)
  PROVE  Arp(N)!Waits'
<1>w. arp_wire \subseteq [op : {"request", "reply", "ask"}, ip : Hops] /\ ~failed
  BY DEF Arp!IInv, Arp!Waits, Arp!Types
<1>1. CASE UNCHANGED <<arp_at, hop, lock, undef>>
  BY <1>1 DEF Arp!ipv4_tx_packet, Arp!IInv, Arp!Waits, Arp!Types, Arp!Chained, Arp!Sleepers, Arp!Unknown, Arp!Listed
<1>2. CASE a # Broadcast /\ arp_at' = [arp_at EXCEPT ![t] = "looking"] /\ hop' = [hop EXCEPT ![t] = a]
  <2>1. /\ arp_at[t] # "yield" /\ a \in Hops
        /\ UNCHANGED <<arp_table, arp_waittable, older, arp_status, arp_pending, handler, failed, arp_wire>>
    BY <1>2 DEF Arp!ipv4_tx_packet
  <2> QED BY <1>w, <1>2, <2>1, ArpMoves
<1> QED BY <1>1, <1>2 DEF Arp!ipv4_tx_packet
LEMMA ArpLooks == ASSUME NEW N, Arp(N)!Sane, Arp(N)!IInv, undef = "no", NEW t \in Tasks, Arp(N)!arp_search(t) PROVE Arp(N)!Waits'
<1>1. /\ arp_at[t] = "looking" /\ hop[t] \in Hops /\ ~failed' /\ hop = [hop EXCEPT ![t] = hop[t]]
      /\ arp_wire \subseteq [op : {"request", "reply", "ask"}, ip : Hops]
      /\ UNCHANGED <<arp_table, arp_waittable, older, arp_status, arp_pending, handler>>
  BY DEF Arp!arp_search, Arp!IInv, Arp!Waits, Arp!Types
<1>2. CASE hop[t] \in arp_table
  <2>1. arp_at' = [arp_at EXCEPT ![t] = "user"] /\ hop' = [hop EXCEPT ![t] = Broadcast] /\ arp_wire' = arp_wire
    BY <1>2 DEF Arp!arp_search, Arp!arp_get_entry
  <2> QED BY <1>1, <2>1, ArpMoves
<1>3. CASE hop[t] \notin arp_table
  <2>1. /\ arp_at' = [arp_at EXCEPT ![t] = "requested"] /\ hop' = hop
        /\ arp_wire' = arp_wire \cup {[op |-> "request", ip |-> hop[t]]}
    BY <1>3 DEF Arp!arp_search, Arp!arp_get_entry, Arp!arp_send_request
  <2>2. arp_wire' \subseteq [op : {"request", "reply", "ask"}, ip : Hops]
    BY <1>1, <2>1
  <2> QED BY <1>1, <1>3, <2>1, <2>2, ArpMoves
<1> QED BY <1>2, <1>3
LEMMA ArpRelocks == ASSUME NEW N, Arp(N)!Sane, Arp(N)!IInv, undef = "no", NEW t \in Tasks, Arp(N)!Relock(t) PROVE Arp(N)!Waits'
<1>1. /\ arp_at[t] = "requested" /\ hop[t] \in Hops /\ ~failed' /\ hop' = [hop EXCEPT ![t] = hop[t]]
      /\ arp_at' = [arp_at EXCEPT ![t] = "joining"]
      /\ arp_wire' \subseteq [op : {"request", "reply", "ask"}, ip : Hops]
      /\ UNCHANGED <<arp_table, arp_waittable, older, arp_status, arp_pending, handler>>
  BY DEF Arp!Relock, Arp!IInv, Arp!Waits, Arp!Types
<1>2. N = 1 => hop[t] \notin arp_table
  BY <1>1 DEF Arp!IInv, Arp!Waits, Arp!Unknown
<1> QED BY <1>1, <1>2, ArpMoves
LEMMA ArpChecks == ASSUME NEW N, Arp(N)!Sane, Arp(N)!IInv, undef = "no", NEW t \in Tasks, Arp(N)!Check(t) PROVE Arp(N)!Waits'
<1>1. /\ arp_at[t] = "checking" /\ hop' = [hop EXCEPT ![t] = Broadcast] /\ arp_at' = [arp_at EXCEPT ![t] = "user"]
      /\ arp_wire' \subseteq [op : {"request", "reply", "ask"}, ip : Hops]
      /\ UNCHANGED <<arp_table, arp_waittable, older, arp_status, arp_pending, handler>>
  BY DEF Arp!Check, Arp!IInv, Arp!Waits, Arp!Types
<1>2. ~failed'
  BY <1>1 DEF Arp!Check, Arp!arp_get_entry, Arp!IInv, Arp!Waits, Arp!Sleepers
<1> QED BY <1>1, <1>2, ArpMoves

\* arp_search puts the task on the queue of the address.
LEMMA ArpWaits == ASSUME NEW N, Arp(N)!Sane, Arp(N)!IInv, NEW t \in Tasks, Arp(N)!Wait(t), undef = "no" PROVE Arp(N)!Waits'
<1> DEFINE a == hop[t]
           b == Arp(N)!Hash(a)
           chain == arp_waittable[b]
           new == Arp(N)!Join(chain, a, t)
           behind == {new[i].address : i \in {k \in DOMAIN new : \A j \in Arp(N)!Place(new, a) : k > j}}
<1>1. /\ arp_at[t] = "joining" /\ arp_status' = [arp_status EXCEPT ![t] = "INTR_SLEEPING"]
      /\ arp_waittable' = [arp_waittable EXCEPT ![b] = new] /\ older' = [older EXCEPT ![t] = behind]
      /\ arp_at' = [arp_at EXCEPT ![t] = "yield"]
      /\ UNCHANGED <<arp_table, hop, arp_pending, handler, failed, arp_wire, arp_lost, undef>>
  BY DEF Arp!Wait
<1>2. a \in Hops /\ b \in 0 .. Buckets - 1
  BY <1>1, ArpHashIs DEF Arp!IInv, Arp!Waits, Arp!Types
<1>3. chain \in Seq(Arp(N)!Entries) /\ Len(chain) \in Nat /\ Arp(N)!Single(chain) /\ DOMAIN chain = 1 .. Len(chain)
  BY <1>2, ArpChains
<1> HIDE DEF a, b, chain
<1>4. new \in Seq(Arp(N)!Entries) /\ Arp(N)!Single(new)
  BY <1>2, <1>3, ArpJoined
<1>5. PICK s \in {0, 1} :
         /\ Len(new) = Len(chain) + s
         /\ \A i \in 1 .. Len(chain) :
              /\ new[i + s].address = chain[i].address
              /\ chain[i].queue \subseteq new[i + s].queue
              /\ new[i + s].queue \subseteq chain[i].queue \cup (IF chain[i].address = a THEN {t} ELSE {})
         /\ s = 1 => new[1].address = a /\ new[1].queue = {t}
  BY <1>2, <1>3, ArpJoined
<1>6. PICK p \in 1 .. Len(new) : new[p].address = a /\ t \in new[p].queue
  BY <1>2, <1>3, ArpJoined
<1> HIDE DEF new
<1>7. DOMAIN new = 1 .. Len(new) /\ Len(new) \in Nat
  BY <1>4
<1>8. \A i \in 1 .. Len(new) : \/ i - s \in 1 .. Len(chain) /\ (i - s) + s = i
                               \/ s = 1 /\ i = 1
  BY <1>3, <1>5
<1>b. \A i \in 1 .. Len(new) :
         \/ /\ i - s \in 1 .. Len(chain) /\ new[i].address = chain[i - s].address
            /\ new[i].queue \subseteq chain[i - s].queue \cup (IF chain[i - s].address = a THEN {t} ELSE {})
         \/ new[i].address = a /\ new[i].queue = {t}
  <2> TAKE i \in 1 .. Len(new)
  <2>1. CASE i - s \in 1 .. Len(chain) /\ (i - s) + s = i
    BY <2>1, <1>5
  <2>2. CASE s = 1 /\ i = 1
    BY <2>2, <1>5
  <2> QED BY <2>1, <2>2, <1>8
<1>9. Arp(N)!Place(new, a) = {p}
  BY <1>4, <1>6, <1>7 DEF Arp!Place, Arp!Single
<1>10. behind = {new[i].address : i \in {k \in 1 .. Len(new) : k > p}}
  BY <1>7, <1>9
<1>11. behind \subseteq Hops
  <2>1. \A i \in 1 .. Len(new) : new[i] \in Arp(N)!Entries
    BY <1>4
  <2>2. \A x \in Arp(N)!Entries : x.address \in Hops
    BY DEF Arp!Entries
  <2> QED BY <2>1, <2>2, <1>10
<1> HIDE DEF behind
<1>12. Arp(N)!Types'
  <2>1. arp_waittable' \in [0 .. Buckets - 1 -> Seq(Arp(N)!Entries)]
    <3> DEFINE R == Seq(Arp(N)!Entries)
    <3>1. new \in R /\ arp_waittable \in [0 .. Buckets - 1 -> R]
      BY <1>4 DEF Arp!IInv, Arp!Waits, Arp!Types
    <3> HIDE DEF R
    <3>2. arp_waittable' \in [0 .. Buckets - 1 -> R]
      BY <3>1, <1>1, <1>2
    <3> QED BY <3>2 DEF R
  <2>2. older' \in [Tasks -> SUBSET Hops]
    BY <1>1, <1>11 DEF Arp!IInv, Arp!Waits, Arp!Types
  <2>3. \A q \in Tasks : arp_at'[q] # "user" => hop'[q] \in Hops
    BY <1>1, <1>2 DEF Arp!IInv, Arp!Waits, Arp!Types, a
  <2> QED BY <1>1, <2>1, <2>2, <2>3 DEF Arp!IInv, Arp!Waits, Arp!Types
<1>13. /\ arp_at'[t] = "yield" /\ older'[t] = behind /\ arp_status'[t] = "INTR_SLEEPING" /\ hop'[t] = a
       /\ \A q \in Tasks : q # t => arp_at'[q] = arp_at[q] /\ older'[q] = older[q] /\ arp_status'[q] = arp_status[q] /\ hop'[q] = hop[q]
  BY <1>1 DEF Arp!IInv, Arp!Waits, Arp!Types, a
<1>14. arp_waittable'[b] = new /\ \A d \in 0 .. Buckets - 1 : d # b => arp_waittable'[d] = arp_waittable[d]
  BY <1>1, <1>2 DEF Arp!IInv, Arp!Waits, Arp!Types
<1>15. \A d \in 0 .. Buckets - 1 : \A i \in 1 .. Len(arp_waittable[d]) : \A q \in arp_waittable[d][i].queue :
          q \in Tasks /\ q # t
  BY <1>1, ArpChains DEF Arp!IInv, Arp!Waits, Arp!Chained
<1>16. Arp(N)!Chained'
  <2> SUFFICES ASSUME NEW d \in 0 .. Buckets - 1
               PROVE  /\ Arp(N)!Single(arp_waittable'[d])
                      /\ \A i \in DOMAIN arp_waittable'[d] :
                           /\ Arp(N)!Hash(arp_waittable'[d][i].address) = d
                           /\ \A q \in arp_waittable'[d][i].queue :
                                /\ arp_at'[q] = "yield" /\ hop'[q] = arp_waittable'[d][i].address
                                /\ \A k \in DOMAIN arp_waittable'[d] : k > i => arp_waittable'[d][k].address \in older'[q]
    BY DEF Arp!Chained, Arp!Single, Arp!Hash
  <2>1. CASE d # b
    BY <2>1, <1>13, <1>14, <1>15, ArpChains DEF Arp!IInv, Arp!Waits, Arp!Chained
  <2>2. CASE d = b
    <3>1. \A i \in 1 .. Len(chain) :
             /\ Arp(N)!Hash(chain[i].address) = b
             /\ \A q \in chain[i].queue :
                  /\ q \in Tasks /\ q # t /\ arp_at[q] = "yield" /\ hop[q] = chain[i].address
                  /\ \A k \in 1 .. Len(chain) : k > i => chain[k].address \in older[q]
      BY <1>2, <1>3, <1>15 DEF Arp!IInv, Arp!Waits, Arp!Chained, chain
    <3>2. \A i \in 1 .. Len(new) : Arp(N)!Hash(new[i].address) = b
      <4> TAKE i \in 1 .. Len(new)
      <4>1. CASE i - s \in 1 .. Len(chain) /\ new[i].address = chain[i - s].address
        <5>1. Arp(N)!Hash(chain[i - s].address) = b
          BY <4>1, <3>1
        <5> QED BY <5>1, <4>1
      <4>2. CASE new[i].address = a
        BY <4>2 DEF b
      <4> QED BY <4>1, <4>2, <1>b
    <3>3. \A i \in 1 .. Len(new) : \A q \in new[i].queue :
             /\ arp_at'[q] = "yield" /\ hop'[q] = new[i].address
             /\ \A k \in 1 .. Len(new) : k > i => new[k].address \in older'[q]
      <4> TAKE i \in 1 .. Len(new)
      <4> TAKE q \in new[i].queue
      <4>1. CASE q = t
        <5>1. new[i].address = a
          BY <4>1, <1>b, <3>1
        <5>2. i = p
          BY <5>1, <1>6, <1>7, <1>4 DEF Arp!Single
        <5> QED BY <4>1, <5>1, <5>2, <1>10, <1>13
      <4>2. CASE q # t
        <5>1. i - s \in 1 .. Len(chain) /\ (i - s) + s = i
          BY <4>2, <1>5, <1>8
        <5>2. q \in chain[i - s].queue /\ new[i].address = chain[i - s].address
          BY Zenon, <4>2, <5>1, <1>5
        <5>3. \A k \in 1 .. Len(new) : k > i => k - s \in 1 .. Len(chain) /\ k - s > i - s /\ new[k].address = chain[k - s].address
          <6> TAKE k \in 1 .. Len(new)
          <6> HAVE k > i
          <6>1. k - s \in 1 .. Len(chain) /\ k - s > i - s /\ (k - s) + s = k
            BY <5>1, <1>3, <1>5
          <6> QED BY <6>1, <1>5
        <5> QED BY <4>2, <5>1, <5>2, <5>3, <3>1, <1>13
      <4> QED BY <4>1, <4>2
    <3> QED BY <2>2, <3>2, <3>3, <1>4, <1>7, <1>14
  <2> QED BY <2>1, <2>2
<1>17. Arp(N)!Sleepers'
  <2> SUFFICES ASSUME NEW q \in Tasks
               PROVE  /\ arp_status'[q] = "INTR_SLEEPING" => arp_at'[q] = "yield" /\ (Arp(N)!Listed(q)' \/ \E x \in older'[q] : x \in arp_table')
                      /\ arp_at'[q] = "yield" /\ arp_status'[q] = "RUNNING" /\ ~arp_pending'[q] => hop'[q] \in arp_table'
                      /\ arp_at'[q] = "checking" => hop'[q] \in arp_table'
    BY DEF Arp!Sleepers
  <2>1. CASE q = t
    <3>1. Arp(N)!Listed(t)'
      BY <1>6, <1>9, <1>13, <1>14 DEF Arp!Listed, b, Arp!Hash
    <3> QED BY <2>1, <3>1, <1>13
  <2>2. CASE q # t
    <3>1. arp_at[q] = "yield" /\ Arp(N)!Listed(q) => Arp(N)!Listed(q)'
      <4> HAVE arp_at[q] = "yield" /\ Arp(N)!Listed(q)
      <4> DEFINE d == Arp(N)!Hash(hop[q])
      <4>1. d \in 0 .. Buckets - 1 /\ hop'[q] = hop[q]
        BY <2>2, <1>13, ArpHashIs DEF Arp!IInv, Arp!Waits, Arp!Types
      <4>2. PICK i \in 1 .. Len(arp_waittable[d]) : arp_waittable[d][i].address = hop[q] /\ q \in arp_waittable[d][i].queue
        BY Zenon, <4>1, ArpChains DEF Arp!Listed, Arp!Place
      <4>3. CASE d # b
        BY Zenon, <4>1, <4>3, <1>14 DEF Arp!Listed, Arp!Hash
      <4>4. CASE d = b
        <5>1. i \in 1 .. Len(chain) /\ chain[i].address = hop[q] /\ q \in chain[i].queue
          BY <4>2, <4>4 DEF chain
        <5>2. i + s \in 1 .. Len(new) /\ new[i + s].address = hop[q] /\ q \in new[i + s].queue
          <6>1. i + s \in 1 .. Len(new)
            BY <5>1, <1>3, <1>5
          <6> QED BY <6>1, <5>1, <1>5
        <5>3. i + s \in Arp(N)!Place(new, hop[q])
          BY <5>2, <1>7 DEF Arp!Place
        <5> QED BY Zenon, <5>2, <5>3, <4>1, <4>4, <1>14 DEF Arp!Listed, Arp!Hash
      <4> QED BY <4>3, <4>4
    <3> QED BY <2>2, <3>1, <1>1, <1>13 DEF Arp!IInv, Arp!Waits, Arp!Sleepers
  <2> QED BY <2>1, <2>2
<1>18. Arp(N)!Unknown'
  <2> SUFFICES ASSUME N = 1 PROVE Arp(N)!Unknown'
    BY DEF Arp!Unknown
  <2>1. \A q \in Tasks : arp_at'[q] \in {"requested", "joining"} => hop'[q] \notin arp_table'
    BY <1>1, <1>13 DEF Arp!IInv, Arp!Waits, Arp!Unknown
  <2>2. a \notin arp_table
    BY <1>1 DEF Arp!IInv, Arp!Waits, Arp!Unknown, a
  <2>3. \A i \in 1 .. Len(chain) : chain[i].address \notin arp_table
    BY <1>2, <1>3 DEF Arp!IInv, Arp!Waits, Arp!Unknown, chain
  <2>4. \A i \in 1 .. Len(new) : new[i].address \notin arp_table
    BY Zenon, <2>2, <2>3, <1>5, <1>8
  <2>5. \A d \in 0 .. Buckets - 1 : \A i \in DOMAIN arp_waittable'[d] : arp_waittable'[d][i].address \notin arp_table
    BY <2>4, <1>7, <1>14 DEF Arp!IInv, Arp!Waits, Arp!Unknown
  <2> QED BY <2>1, <2>5, <1>1 DEF Arp!Unknown
<1> QED BY <1>1, <1>12, <1>16, <1>17, <1>18 DEF Arp!IInv, Arp!Waits

\* The task leaves its queue, and takes the lock when it has no signal.
LEMMA ArpResumes == ASSUME NEW N, Arp(N)!Sane, Arp(N)!IInv, NEW t \in Tasks, Arp(N)!Resume(t), undef = "no" PROVE Arp(N)!Waits'
<1>1. /\ arp_at[t] = "yield" /\ arp_status[t] = "RUNNING" /\ arp_waittable' = Arp(N)!Unregister(t)
      /\ older' = [older EXCEPT ![t] = {}]
      /\ UNCHANGED <<arp_table, hop, arp_status, arp_pending, handler, failed, arp_wire, arp_lost>>
  BY DEF Arp!Resume
<1>2. \/ arp_pending[t] /\ arp_at' = arp_at
      \/ ~arp_pending[t] /\ arp_at' = [arp_at EXCEPT ![t] = "checking"]
  BY DEF Arp!Resume
<1>3. DOMAIN arp_waittable = 0 .. Buckets - 1
  BY DEF Arp!IInv, Arp!Waits, Arp!Types
<1>4. \A b \in 0 .. Buckets - 1 :
         /\ arp_waittable'[b] \in Seq(Arp(N)!Entries) /\ DOMAIN arp_waittable'[b] = 1 .. Len(arp_waittable[b])
         /\ \A i \in 1 .. Len(arp_waittable[b]) :
              /\ arp_waittable'[b][i].address = arp_waittable[b][i].address
              /\ arp_waittable'[b][i].queue = arp_waittable[b][i].queue \ {t}
  <2> TAKE b \in 0 .. Buckets - 1
  <2> DEFINE chain == arp_waittable[b]
             new == [i \in 1 .. Len(chain) |-> [chain[i] EXCEPT !.queue = chain[i].queue \ {t}]]
  <2>1. chain \in Seq(Arp(N)!Entries) /\ Len(chain) \in Nat /\ DOMAIN chain = 1 .. Len(chain)
    BY ArpChains
  <2>2. arp_waittable'[b] = new
    BY <1>1, <1>3, <2>1 DEF Arp!Unregister
  <2>3. \A x \in Arp(N)!Entries : LET y == [x EXCEPT !.queue = x.queue \ {t}]
                           IN  y \in Arp(N)!Entries /\ y.address = x.address /\ y.queue = x.queue \ {t}
    BY DEF Arp!Entries
  <2> HIDE DEF chain
  <2>4. \A i \in 1 .. Len(chain) : /\ new[i] \in Arp(N)!Entries /\ new[i].address = chain[i].address
                                   /\ new[i].queue = chain[i].queue \ {t}
    <3> TAKE i \in 1 .. Len(chain)
    <3>1. chain[i] \in Arp(N)!Entries /\ new[i] = [chain[i] EXCEPT !.queue = chain[i].queue \ {t}]
      BY <2>1
    <3> QED BY Zenon, <3>1, <2>3
  <2>5. DOMAIN new = 1 .. Len(chain) /\ new = [i \in 1 .. Len(chain) |-> new[i]]
    OBVIOUS
  <2> HIDE DEF new
  <2>6. new \in Seq(Arp(N)!Entries)
    BY <2>1, <2>4, <2>5
  <2> QED BY Zenon, <2>2, <2>4, <2>5, <2>6 DEF chain
<1>5. Arp(N)!Types'
  <2>1. arp_waittable' \in [0 .. Buckets - 1 -> Seq(Arp(N)!Entries)]
    BY <1>1, <1>3, <1>4 DEF Arp!Unregister
  <2>2. arp_at' \in [Tasks -> Arp(N)!Sections \cup {"user", "requested", "yield"}]
    BY <1>2 DEF Arp!IInv, Arp!Waits, Arp!Types, Arp!Sections
  <2>3. \A q \in Tasks : arp_at'[q] # "user" => hop'[q] \in Hops
    BY <1>1, <1>2 DEF Arp!IInv, Arp!Waits, Arp!Types
  <2> QED BY <2>1, <2>2, <2>3, <1>1 DEF Arp!IInv, Arp!Waits, Arp!Types
<1>6. /\ IF arp_pending[t] THEN arp_at'[t] = "yield" ELSE arp_at'[t] = "checking" /\ hop[t] \in arp_table
      /\ \A q \in Tasks : q # t => arp_at'[q] = arp_at[q] /\ hop'[q] = hop[q] /\ older'[q] = older[q]
  BY <1>1, <1>2 DEF Arp!IInv, Arp!Waits, Arp!Types, Arp!Sleepers
<1>7. Arp(N)!Chained'
  <2> SUFFICES ASSUME NEW b \in 0 .. Buckets - 1
               PROVE  /\ Arp(N)!Single(arp_waittable'[b])
                      /\ \A i \in DOMAIN arp_waittable'[b] :
                           /\ Arp(N)!Hash(arp_waittable'[b][i].address) = b
                           /\ \A q \in arp_waittable'[b][i].queue :
                                /\ arp_at'[q] = "yield" /\ hop'[q] = arp_waittable'[b][i].address
                                /\ \A k \in DOMAIN arp_waittable'[b] : k > i => arp_waittable'[b][k].address \in older'[q]
    BY DEF Arp!Chained, Arp!Single, Arp!Hash
  <2>1. Arp(N)!Single(arp_waittable'[b])
    BY Zenon, <1>4, ArpChains DEF Arp!Single
  <2>2. \A i \in 1 .. Len(arp_waittable[b]) :
           /\ Arp(N)!Hash(arp_waittable[b][i].address) = b
           /\ \A q \in arp_waittable[b][i].queue :
                /\ q \in Tasks /\ arp_at[q] = "yield" /\ hop[q] = arp_waittable[b][i].address
                /\ \A k \in 1 .. Len(arp_waittable[b]) : k > i => arp_waittable[b][k].address \in older[q]
    BY ArpChains DEF Arp!IInv, Arp!Waits, Arp!Chained
  <2>3. \A i \in 1 .. Len(arp_waittable[b]) : \A q \in arp_waittable'[b][i].queue :
           q \in arp_waittable[b][i].queue /\ q # t
    BY <1>4
  <2>4. \A i \in 1 .. Len(arp_waittable[b]) : Arp(N)!Hash(arp_waittable'[b][i].address) = b
    BY <2>2, <1>4
  <2>5. \A i \in 1 .. Len(arp_waittable[b]) : \A q \in arp_waittable'[b][i].queue :
           /\ arp_at'[q] = "yield" /\ hop'[q] = arp_waittable'[b][i].address
           /\ \A k \in 1 .. Len(arp_waittable[b]) : k > i => arp_waittable'[b][k].address \in older'[q]
    <3> TAKE i \in 1 .. Len(arp_waittable[b])
    <3> TAKE q \in arp_waittable'[b][i].queue
    <3>1. q \in arp_waittable[b][i].queue /\ q # t
      BY <2>3
    <3>2. q \in Tasks /\ arp_at[q] = "yield" /\ hop[q] = arp_waittable[b][i].address
      BY <2>2, <3>1
    <3>3. arp_at'[q] = arp_at[q] /\ hop'[q] = hop[q] /\ older'[q] = older[q]
      BY <1>6, <3>1, <3>2
    <3> QED BY <2>2, <3>1, <3>2, <3>3, <1>4
  <2>6. DOMAIN arp_waittable'[b] = 1 .. Len(arp_waittable[b])
    BY <1>4
  <2> QED BY <2>1, <2>4, <2>5, <2>6
<1>8. Arp(N)!Sleepers'
  <2> SUFFICES ASSUME NEW q \in Tasks
               PROVE  /\ arp_status'[q] = "INTR_SLEEPING" => arp_at'[q] = "yield" /\ (Arp(N)!Listed(q)' \/ \E x \in older'[q] : x \in arp_table')
                      /\ arp_at'[q] = "yield" /\ arp_status'[q] = "RUNNING" /\ ~arp_pending'[q] => hop'[q] \in arp_table'
                      /\ arp_at'[q] = "checking" => hop'[q] \in arp_table'
    BY DEF Arp!Sleepers
  <2>1. CASE q = t
    BY <2>1, <1>1, <1>6
  <2>2. CASE q # t
    <3>1. arp_at[q] = "yield" /\ Arp(N)!Listed(q) => Arp(N)!Listed(q)'
      <4> HAVE arp_at[q] = "yield" /\ Arp(N)!Listed(q)
      <4> DEFINE d == Arp(N)!Hash(hop[q])
      <4>1. d \in 0 .. Buckets - 1 /\ hop'[q] = hop[q]
        BY <2>2, <1>6, ArpHashIs DEF Arp!IInv, Arp!Waits, Arp!Types
      <4>2. PICK i \in 1 .. Len(arp_waittable[d]) : arp_waittable[d][i].address = hop[q] /\ q \in arp_waittable[d][i].queue
        BY Zenon, <4>1, ArpChains DEF Arp!Listed, Arp!Place
      <4>3. i \in Arp(N)!Place(arp_waittable'[d], hop[q]) /\ q \in arp_waittable'[d][i].queue
        BY <2>2, <4>1, <4>2, <1>4 DEF Arp!Place
      <4> QED BY <4>1, <4>3 DEF Arp!Listed, Arp!Hash
    <3> QED BY <2>2, <3>1, <1>1, <1>6 DEF Arp!IInv, Arp!Waits, Arp!Sleepers
  <2> QED BY <2>1, <2>2
<1>9. Arp(N)!Unknown'
  <2> SUFFICES ASSUME N = 1 PROVE Arp(N)!Unknown'
    BY DEF Arp!Unknown
  <2>1. \A q \in Tasks : arp_at'[q] \in {"requested", "joining"} => hop'[q] \notin arp_table'
    BY <1>1, <1>6 DEF Arp!IInv, Arp!Waits, Arp!Unknown
  <2>2. \A b \in 0 .. Buckets - 1 : \A i \in DOMAIN arp_waittable'[b] : arp_waittable'[b][i].address \notin arp_table
    BY Zenon, <1>4, ArpChains DEF Arp!IInv, Arp!Waits, Arp!Unknown
  <2> QED BY <2>1, <2>2, <1>1 DEF Arp!Unknown
<1> QED BY <1>1, <1>5, <1>7, <1>8, <1>9 DEF Arp!IInv, Arp!Waits

\* A signal makes the task run, without an answer.
LEMMA ArpSignals == ASSUME NEW N, Arp(N)!Sane, Arp(N)!IInv, NEW t \in Tasks, Arp(N)!send_signal(t), undef = "no" PROVE Arp(N)!Waits'
<1>1. /\ arp_pending' = [arp_pending EXCEPT ![t] = TRUE] /\ arp_status' = [arp_status EXCEPT ![t] = "RUNNING"]
      /\ UNCHANGED <<arp_table, arp_waittable, arp_at, hop, older, handler, failed, arp_wire, arp_lost, undef>>
  BY DEF Arp!send_signal
<1>2. Arp(N)!Types' /\ arp_pending'[t]
  BY <1>1 DEF Arp!IInv, Arp!Waits, Arp!Types
<1>3. \A q \in Tasks : q # t => arp_pending'[q] = arp_pending[q] /\ arp_status'[q] = arp_status[q]
  BY <1>1 DEF Arp!IInv, Arp!Waits, Arp!Types
<1>4. arp_status'[t] = "RUNNING"
  BY Zenon, <1>1 DEF Arp!IInv, Arp!Waits, Arp!Types
<1>5. Arp(N)!Sleepers'
  BY <1>1, <1>2, <1>3, <1>4 DEF Arp!IInv, Arp!Waits, Arp!Sleepers, Arp!Listed
<1> QED BY <1>1, <1>2, <1>5 DEF Arp!IInv, Arp!Waits, Arp!Chained, Arp!Unknown

\* An address comes into the table, its queue is woken and the chain begins behind it.
LEMMA ArpAdds ==
  ASSUME NEW N, Arp(N)!Sane, Arp(N)!IInv, NEW a \in Hops, Arp(N)!arp_add_entry(a), undef = "no",
         N = 1 => \A t \in Tasks : Arp(N)!Resting(t),
         UNCHANGED <<arp_at, hop, older, arp_pending, failed, arp_wire>>, handler' = Arp(N)!NoPacket
  PROVE  Arp(N)!Waits'
<1> DEFINE b == Arp(N)!Hash(a)
           chain == arp_waittable[b]
           i == CHOOSE k \in Arp(N)!Place(chain, a) : TRUE
<1>1. arp_table' = arp_table \cup {a}
  BY DEF Arp!arp_add_entry
<1>2. b \in 0 .. Buckets - 1
  BY ArpHashIs
<1>3. chain \in Seq(Arp(N)!Entries) /\ Len(chain) \in Nat /\ Arp(N)!Single(chain) /\ DOMAIN chain = 1 .. Len(chain)
  BY <1>2, ArpChains
<1>4. N = 1 => \A t \in Tasks : arp_at[t] \notin {"requested", "joining"}
  BY DEF Arp!Resting
<1>h. /\ handler' \in [at : {"none", "looking", "unknown", "adding"}, ip : Hops \cup {Broadcast}]
      /\ handler'.at = "none"
  BY DEF Arp!NoPacket
<1>5. CASE UNCHANGED <<arp_waittable, arp_status>> /\ (undef' # "no" \/ Arp(N)!Place(chain, a) = {})
  <2>1. Arp(N)!Types' /\ Arp(N)!Chained' /\ Arp(N)!Sleepers'
    BY <1>1, <1>5, <1>h DEF Arp!IInv, Arp!Waits, Arp!Types, Arp!Chained, Arp!Sleepers, Arp!Listed
  <2>2. Arp(N)!Unknown'
    <3> SUFFICES ASSUME N = 1, undef' = "no" PROVE Arp(N)!Unknown'
      BY DEF Arp!Unknown
    <3>1. \A d \in 0 .. Buckets - 1 : \A k \in DOMAIN arp_waittable[d] : arp_waittable[d][k].address # a
      <4> TAKE d \in 0 .. Buckets - 1
      <4> TAKE k \in DOMAIN arp_waittable[d]
      <4>1. Arp(N)!Hash(arp_waittable[d][k].address) = d
        BY ArpChains
      <4> QED BY <4>1, <1>5 DEF Arp!Place
    <3> QED BY <3>1, <1>1, <1>4, <1>5 DEF Arp!IInv, Arp!Waits, Arp!Unknown
  <2> QED BY Zenon, <2>1, <2>2 DEF Arp!IInv, Arp!Waits
<1>6. CASE Arp(N)!Place(chain, a) # {} /\ UNCHANGED undef /\ (\A t \in Arp(N)!Woken(chain, i) : arp_status[t] = "INTR_SLEEPING")
  <2>1. i \in 1 .. Len(chain) /\ chain[i].address = a
    BY <1>3, <1>6 DEF Arp!Place
  <2>2. /\ arp_status' = [t \in Tasks |-> IF t \in Arp(N)!Woken(chain, i) THEN "RUNNING" ELSE arp_status[t]]
        /\ arp_waittable' = [arp_waittable EXCEPT ![b] = Arp(N)!Behind(chain, i)]
    BY Zenon, <1>6 DEF Arp!arp_add_entry
  <2> HIDE DEF i
  <2> DEFINE new == Arp(N)!Behind(chain, i)
             woken == chain[i].queue
  <2>3. /\ new \in Seq(Arp(N)!Entries) /\ Len(new) = Len(chain) - i /\ DOMAIN new = 1 .. Len(chain) - i
        /\ \A k \in 1 .. Len(chain) - i : new[k] = chain[i + k]
    <3>1. i \in Nat /\ i <= Len(chain)
      BY <2>1, <1>3
    <3>2. /\ SubSeq(chain, i + 1, Len(chain)) \in Seq(Arp(N)!Entries) /\ Len(SubSeq(chain, i + 1, Len(chain))) = Len(chain) - i
          /\ \A k \in 1 .. Len(chain) - i : SubSeq(chain, i + 1, Len(chain))[k] = chain[i + k]
      BY <3>1, <1>3, Remaining
    <3> QED BY <3>2 DEF Arp!Behind
  <2> HIDE DEF new, chain
  <2>4. arp_waittable'[b] = new /\ \A d \in 0 .. Buckets - 1 : d # b => arp_waittable'[d] = arp_waittable[d]
    BY Zenon, <2>2, <1>2 DEF Arp!IInv, Arp!Waits, Arp!Types, new
  <2>5. \A k \in 1 .. Len(chain) :
           /\ chain[k].address \in Hops /\ chain[k].queue \subseteq Tasks /\ Arp(N)!Hash(chain[k].address) = b
           /\ \A q \in chain[k].queue :
                /\ q \in Tasks /\ arp_at[q] = "yield" /\ hop[q] = chain[k].address
                /\ \A m \in 1 .. Len(chain) : m > k => chain[m].address \in older[q]
    BY <1>2, ArpChains DEF Arp!IInv, Arp!Waits, Arp!Chained, chain
  <2>6. \A q \in Tasks : arp_status'[q] = IF q \in woken THEN "RUNNING" ELSE arp_status[q]
    BY <2>2 DEF Arp!Woken
  <2>7. Arp(N)!Types'
    <3>1. arp_waittable' \in [0 .. Buckets - 1 -> Seq(Arp(N)!Entries)]
      <4> DEFINE R == Seq(Arp(N)!Entries)
      <4>1. new \in R /\ arp_waittable \in [0 .. Buckets - 1 -> R]
        BY <2>3 DEF Arp!IInv, Arp!Waits, Arp!Types
      <4> HIDE DEF R
      <4>2. arp_waittable' \in [0 .. Buckets - 1 -> R]
        BY <4>1, <2>2, <1>2 DEF new
      <4> QED BY <4>2 DEF R
    <3>2. arp_status' \in [Tasks -> {"RUNNING", "INTR_SLEEPING"}]
      BY Zenon, <2>2 DEF Arp!IInv, Arp!Waits, Arp!Types
    <3> QED BY <3>1, <3>2, <1>1, <1>h DEF Arp!IInv, Arp!Waits, Arp!Types
  <2>8. Arp(N)!Chained'
    <3> SUFFICES ASSUME NEW d \in 0 .. Buckets - 1
                 PROVE  /\ Arp(N)!Single(arp_waittable'[d])
                        /\ \A k \in DOMAIN arp_waittable'[d] :
                             /\ Arp(N)!Hash(arp_waittable'[d][k].address) = d
                             /\ \A q \in arp_waittable'[d][k].queue :
                                  /\ arp_at'[q] = "yield" /\ hop'[q] = arp_waittable'[d][k].address
                                  /\ \A m \in DOMAIN arp_waittable'[d] : m > k => arp_waittable'[d][m].address \in older'[q]
      BY Zenon DEF Arp!Chained, Arp!Single, Arp!Hash
    <3>1. CASE d # b
      BY <3>1, <2>4 DEF Arp!IInv, Arp!Waits, Arp!Chained
    <3>2. CASE d = b
      <4>0. \A k \in 1 .. Len(chain) - i : i + k \in 1 .. Len(chain)
        BY <2>1, <1>3
      <4>1. Arp(N)!Single(new)
        <5> SUFFICES ASSUME NEW k \in 1 .. Len(chain) - i, NEW m \in 1 .. Len(chain) - i, new[k].address = new[m].address
                     PROVE  k = m
          BY <2>3 DEF Arp!Single
        <5>1. i + k = i + m
          BY <4>0, <2>3, <1>3 DEF Arp!Single
        <5> QED BY <5>1, <2>1
      <4>2. \A k \in 1 .. Len(chain) - i :
               /\ Arp(N)!Hash(new[k].address) = b
               /\ \A q \in new[k].queue :
                    /\ arp_at[q] = "yield" /\ hop[q] = new[k].address
                    /\ \A m \in 1 .. Len(chain) - i : m > k => new[m].address \in older[q]
        <5> TAKE k \in 1 .. Len(chain) - i
        <5>1. \A m \in 1 .. Len(chain) - i : m > k => i + m > i + k
          BY <2>1
        <5>2. new[k] = chain[i + k] /\ i + k \in 1 .. Len(chain)
          BY <4>0, <2>3
        <5>3. Arp(N)!Hash(new[k].address) = b
          BY <5>2, <2>5
        <5>4. \A q \in new[k].queue : arp_at[q] = "yield" /\ hop[q] = new[k].address
          BY <5>2, <2>5
        <5>5. \A q \in new[k].queue : \A m \in 1 .. Len(chain) - i : m > k => new[m].address \in older[q]
          BY Zenon, <5>1, <5>2, <4>0, <2>3, <2>5
        <5> QED BY <5>3, <5>4, <5>5
      <4> QED BY <3>2, <4>1, <4>2, <2>3, <2>4
    <3> QED BY Zenon, <3>1, <3>2
  <2>9. Arp(N)!Sleepers'
    <3> SUFFICES ASSUME NEW q \in Tasks
                 PROVE  /\ arp_status'[q] = "INTR_SLEEPING" => arp_at'[q] = "yield" /\ (Arp(N)!Listed(q)' \/ \E x \in older'[q] : x \in arp_table')
                        /\ arp_at'[q] = "yield" /\ arp_status'[q] = "RUNNING" /\ ~arp_pending'[q] => hop'[q] \in arp_table'
                        /\ arp_at'[q] = "checking" => hop'[q] \in arp_table'
      BY Zenon DEF Arp!Sleepers
    <3>1. CASE q \in woken
      BY Zenon, <3>1, <2>1, <2>5, <2>6, <1>1
    <3>2. CASE q \notin woken
      <4>1. arp_at[q] = "yield" /\ Arp(N)!Listed(q) => Arp(N)!Listed(q)' \/ \E x \in older'[q] : x \in arp_table'
        <5> HAVE arp_at[q] = "yield" /\ Arp(N)!Listed(q)
        <5> DEFINE d == Arp(N)!Hash(hop[q])
        <5>1. d \in 0 .. Buckets - 1
          BY ArpHashIs DEF Arp!IInv, Arp!Waits, Arp!Types
        <5>2. PICK k \in 1 .. Len(arp_waittable[d]) : arp_waittable[d][k].address = hop[q] /\ q \in arp_waittable[d][k].queue
          BY Zenon, <5>1, ArpChains DEF Arp!Listed, Arp!Place
        <5>3. CASE d # b
          BY Zenon, <5>1, <5>3, <2>4 DEF Arp!Listed, Arp!Hash
        <5>4. CASE d = b
          <6>1. k \in 1 .. Len(chain) /\ chain[k].address = hop[q] /\ q \in chain[k].queue
            BY Zenon, <5>2, <5>4 DEF chain
          <6>2. CASE k < i
            BY Zenon, <6>1, <6>2, <2>1, <2>5, <1>1
          <6>3. CASE k > i
            <7>1. k - i \in 1 .. Len(chain) - i /\ i + (k - i) = k
              BY <6>1, <6>3, <2>1, <1>3
            <7>2. k - i \in Arp(N)!Place(new, hop[q]) /\ q \in new[k - i].queue
              BY <6>1, <7>1, <2>3 DEF Arp!Place
            <7> QED BY Zenon, <7>2, <5>4, <2>4 DEF Arp!Listed, Arp!Hash
          <6>4. k # i
            BY <6>1, <3>2
          <6> QED BY <6>1, <6>2, <6>3, <6>4, <2>1, <1>3
        <5> QED BY <5>3, <5>4
      <4> QED BY Zenon, <3>2, <4>1, <2>6, <1>1 DEF Arp!IInv, Arp!Waits, Arp!Sleepers
    <3> QED BY <3>1, <3>2
  <2>10. Arp(N)!Unknown'
    <3> SUFFICES ASSUME N = 1, undef = "no" PROVE Arp(N)!Unknown'
      BY <1>6 DEF Arp!Unknown
    <3>1. \A k \in 1 .. Len(chain) : chain[k].address \notin arp_table
      BY <1>2, <1>3 DEF Arp!IInv, Arp!Waits, Arp!Unknown, chain
    <3>2. \A k \in 1 .. Len(chain) - i : new[k].address \notin arp_table'
      <4> TAKE k \in 1 .. Len(chain) - i
      <4>1. i + k \in 1 .. Len(chain) /\ i + k # i
        BY <2>1, <1>3
      <4>2. chain[i + k].address # a
        BY <4>1, <2>1, <1>3 DEF Arp!Single
      <4> QED BY <4>1, <4>2, <3>1, <2>3, <1>1
    <3>3. \A d \in 0 .. Buckets - 1 : d # b => \A k \in DOMAIN arp_waittable[d] : arp_waittable[d][k].address \notin arp_table'
      <4> TAKE d \in 0 .. Buckets - 1
      <4> HAVE d # b
      <4> TAKE k \in DOMAIN arp_waittable[d]
      <4>1. Arp(N)!Hash(arp_waittable[d][k].address) = d
        BY ArpChains
      <4>2. arp_waittable[d][k].address # a
        BY <4>1
      <4> QED BY <4>2, <1>1 DEF Arp!IInv, Arp!Waits, Arp!Unknown
    <3>4. \A d \in 0 .. Buckets - 1 : \A k \in DOMAIN arp_waittable'[d] : arp_waittable'[d][k].address \notin arp_table'
      BY <3>2, <3>3, <2>3, <2>4
    <3> QED BY <3>4, <1>4 DEF Arp!Unknown
  <2> QED BY Zenon, <2>7, <2>8, <2>9, <2>10 DEF Arp!IInv, Arp!Waits
<1> QED BY Zenon, <1>5, <1>6 DEF Arp!arp_add_entry

\* The card's interrupt: a packet of a peer is taken, looked up and entered.
LEMMA ArpHandles ==
  ASSUME NEW N, Arp(N)!Sane, Arp(N)!IInv, undef = "no", Arp(N)!Handler \/ (\E p \in arp_wire : Arp(N)!arp_rx_packet(p))
  PROVE  Arp(N)!Waits'
<1> DEFINE R == [at : {"none", "looking", "unknown", "adding"}, ip : Hops \cup {Broadcast}]
<1>1. ASSUME handler' \in R, handler'.at # "none" => handler'.ip \in Hops, arp_wire' \subseteq arp_wire,
             UNCHANGED <<arp_table, arp_waittable, arp_at, hop, older, arp_status, arp_pending, failed>>
      PROVE  Arp(N)!Waits'
  BY <1>1 DEF Arp!IInv, Arp!Waits, Arp!Types, Arp!Chained, Arp!Sleepers, Arp!Unknown, Arp!Listed
<1>2. handler \in R /\ (handler.at # "none" => handler.ip \in Hops) /\ Arp(N)!NoPacket \in R /\ Arp(N)!NoPacket.at = "none"
  BY DEF Arp!IInv, Arp!Waits, Arp!Types, Arp!NoPacket
<1>3. ASSUME NEW p \in arp_wire, Arp(N)!arp_rx_packet(p) PROVE Arp(N)!Waits'
  <2>1. p.ip \in Hops
    BY DEF Arp!IInv, Arp!Waits, Arp!Types
  <2>2. handler' \in R /\ handler'.ip \in Hops
    BY <1>3, <2>1 DEF Arp!arp_rx_packet
  <2> QED BY <1>1, <1>3, <2>2 DEF Arp!arp_rx_packet
<1>4. CASE Arp(N)!HandlerLooks
  <2>1. handler' \in R /\ (handler'.at # "none" => handler'.ip \in Hops)
    BY <1>2, <1>4 DEF Arp!HandlerLooks
  <2> QED BY <1>1, <1>4, <2>1 DEF Arp!HandlerLooks
<1>5. CASE Arp(N)!HandlerRelocks
  <2>1. handler' \in R /\ handler'.ip \in Hops
    BY <1>2, <1>5 DEF Arp!HandlerRelocks
  <2> QED BY <1>1, <1>5, <2>1 DEF Arp!HandlerRelocks
<1>6. CASE Arp(N)!HandlerAdds
  <2>1. /\ handler.ip \in Hops /\ Arp(N)!arp_add_entry(handler.ip) /\ handler' = Arp(N)!NoPacket
        /\ UNCHANGED <<arp_at, hop, older, arp_pending, failed, arp_wire>>
    BY <1>2, <1>6 DEF Arp!HandlerAdds
  <2>2. N = 1 => \A t \in Tasks : Arp(N)!Resting(t)
    BY <1>6 DEF Arp!HandlerAdds, Arp!IInv, Arp!OneAtWork
  <2> QED BY Zenon, <2>1, <2>2, ArpAdds
<1> QED BY <1>3, <1>4, <1>5, <1>6 DEF Arp!Handler

\* The network and the peers.
LEMMA ArpNetSteps ==
  ASSUME NEW N, Arp(N)!Sane, Arp(N)!IInv, undef = "no",
         (\E p \in arp_wire : Arp(N)!Lose(p)) \/ (\E a \in Hops : Arp(N)!PeerAsks(a) \/ Arp(N)!PeerReplies(a))
  PROVE  Arp(N)!Waits' /\ UNCHANGED <<arp_at, handler, lock, undef>>
<1>1. UNCHANGED <<arp_table, arp_waittable, arp_at, hop, older, arp_status, arp_pending, handler, lock, failed, undef>>
  BY Zenon DEF Arp!Lose, Arp!PeerAsks, Arp!PeerReplies, Arp!Network
<1>2. arp_wire' \subseteq [op : {"request", "reply", "ask"}, ip : Hops]
  <2> DEFINE R == [op : {"request", "reply", "ask"}, ip : Hops]
  <2>0. arp_wire \subseteq R /\ \A a \in Hops : [op |-> "ask", ip |-> a] \in R /\ [op |-> "reply", ip |-> a] \in R
    BY DEF Arp!IInv, Arp!Waits, Arp!Types
  <2>1. (\E p \in arp_wire : arp_wire' = arp_wire \ {p}) \/ (\E a \in Hops : \/ arp_wire' = arp_wire \cup {[op |-> "ask", ip |-> a]}
           \/ arp_wire' = (arp_wire \ {[op |-> "request", ip |-> a]}) \cup {[op |-> "reply", ip |-> a]})
    BY Zenon DEF Arp!Lose, Arp!PeerAsks, Arp!PeerReplies, Arp!Network
  <2> HIDE DEF R
  <2>2. arp_wire' \subseteq R
    <3>1. CASE \E p \in arp_wire : arp_wire' = arp_wire \ {p}
      BY <2>0, <3>1
    <3>2. ASSUME NEW a \in Hops, arp_wire' = arp_wire \cup {[op |-> "ask", ip |-> a]} PROVE arp_wire' \subseteq R
      BY Zenon, <2>0, <3>2
    <3>3. ASSUME NEW a \in Hops, arp_wire' = (arp_wire \ {[op |-> "request", ip |-> a]}) \cup {[op |-> "reply", ip |-> a]}
          PROVE arp_wire' \subseteq R
      BY Zenon, <2>0, <3>3
    <3> QED BY <2>1, <3>1, <3>2, <3>3
  <2> QED BY <2>2 DEF R
<1>3. Arp(N)!Types' /\ ~failed'
  BY Zenon, <1>1, <1>2 DEF Arp!IInv, Arp!Waits, Arp!Types
<1>4. Arp(N)!Chained'
  BY Zenon, <1>1 DEF Arp!IInv, Arp!Waits, Arp!Chained
<1>5. Arp(N)!Sleepers'
  BY Zenon, <1>1 DEF Arp!IInv, Arp!Waits, Arp!Sleepers, Arp!Listed
<1>6. Arp(N)!Unknown'
  BY Zenon, <1>1 DEF Arp!IInv, Arp!Waits, Arp!Unknown
<1> QED BY <1>1, <1>3, <1>4, <1>5, <1>6 DEF Arp!Waits

\* What mutex_lock and mutex_unlock leave, and on one CPU: the lock is free for one
\* that is alone, and again when it leaves.
LEMMA ArpLocks ==
  ASSUME NEW N, Arp(N)!IInv, NEW c \in Tasks \cup {Arp(N)!Irq}, Arp(N)!mutex_lock(c)
  PROVE  /\ lock' \in [locked : BOOLEAN, waiting : Seq(Tasks \cup {Arp(N)!Irq}), inside : SUBSET (Tasks \cup {Arp(N)!Irq})]
         /\ N = 1 /\ undef = "no" /\ lock.inside = {} =>
              undef' = "no" /\ lock'.waiting = <<>> /\ lock'.locked /\ lock'.inside = {c}
<1> DEFINE C == Tasks \cup {Arp(N)!Irq}
<1>1. lock \in [locked : BOOLEAN, waiting : Seq(C), inside : SUBSET C]
  BY DEF Arp!IInv, Arp!OneAtWork
<1>2. <<c>> \o lock.waiting \in Seq(C)
  BY <1>1
<1>3. lock' \in [locked : BOOLEAN, waiting : Seq(C), inside : SUBSET C]
  BY <1>1, <1>2 DEF Arp!mutex_lock
<1>4. ASSUME N = 1, undef = "no", lock.inside = {}
      PROVE  undef' = "no" /\ lock'.waiting = <<>> /\ lock'.locked /\ lock'.inside = {c}
  <2>1. ~lock.locked /\ lock.waiting = <<>>
    BY <1>4 DEF Arp!IInv, Arp!OneAtWork
  <2> QED BY <1>1, <1>4, <2>1 DEF Arp!mutex_lock
<1> QED BY <1>3, <1>4
LEMMA ArpUnlocks ==
  ASSUME NEW N, Arp(N)!Sane, Arp(N)!IInv, NEW c \in lock.inside, Arp(N)!mutex_unlock(c)
  PROVE  /\ lock' \in [locked : BOOLEAN, waiting : Seq(Tasks \cup {Arp(N)!Irq}), inside : SUBSET (Tasks \cup {Arp(N)!Irq})]
         /\ N = 1 /\ undef = "no" => lock'.waiting = <<>> /\ ~lock'.locked /\ lock'.inside = {}
<1> DEFINE C == Tasks \cup {Arp(N)!Irq}
<1>1. lock \in [locked : BOOLEAN, waiting : Seq(C), inside : SUBSET C]
  BY DEF Arp!IInv, Arp!OneAtWork
<1>2. lock.waiting # <<>> => Head(lock.waiting) \in C /\ Tail(lock.waiting) \in Seq(C)
  BY <1>1, Shorter
<1>3. lock' \in [locked : BOOLEAN, waiting : Seq(C), inside : SUBSET C]
  BY <1>1, <1>2 DEF Arp!mutex_unlock
<1>4. ASSUME N = 1, undef = "no" PROVE lock'.waiting = <<>> /\ ~lock'.locked /\ lock'.inside = {}
  <2>1. lock.waiting = <<>> /\ \A d \in lock.inside : d = c
    BY <1>4 DEF Arp!IInv, Arp!OneAtWork, Arp!Resting, Arp!Sections, Arp!Sane
  <2> QED BY <2>1 DEF Arp!mutex_unlock
<1> QED BY <1>3, <1>4

\* One call or the handler is at work.
LEMMA ArpOneAtWork == ASSUME NEW N, Arp(N)!Sane, Arp(N)!IInv, Arp(N)!Next PROVE Arp(N)!OneAtWork'
<1> DEFINE L == [locked : BOOLEAN, waiting : Seq(Tasks \cup {Arp(N)!Irq}), inside : SUBSET (Tasks \cup {Arp(N)!Irq})]
<1>n. undef = "no" /\ lock \in L /\ arp_at \in [Tasks -> Arp(N)!Sections \cup {"user", "requested", "yield"}]
  BY DEF Arp!Next, Arp!IInv, Arp!OneAtWork, Arp!Waits, Arp!Types
<1>u. ASSUME NEW c \in lock.inside, Arp(N)!mutex_unlock(c)
      PROVE  lock' \in L /\ (N = 1 => lock'.waiting = <<>> /\ ~lock'.locked /\ lock'.inside = {})
  BY <1>n, <1>u, ArpUnlocks
<1>l. ASSUME NEW c \in Tasks \cup {Arp(N)!Irq}, Arp(N)!mutex_lock(c)
      PROVE  lock' \in L /\ (N = 1 /\ lock.inside = {} => undef' = "no" /\ lock'.waiting = <<>> /\ lock'.locked /\ lock'.inside = {c})
  BY <1>n, <1>l, ArpLocks
<1>a. N = 1 => \A c \in lock.inside : (c = Arp(N)!Irq /\ handler.at \in {"looking", "adding"}) \/ (c \in Tasks /\ arp_at[c] \in Arp(N)!Sections)
  BY <1>n DEF Arp!IInv, Arp!OneAtWork
<1>b. N = 1 => /\ handler.at # "none" => \A t \in Tasks : Arp(N)!Resting(t)
               /\ \A t, q \in Tasks : Arp(N)!Resting(t) \/ Arp(N)!Resting(q) \/ t = q
  BY <1>n DEF Arp!IInv, Arp!OneAtWork
<1>i. 1 > 1 <=> FALSE
  OBVIOUS
<1>1. ASSUME NEW t \in Tasks, NEW a \in Hops \cup {Broadcast}, Arp(N)!ipv4_tx_packet(t, a) PROVE Arp(N)!OneAtWork'
  <2>1. CASE UNCHANGED <<arp_at, hop, lock, undef>>
    BY <1>1, <2>1 DEF Arp!ipv4_tx_packet, Arp!IInv, Arp!OneAtWork, Arp!Resting
  <2>2. CASE arp_at' = [arp_at EXCEPT ![t] = "looking"] /\ Arp(N)!mutex_lock(t)
    <3>1. N = 1 => handler.at = "none" /\ \A q \in Tasks : Arp(N)!Resting(q)
      BY <1>1, <1>i DEF Arp!ipv4_tx_packet, Arp!Alone, Arp!Resting
    <3>2. N = 1 => lock.inside = {}
      BY <1>a, <3>1 DEF Arp!Resting, Arp!Sections
    <3>3. arp_at'[t] = "looking" /\ (\A q \in Tasks : q # t => arp_at'[q] = arp_at[q]) /\ handler' = handler
      BY <1>n, <1>1, <2>2 DEF Arp!ipv4_tx_packet
    <3> QED BY <1>l, <2>2, <3>1, <3>2, <3>3 DEF Arp!OneAtWork, Arp!Resting, Arp!Sections
  <2> QED BY <1>1, <2>1, <2>2 DEF Arp!ipv4_tx_packet
<1>2. ASSUME NEW t \in Tasks, Arp(N)!arp_search(t) PROVE Arp(N)!OneAtWork'
  <2>1. arp_at[t] = "looking" /\ (\A q \in Tasks : q # t => arp_at'[q] = arp_at[q]) /\ UNCHANGED <<handler, undef>>
    BY <1>n, <1>2 DEF Arp!arp_search
  <2>2. lock' \in L /\ (N = 1 => lock'.waiting = <<>> /\ ~lock'.locked /\ lock'.inside = {})
    BY <1>u, <1>2 DEF Arp!arp_search
  <2> QED BY <1>n, <1>b, <2>1, <2>2 DEF Arp!OneAtWork, Arp!Resting
<1>3. ASSUME NEW t \in Tasks, Arp(N)!Relock(t) PROVE Arp(N)!OneAtWork'
  <2>1. arp_at[t] = "requested" /\ arp_at'[t] = "joining" /\ (\A q \in Tasks : q # t => arp_at'[q] = arp_at[q]) /\ handler' = handler
    BY <1>n, <1>3 DEF Arp!Relock
  <2>2. N = 1 => handler.at = "none" /\ (\A q \in Tasks : q # t => Arp(N)!Resting(q)) /\ lock.inside = {}
    BY <1>a, <1>b, <2>1 DEF Arp!Resting, Arp!Sections
  <2>3. lock' \in L /\ (N = 1 => undef' = "no" /\ lock'.waiting = <<>> /\ lock'.locked /\ lock'.inside = {t})
    BY <1>l, <1>3, <2>2 DEF Arp!Relock
  <2> QED BY <2>1, <2>2, <2>3 DEF Arp!OneAtWork, Arp!Resting, Arp!Sections
<1>4. ASSUME NEW t \in Tasks, Arp(N)!Wait(t) \/ Arp(N)!Check(t) PROVE Arp(N)!OneAtWork'
  <2>1. arp_at[t] \in Arp(N)!Sections /\ (\A q \in Tasks : q # t => arp_at'[q] = arp_at[q]) /\ UNCHANGED <<handler, undef>>
    BY <1>n, <1>4 DEF Arp!Wait, Arp!Check, Arp!Sections
  <2>2. lock' \in L /\ (N = 1 => lock'.waiting = <<>> /\ ~lock'.locked /\ lock'.inside = {})
    BY <1>u, <1>4 DEF Arp!Wait, Arp!Check
  <2> QED BY <1>n, <1>b, <2>1, <2>2 DEF Arp!OneAtWork, Arp!Resting, Arp!Sections
<1>5. ASSUME NEW t \in Tasks, Arp(N)!Resume(t) PROVE Arp(N)!OneAtWork'
  <2>1. CASE undef' = "interrupted" /\ UNCHANGED <<arp_at, lock>>
    BY <1>n, <2>1 DEF Arp!OneAtWork
  <2>2. CASE arp_at' = [arp_at EXCEPT ![t] = "checking"] /\ Arp(N)!mutex_lock(t)
    <3>1. N = 1 => handler.at = "none" /\ \A q \in Tasks : Arp(N)!Resting(q)
      BY <1>5, <1>i DEF Arp!Resume, Arp!Alone, Arp!Resting
    <3>2. N = 1 => lock.inside = {}
      BY <1>a, <3>1 DEF Arp!Resting, Arp!Sections
    <3>3. arp_at'[t] = "checking" /\ (\A q \in Tasks : q # t => arp_at'[q] = arp_at[q]) /\ handler' = handler
      BY <1>n, <1>5, <2>2 DEF Arp!Resume
    <3> QED BY <1>l, <2>2, <3>1, <3>2, <3>3 DEF Arp!OneAtWork, Arp!Resting, Arp!Sections
  <2> QED BY <1>5, <2>1, <2>2 DEF Arp!Resume
<1>6. ASSUME NEW p \in arp_wire, Arp(N)!arp_rx_packet(p) PROVE Arp(N)!OneAtWork'
  <2>1. handler.at = "none" /\ handler'.at \in {"looking", "adding"} /\ arp_at' = arp_at
    BY <1>6 DEF Arp!arp_rx_packet
  <2>2. N = 1 => (\A q \in Tasks : Arp(N)!Resting(q)) /\ lock.inside = {}
    BY <1>a, <1>6, <1>i, <2>1 DEF Arp!arp_rx_packet, Arp!Quiet, Arp!Resting, Arp!Sections
  <2>3. lock' \in L /\ (N = 1 => undef' = "no" /\ lock'.waiting = <<>> /\ lock'.locked /\ lock'.inside = {Arp(N)!Irq})
    BY <1>l, <1>6, <2>2 DEF Arp!arp_rx_packet
  <2> QED BY <2>1, <2>2, <2>3 DEF Arp!OneAtWork, Arp!Resting
<1>7. CASE Arp(N)!HandlerLooks \/ Arp(N)!HandlerAdds
  <2>1. handler.at # "none" /\ arp_at' = arp_at /\ undef' # "overlap"
    BY <1>n, <1>7 DEF Arp!HandlerLooks, Arp!HandlerAdds, Arp!arp_add_entry
  <2>2. lock' \in L /\ (N = 1 => lock'.waiting = <<>> /\ ~lock'.locked /\ lock'.inside = {})
    BY <1>u, <1>7 DEF Arp!HandlerLooks, Arp!HandlerAdds
  <2> QED BY <1>b, <2>1, <2>2 DEF Arp!OneAtWork, Arp!Resting
<1>8. CASE Arp(N)!HandlerRelocks
  <2>1. handler.at = "unknown" /\ handler'.at = "adding" /\ arp_at' = arp_at
    BY <1>8 DEF Arp!HandlerRelocks, Arp!IInv, Arp!Waits, Arp!Types
  <2>2. N = 1 => (\A q \in Tasks : Arp(N)!Resting(q)) /\ lock.inside = {}
    BY <1>a, <1>b, <2>1 DEF Arp!Resting, Arp!Sections
  <2>3. lock' \in L /\ (N = 1 => undef' = "no" /\ lock'.waiting = <<>> /\ lock'.locked /\ lock'.inside = {Arp(N)!Irq})
    BY <1>l, <1>8, <2>2 DEF Arp!HandlerRelocks
  <2> QED BY <2>1, <2>2, <2>3 DEF Arp!OneAtWork, Arp!Resting
<1>9. ASSUME UNCHANGED <<arp_at, handler, lock, undef>> PROVE Arp(N)!OneAtWork'
  BY <1>9 DEF Arp!IInv, Arp!OneAtWork, Arp!Resting
<1>10. ASSUME NEW t \in Tasks, Arp(N)!send_signal(t) PROVE Arp(N)!OneAtWork'
  BY <1>9, <1>10 DEF Arp!send_signal
<1>11. ASSUME (\E p \in arp_wire : Arp(N)!Lose(p)) \/ (\E a \in Hops : Arp(N)!PeerAsks(a) \/ Arp(N)!PeerReplies(a)) PROVE Arp(N)!OneAtWork'
  BY <1>n, <1>9, <1>11, ArpNetSteps
<1> QED
  BY Zenon, <1>1, <1>2, <1>3, <1>4, <1>5, <1>6, <1>7, <1>8, <1>10, <1>11 DEF Arp!Next, Arp!Goes, Arp!Handler, Arp!Sane

\* Every step keeps it.
LEMMA ArpNextIInv == ASSUME NEW N, Arp(N)!Sane, Arp(N)!IInv, Arp(N)!Next PROVE Arp(N)!IInv'
<1>1. Arp(N)!Waits'
  BY Zenon, ArpSends, ArpLooks, ArpRelocks, ArpWaits, ArpResumes, ArpChecks, ArpSignals, ArpHandles, ArpNetSteps
  DEF Arp!Next, Arp!Goes, Arp!Sane
<1> QED BY <1>1, ArpOneAtWork DEF Arp!IInv

\* A step that leaves the variables alone keeps the invariant.
LEMMA ArpStutterIInv == ASSUME NEW N, Arp(N)!IInv, UNCHANGED Arp(N)!vars PROVE Arp(N)!IInv'
<1>1. Arp(N)!Types' /\ ~failed'
  BY Zenon DEF Arp!vars, Arp!IInv, Arp!Waits, Arp!Types
<1>2. Arp(N)!Chained'
  BY Zenon DEF Arp!vars, Arp!IInv, Arp!Waits, Arp!Chained
<1>3. Arp(N)!Sleepers'
  BY Zenon DEF Arp!vars, Arp!IInv, Arp!Waits, Arp!Sleepers, Arp!Listed
<1>4. Arp(N)!Unknown'
  BY Zenon DEF Arp!vars, Arp!IInv, Arp!Waits, Arp!Unknown
<1>5. Arp(N)!OneAtWork'
  BY Zenon DEF Arp!vars, Arp!IInv, Arp!OneAtWork, Arp!Resting
<1> QED BY <1>1, <1>2, <1>3, <1>4, <1>5 DEF Arp!IInv, Arp!Waits

\* What it says of the senders.
LEMMA ArpIInvSafe == ASSUME NEW N, Arp(N)!Sane, Arp(N)!IInv PROVE Arp(N)!TypeOK /\ Arp(N)!DroppedOnlyByOlder /\ Arp(N)!NoReplyMissed /\ Arp(N)!WokenFinds /\ Arp(N)!Unshared
<1>1. Arp(N)!TypeOK
  BY Zenon DEF Arp!IInv, Arp!Waits, Arp!Types, Arp!TypeOK, Arp!Entries
<1>2. Arp(N)!DroppedOnlyByOlder
  BY Zenon DEF Arp!IInv, Arp!Waits, Arp!Sleepers, Arp!DroppedOnlyByOlder, Arp!Asleep, Arp!arp_get_entry
<1>3. Arp(N)!NoReplyMissed
  <2> SUFFICES ASSUME N = 1, NEW t \in Tasks, Arp(N)!Asleep(t), Arp(N)!Listed(t) PROVE hop[t] \notin arp_table
    BY DEF Arp!NoReplyMissed, Arp!arp_get_entry
  <2>1. hop[t] \in Hops
    BY DEF Arp!IInv, Arp!Waits, Arp!Sleepers, Arp!Types, Arp!Asleep
  <2>2. Arp(N)!Hash(hop[t]) \in 0 .. Buckets - 1
    BY <2>1, ArpHashIs
  <2> QED BY <2>2 DEF Arp!IInv, Arp!Waits, Arp!Unknown, Arp!Listed, Arp!Place, Arp!Asleep
<1> QED BY <1>1, <1>2, <1>3 DEF Arp!WokenFinds, Arp!Unshared, Arp!OneAtWork, Arp!IInv, Arp!Waits
-----------------------------------------------------------------------------
(* The rings of the network card: e1000.c.                                 *)

CONSTANTS RxCount, TxCount, MaxRx, MaxTx, Cpus

VARIABLES rx, irq, tx, got, bad

Card == INSTANCE E1000

ASSUME CardSane == Card!Sane

\* Places in the ring: distinct, and one on is one on.
Spaced(n, c) ==
    /\ (c + 1) % n = Card!Nth(n, c, 1)
    /\ \A j \in 0 .. n - 1 : Card!Nth(n, c, j) \in 0 .. n - 1 /\ (c + j) % n = Card!Nth(n, c, j)
    /\ \A j, k \in 0 .. n - 1 : Card!Nth(n, c, j) = Card!Nth(n, c, k) => j = k
    /\ \A j \in 0 .. n - 2 : Card!Nth(n, Card!Nth(n, c, 1), j) = Card!Nth(n, c, j + 1) /\ Card!Nth(n, Card!Nth(n, c, j), 1) = Card!Nth(n, c, j + 1)
    /\ Card!Nth(n, Card!Nth(n, c, 1), n - 1) = c

\* The remainders that e1000.c takes go round the ring.
LEMMA CardPlaces == ASSUME NEW n \in Nat \ {0}, NEW c \in 0 .. n - 1 PROVE Spaced(n, c)
<1>1. \A j \in 0 .. n : (c + j) % n = Card!Nth(n, c, j)
  <2> TAKE j \in 0 .. n
  <2>1. CASE c + j < n
    BY <2>1 DEF Card!Nth
  <2>2. CASE c + j >= n
    <3>1. c + j < 2 * n
      OBVIOUS
    <3> QED BY <2>2, <3>1 DEF Card!Nth
  <2> QED BY <2>1, <2>2
<1>2. (c + 1) % n = Card!Nth(n, c, 1)
  BY <1>1
<1>3. \A j \in 0 .. n - 1 : Card!Nth(n, c, j) \in 0 .. n - 1
  BY DEF Card!Nth
<1>4. \A j, k \in 0 .. n - 1 : Card!Nth(n, c, j) = Card!Nth(n, c, k) => j = k
  BY DEF Card!Nth
<1>5. \A j \in 0 .. n - 2 : Card!Nth(n, Card!Nth(n, c, 1), j) = Card!Nth(n, c, j + 1) /\ Card!Nth(n, Card!Nth(n, c, j), 1) = Card!Nth(n, c, j + 1)
  BY DEF Card!Nth
<1>6. Card!Nth(n, Card!Nth(n, c, 1), n - 1) = c
  BY DEF Card!Nth
<1> QED BY <1>1, <1>2, <1>3, <1>4, <1>5, <1>6 DEF Spaced
\* e1000_init_rx and e1000_init_tx leave such a state.
LEMMA CardInitRxInv == ASSUME Card!Sane, Card!Init PROVE Card!RxInv
<1> USE DEF Card!Sane, Card!Descriptors, Card!Init, Card!e1000_init_rx, Card!e1000_init_tx
<1>1. Card!Records
  BY DEF Card!Records
<1>2. Card!Waiting = 0 /\ Len(got.passed) = 0
  BY DEF Card!Waiting
<1>3. \A j \in Card!Descriptors : Card!Nth(RxCount, 0, j) = j
  BY DEF Card!Nth
<1>4. Card!Order
  BY <1>2, <1>3 DEF Card!Order
<1>5. Card!Contents /\ Card!Noticed
  BY <1>2, <1>3 DEF Card!Contents, Card!Noticed
<1> QED BY Zenon, <1>1, <1>4, <1>5 DEF Card!RxInv

\* The card puts a frame into the ring.
LEMMA CardCardStep == ASSUME Card!Sane, Card!RxInv, Card!CardReceives PROVE Card!RxInv'
<1> DEFINE n == Card!Waiting
<1>1. Card!Records /\ Card!Order /\ Card!Contents /\ Card!Noticed
  BY DEF Card!RxInv
<1>2. n \in 0 .. RxCount - 1 /\ rx.cur \in Card!Descriptors /\ rx.head = Card!Nth(RxCount, rx.cur, n)
  BY <1>1 DEF Card!Records, Card!Order
<1>p. Spaced(RxCount, rx.cur) /\ Spaced(RxCount, rx.head)
  <2>1. RxCount \in Nat \ {0} /\ rx.cur \in 0 .. RxCount - 1 /\ rx.head \in 0 .. RxCount - 1
    BY <1>1 DEF Card!Records, Card!Descriptors, Card!Sane
  <2> QED BY <2>1, CardPlaces
<1>t. rx.done \in [Card!Descriptors -> BOOLEAN] /\ rx.frame \in [Card!Descriptors -> Nat]
  BY <1>1 DEF Card!Records
<1>3. PICK k \in n .. RxCount - 1 : rx.tail = Card!Nth(RxCount, rx.cur, k)
  BY <1>1 DEF Card!Order
<1>4. n + 1 \in 0 .. RxCount - 1 /\ k \in n + 1 .. RxCount - 1 /\ RxCount \in Nat
  BY <1>2, <1>3 DEF Card!CardReceives, Card!Sane
<1>5. /\ rx'.cur = rx.cur /\ rx'.tail = rx.tail /\ rx'.head = (rx.head + 1) % RxCount
      /\ rx'.done = [rx.done EXCEPT ![rx.head] = TRUE]
      /\ rx'.frame = [rx.frame EXCEPT ![rx.head] = got.accepted + 1]
      /\ irq'.cause = TRUE /\ irq'.msg = TRUE /\ irq'.pc = irq.pc /\ irq'.old = irq.old
      /\ got'.accepted = got.accepted + 1 /\ got'.passed = got.passed
  BY <1>1 DEF Card!CardReceives, Card!Records
<1>6. rx'.head = Card!Nth(RxCount, rx.cur, n + 1)
  <2>1. rx.head \in Card!Descriptors /\ n \in 0 .. RxCount - 2
    BY <1>1, <1>2, <1>4 DEF Card!Records
  <2>2. (rx.head + 1) % RxCount = Card!Nth(RxCount, rx.head, 1)
    BY Zenon, <1>p DEF Spaced
  <2>3. Card!Nth(RxCount, Card!Nth(RxCount, rx.cur, n), 1) = Card!Nth(RxCount, rx.cur, n + 1)
    BY Zenon, <2>1, <1>p DEF Spaced
  <2> QED BY <2>2, <2>3, <1>2, <1>5
<1>7. Card!Waiting' = n + 1
  BY <1>1, <1>5 DEF Card!Waiting, Card!Records
<1>8. Card!Records'
  <2>1. rx'.head \in Card!Descriptors
    BY <1>4, <1>6, <1>p DEF Spaced, Card!Descriptors
  <2>2. rx' \in [head : Card!Descriptors, tail : Card!Descriptors, cur : Card!Descriptors,
                 done : [Card!Descriptors -> BOOLEAN], frame : [Card!Descriptors -> Nat]]
    <3>1. got.accepted + 1 \in Nat
      BY <1>1 DEF Card!Records
    <3>2. [rx.frame EXCEPT ![rx.head] = got.accepted + 1] \in [Card!Descriptors -> Nat]
      BY Zenon, <3>1, <1>t
    <3>3. [rx.done EXCEPT ![rx.head] = TRUE] \in [Card!Descriptors -> BOOLEAN]
      BY Zenon, <1>t
    <3>4. (rx.head + 1) % RxCount \in Card!Descriptors
      BY <2>1, <1>5
    <3>5. rx' = [rx EXCEPT !.done = [rx.done EXCEPT ![rx.head] = TRUE],
                           !.frame = [rx.frame EXCEPT ![rx.head] = got.accepted + 1],
                           !.head = (rx.head + 1) % RxCount]
      BY <1>1 DEF Card!Records, Card!CardReceives
    <3> QED BY Zenon, <3>2, <3>3, <3>4, <3>5, <1>1 DEF Card!Records
  <2>3. irq' \in [cause : BOOLEAN, msg : BOOLEAN, pc : {"idle", "loop", "tail", "ack"},
                  icr : BOOLEAN, old : Card!Descriptors \cup {-1}]
    BY Zenon, <1>1 DEF Card!Records, Card!CardReceives
  <2>4. got' \in [accepted : Nat, passed : Seq(Nat), sent : Nat, wire : Seq(Nat)]
    <3>1. got.accepted + 1 \in Nat
      BY <1>1 DEF Card!Records
    <3>2. got' = [got EXCEPT !.accepted = got.accepted + 1]
      BY DEF Card!CardReceives
    <3> QED BY Zenon, <3>1, <3>2, <1>1 DEF Card!Records
  <2>5. tx' = tx /\ bad' \subseteq {"window", "overrun", "raced"}
    BY Zenon, <1>1 DEF Card!Records, Card!CardReceives
  <2> QED BY Zenon, <2>2, <2>3, <2>4, <2>5, <1>1 DEF Card!Records
<1>9. Card!Order'
  BY Zenon, <1>1, <1>3, <1>4, <1>5, <1>6, <1>7 DEF Card!Order
<1>10. Card!Contents'
  <2>1. \A j \in Card!Descriptors : Card!Nth(RxCount, rx.cur, j) \in Card!Descriptors /\ (Card!Nth(RxCount, rx.cur, j) = rx.head => j = n)
    BY <1>2, <1>p DEF Card!Descriptors, Spaced
  <2>2. \A j \in Card!Descriptors : rx'.done[Card!Nth(RxCount, rx.cur, j)] <=> j < n + 1
    <3> TAKE j \in Card!Descriptors
    <3>1. CASE j = n
      BY <3>1, <2>1, <1>2, <1>4, <1>5, <1>t
    <3>2. CASE j # n
      <4>1. rx'.done[Card!Nth(RxCount, rx.cur, j)] = rx.done[Card!Nth(RxCount, rx.cur, j)]
        BY Zenon, <3>2, <2>1, <1>5, <1>t
      <4>2. rx.done[Card!Nth(RxCount, rx.cur, j)] <=> j < n
        BY <1>1 DEF Card!Contents
      <4>3. j < n <=> j < n + 1
        BY <3>2, <1>2 DEF Card!Descriptors
      <4> QED BY <4>1, <4>2, <4>3
    <3> QED BY <3>1, <3>2
  <2>3. \A j \in 0 .. n : rx'.frame[Card!Nth(RxCount, rx.cur, j)] = Len(got.passed) + j + 1
    <3> TAKE j \in 0 .. n
    <3>0. j \in Card!Descriptors
      BY <1>2, <1>4 DEF Card!Descriptors
    <3>1. CASE j = n
      BY <3>1, <3>0, <2>1, <1>1, <1>2, <1>5 DEF Card!Records, Card!Waiting
    <3>2. CASE j # n
      <4>1. rx'.frame[Card!Nth(RxCount, rx.cur, j)] = rx.frame[Card!Nth(RxCount, rx.cur, j)]
        BY <3>2, <3>0, <2>1, <1>5, <1>t
      <4> QED BY <4>1, <3>2, <1>1, <1>2 DEF Card!Contents
    <3> QED BY <3>1, <3>2
  <2> QED BY <1>1, <1>2, <1>5, <1>7, <2>2, <2>3 DEF Card!Contents
<1>11. Card!Noticed'
  BY <1>1, <1>5 DEF Card!Noticed, Card!Records, Card!CardReceives
<1> QED BY <1>8, <1>9, <1>10, <1>11 DEF Card!RxInv

\* The driver passes a frame on.
LEMMA CardHandleStep == ASSUME Card!Sane, Card!RxInv, Card!Handle PROVE Card!RxInv'
<1> DEFINE n == Card!Waiting
<1>1. Card!Records /\ Card!Order /\ Card!Contents /\ Card!Noticed
  BY DEF Card!RxInv
<1>2. n \in 0 .. RxCount - 1 /\ rx.cur \in Card!Descriptors /\ rx.head = Card!Nth(RxCount, rx.cur, n) /\ RxCount \in Nat
  BY <1>1 DEF Card!Records, Card!Order, Card!Sane
<1>3. /\ rx'.cur = (rx.cur + 1) % RxCount /\ rx'.tail = rx.tail /\ rx'.head = rx.head
      /\ rx'.done = [rx.done EXCEPT ![rx.cur] = FALSE] /\ rx'.frame = rx.frame
      /\ irq'.pc = "loop" /\ irq'.old = rx.cur
      /\ got'.accepted = got.accepted /\ got'.passed = Append(got.passed, rx.frame[rx.cur])
  BY <1>1 DEF Card!Handle, Card!Records
<1>p. Spaced(RxCount, rx.cur)
  BY <1>2, CardPlaces DEF Card!Descriptors, Card!Sane
<1>t. rx.done \in [Card!Descriptors -> BOOLEAN] /\ rx.frame \in [Card!Descriptors -> Nat]
  BY <1>1 DEF Card!Records
<1>4. Card!Nth(RxCount, rx.cur, 0) = rx.cur /\ 0 \in Card!Descriptors
  BY <1>2 DEF Card!Nth, Card!Descriptors, Card!Sane
<1>5. n > 0
  BY Zenon, <1>1, <1>2, <1>4 DEF Card!Contents, Card!Handle
<1>6. rx'.cur = Card!Nth(RxCount, rx.cur, 1) /\ rx'.cur \in Card!Descriptors /\ Card!Nth(RxCount, rx'.cur, RxCount - 1) = rx.cur
  <2>1. 1 \in 0 .. RxCount - 1
    BY DEF Card!Sane
  <2> QED BY <2>1, <1>3, <1>p DEF Spaced, Card!Descriptors
<1>7. \A j \in 0 .. RxCount - 2 : Card!Nth(RxCount, rx'.cur, j) = Card!Nth(RxCount, rx.cur, j + 1)
  BY <1>6, <1>p DEF Spaced
<1>8. rx.frame[rx.cur] = Len(got.passed) + 1 /\ got.passed \in Seq(Nat) /\ Len(got.passed) \in Nat
  BY <1>1, <1>2, <1>4, <1>5 DEF Card!Contents, Card!Records
<1>9. /\ Len(got'.passed) = Len(got.passed) + 1 /\ got'.passed \in Seq(Nat)
      /\ \A i \in 1 .. Len(got.passed) + 1 : got'.passed[i] = i
  BY <1>1, <1>3, <1>8 DEF Card!Contents
<1>10. Card!Waiting' = n - 1
  BY <1>1, <1>3, <1>9, <1>8 DEF Card!Waiting, Card!Records
<1>11. Card!Records'
  BY Zenon, <1>1, <1>6, <1>9, <1>3 DEF Card!Records, Card!Handle
<1>12. Card!Order'
  <2>1. PICK k \in n .. RxCount - 1 : rx.tail = Card!Nth(RxCount, rx.cur, k)
    BY <1>1 DEF Card!Order
  <2>2. k - 1 \in n - 1 .. RxCount - 1 /\ k - 1 \in 0 .. RxCount - 2 /\ n - 1 \in 0 .. RxCount - 2
    BY <2>1, <1>2, <1>5
  <2>3. rx'.tail = Card!Nth(RxCount, rx'.cur, k - 1) /\ rx'.head = Card!Nth(RxCount, rx'.cur, n - 1)
    <3>1. Card!Nth(RxCount, rx'.cur, k - 1) = Card!Nth(RxCount, rx.cur, (k - 1) + 1)
      BY <2>2, <1>7
    <3>2. Card!Nth(RxCount, rx'.cur, n - 1) = Card!Nth(RxCount, rx.cur, (n - 1) + 1)
      BY <2>2, <1>7
    <3>3. (k - 1) + 1 = k /\ (n - 1) + 1 = n
      BY <2>1, <1>2
    <3> QED BY Zenon, <3>1, <3>2, <3>3, <2>1, <1>2, <1>3
  <2>4. irq'.old # -1
    BY <1>2, <1>3 DEF Card!Descriptors
  <2> QED BY <2>2, <2>3, <2>4, <1>2, <1>3, <1>6, <1>10 DEF Card!Order
<1>13. Card!Contents'
  <2>1. \A j \in Card!Descriptors : rx'.done[Card!Nth(RxCount, rx'.cur, j)] <=> j < n - 1
    <3> TAKE j \in Card!Descriptors
    <3>1. CASE j = RxCount - 1
      BY <3>1, <1>2, <1>3, <1>6, <1>t
    <3>2. CASE j # RxCount - 1
      <4>1. j \in 0 .. RxCount - 2 /\ j + 1 \in Card!Descriptors
        BY <3>2, <1>2 DEF Card!Descriptors
      <4>2. Card!Nth(RxCount, rx.cur, j + 1) \in Card!Descriptors /\ Card!Nth(RxCount, rx.cur, j + 1) # rx.cur
        <5>1. Card!Nth(RxCount, rx.cur, j + 1) = Card!Nth(RxCount, rx.cur, 0) => j + 1 = 0
          BY <4>1, <1>4, <1>p DEF Spaced, Card!Descriptors
        <5> QED BY <5>1, <4>1, <1>4, <1>p DEF Spaced, Card!Descriptors
      <4>3. rx'.done[Card!Nth(RxCount, rx'.cur, j)] = rx.done[Card!Nth(RxCount, rx.cur, j + 1)]
        BY Zenon, <4>1, <4>2, <1>3, <1>7, <1>t
      <4>4. rx.done[Card!Nth(RxCount, rx.cur, j + 1)] <=> j + 1 < n
        BY <4>1, <1>1 DEF Card!Contents
      <4>5. j + 1 < n <=> j < n - 1
        BY <4>1, <1>2
      <4> QED BY <4>3, <4>4, <4>5
    <3> QED BY <3>1, <3>2
  <2>2. \A j \in 0 .. n - 2 : rx'.frame[Card!Nth(RxCount, rx'.cur, j)] = Len(got'.passed) + j + 1
    <3> TAKE j \in 0 .. n - 2
    <3>1. j + 1 \in 0 .. n - 1 /\ j \in 0 .. RxCount - 2
      BY <1>2, <1>5
    <3>2. rx.frame[Card!Nth(RxCount, rx.cur, j + 1)] = Len(got.passed) + (j + 1) + 1
      BY Zenon, <3>1, <1>1 DEF Card!Contents
    <3>3. rx'.frame[Card!Nth(RxCount, rx'.cur, j)] = rx.frame[Card!Nth(RxCount, rx.cur, j + 1)]
      BY <3>1, <1>3, <1>7
    <3>4. Len(got.passed) + (j + 1) + 1 = Len(got'.passed) + j + 1
      <4>1. Len(got.passed) \in Nat /\ Len(got'.passed) = Len(got.passed) + 1 /\ j \in Int
        BY <3>1, <1>8, <1>9
      <4> DEFINE a == Len(got.passed)
                 b == Len(got'.passed)
      <4>2. a \in Nat /\ b = a + 1 /\ j \in Int
        BY <4>1
      <4> HIDE DEF a, b
      <4>3. a + (j + 1) + 1 = b + j + 1
        BY <4>2
      <4> QED BY Zenon, <4>3 DEF a, b
    <3> QED BY Zenon, <3>2, <3>3, <3>4
  <2>3. \A j \in 0 .. (n - 1) - 1 : rx'.frame[Card!Nth(RxCount, rx'.cur, j)] = Len(got'.passed) + j + 1
    BY <2>2, <1>2
  <2>4. \A i \in 1 .. Len(got'.passed) : got'.passed[i] = i
    BY <1>9
  <2> QED BY <1>10, <2>1, <2>3, <2>4 DEF Card!Contents
<1>14. Card!Noticed'
  BY <1>3 DEF Card!Noticed
<1> QED BY <1>11, <1>12, <1>13, <1>14 DEF Card!RxInv

\* The steps of e1000_irq that only move the handler on.
LEMMA CardIrqStep ==
  ASSUME Card!Sane, Card!RxInv, Card!ReadCause \/ Card!LoopEnds \/ Card!WriteTail \/ Card!Acknowledge
  PROVE  Card!RxInv'
<1>1. Card!Records /\ Card!Order /\ Card!Contents /\ Card!Noticed
  BY DEF Card!RxInv
<1>2. Card!Waiting' = Card!Waiting /\ got' = got /\ tx' = tx
  BY Zenon DEF Card!ReadCause, Card!LoopEnds, Card!WriteTail, Card!Acknowledge, Card!Waiting
<1>3. Card!Waiting \in 0 .. RxCount - 1 /\ RxCount - 1 \in Card!Waiting .. RxCount - 1
  BY <1>1 DEF Card!Order, Card!Sane
<1>4. CASE Card!ReadCause
  <2>1. PICK cleared \in BOOLEAN :
          irq' = [irq EXCEPT !.msg = FALSE, !.icr = irq.cause, !.cause = irq.cause /\ ~cleared,
                             !.pc = IF irq.cause THEN "loop" ELSE "idle", !.old = -1]
    BY Zenon, <1>4 DEF Card!ReadCause
  <2>2. rx' = rx /\ irq.pc = "idle" /\ irq'.old = -1 /\ irq'.pc = (IF irq.cause THEN "loop" ELSE "idle")
    BY Zenon, <1>1, <1>4, <2>1 DEF Card!ReadCause, Card!Records
  <2>3. \E b \in BOOLEAN : b = (irq.cause /\ ~cleared)
    BY Zenon
  <2>4. PICK b \in BOOLEAN :
          irq' = [irq EXCEPT !.msg = FALSE, !.icr = irq.cause, !.cause = b,
                             !.pc = IF irq.cause THEN "loop" ELSE "idle", !.old = -1]
    BY <2>1, <2>3, Zenon
  <2>5. irq' \in [cause : BOOLEAN, msg : BOOLEAN, pc : {"idle", "loop", "tail", "ack"},
                  icr : BOOLEAN, old : Card!Descriptors \cup {-1}]
    BY Zenon, <2>4, <1>1 DEF Card!Records
  <2>6. bad' \subseteq {"window", "overrun", "raced"}
    BY Zenon, <1>1, <1>4 DEF Card!Records, Card!ReadCause
  <2>7. Card!Noticed'
    BY Zenon, <1>1, <1>2, <1>4, <2>2 DEF Card!Noticed, Card!ReadCause
  <2> QED BY <1>1, <1>2, <2>2, <2>5, <2>6, <2>7 DEF Card!RxInv, Card!Records, Card!Order, Card!Contents
<1>5. CASE Card!LoopEnds
  <2>1. rx' = rx /\ bad' = bad /\ irq' = [irq EXCEPT !.pc = "tail"] /\ irq.pc = "loop"
    BY <1>5 DEF Card!LoopEnds
  <2>2. irq'.pc = "tail" /\ irq'.old = irq.old
    BY <1>1, <2>1 DEF Card!Records
  <2>3. Card!Records'
    BY Zenon, <1>1, <1>2, <2>1 DEF Card!Records
  <2>4. Card!Waiting = 0
    <3>1. Card!Nth(RxCount, rx.cur, 0) = rx.cur /\ 0 \in Card!Descriptors
      BY <1>1 DEF Card!Nth, Card!Descriptors, Card!Sane, Card!Records
    <3> QED BY <3>1, <1>1, <1>3, <1>5 DEF Card!Contents, Card!LoopEnds
  <2>5. Card!Order'
    BY <1>1, <1>2, <2>1, <2>2 DEF Card!Order
  <2> QED BY <1>1, <1>2, <2>1, <2>3, <2>4, <2>5 DEF Card!RxInv, Card!Contents, Card!Noticed
<1>6. CASE Card!WriteTail
  <2>1. /\ bad' = bad /\ rx' = [rx EXCEPT !.tail = Card!NewTail] /\ irq' = [irq EXCEPT !.pc = "ack"]
        /\ irq.pc = "tail"
    BY <1>6 DEF Card!WriteTail
  <2>2. irq'.pc = "ack" /\ irq'.old = irq.old
    BY <1>1, <2>1 DEF Card!Records
  <2>3. Card!NewTail = Card!Nth(RxCount, rx.cur, RxCount - 1) /\ Card!NewTail \in Card!Descriptors
    <3>1. irq.old \in Card!Descriptors \cup {-1} /\ rx.tail \in Card!Descriptors
      BY <1>1 DEF Card!Records
    <3>2. irq.old = -1 => Card!NewTail = rx.tail
      BY DEF Card!NewTail
    <3>3. irq.old # -1 => Card!NewTail = irq.old /\ irq.old \in Card!Descriptors
      BY <3>1 DEF Card!NewTail, Card!Descriptors, Card!Sane
    <3> QED BY <1>1, <2>1, <3>1, <3>2, <3>3 DEF Card!Order
  <2>4. /\ rx'.tail = Card!NewTail /\ rx'.cur = rx.cur /\ rx'.head = rx.head /\ rx'.done = rx.done
        /\ rx'.frame = rx.frame
    BY <1>1, <2>1 DEF Card!Records
  <2>5. Card!Records'
    BY Zenon, <1>1, <1>2, <2>1, <2>3 DEF Card!Records
  <2>6. Card!Order'
    BY Zenon, <1>1, <1>2, <1>3, <2>2, <2>3, <2>4 DEF Card!Order
  <2> QED BY <1>1, <1>2, <2>1, <2>4, <2>5, <2>6 DEF Card!RxInv, Card!Contents, Card!Noticed
<1>7. CASE Card!Acknowledge
  <2>1. rx' = rx /\ bad' = bad /\ irq.pc = "ack"
    BY <1>7 DEF Card!Acknowledge
  <2>2. \E b \in BOOLEAN : b = (irq.cause /\ ~irq.icr)
    BY Zenon
  <2>3. PICK b \in BOOLEAN : irq' = [irq EXCEPT !.cause = b, !.pc = "idle"]
    BY Zenon, <1>7, <2>2 DEF Card!Acknowledge
  <2>4. irq'.pc = "idle" /\ irq'.old = irq.old
    BY <1>1, <2>3 DEF Card!Records
  <2>5. Card!Records'
    BY Zenon, <1>1, <1>2, <2>1, <2>3 DEF Card!Records
  <2>6. Card!Order'
    BY Zenon, <1>1, <1>2, <2>1, <2>4 DEF Card!Order
  <2> QED BY <1>1, <1>2, <2>1, <2>5, <2>6 DEF Card!RxInv, Card!Contents, Card!Noticed
<1> QED BY <1>4, <1>5, <1>6, <1>7

\* Sending does not touch reception.
LEMMA CardTxStep ==
  ASSUME Card!Sane, Card!RxInv, Card!CardSends \/ \E c \in Cpus : Card!Fill(c) \/ Card!Kick(c)
  PROVE  Card!RxInv'
<1>1. Card!Records /\ Card!Order /\ Card!Contents /\ Card!Noticed
  BY DEF Card!RxInv
<1>2. rx' = rx /\ irq' = irq
  BY Zenon DEF Card!CardSends, Card!Fill, Card!Kick
<1>3. got'.accepted = got.accepted /\ got'.passed = got.passed /\ ("window" \in bad' <=> "window" \in bad)
  BY Zenon, <1>1 DEF Card!CardSends, Card!Fill, Card!Kick, Card!Records
<1>4. Card!Records'
  <2>1. CASE Card!CardSends
    <3>0. /\ tx.head \in 0 .. TxCount - 1 /\ tx.frame \in [0 .. TxCount - 1 -> Nat]
          /\ got.wire \in Seq(Nat) /\ TxCount \in Nat \ {0}
      BY <1>1 DEF Card!Records, Card!Sane
    <3>1. tx.frame[tx.head] \in Nat /\ Append(got.wire, tx.frame[tx.head]) \in Seq(Nat)
      BY <3>0
    <3>2. (tx.head + 1) % TxCount \in 0 .. TxCount - 1
      BY <3>0
    <3> QED BY Zenon, <1>1, <1>2, <2>1, <3>1, <3>2 DEF Card!CardSends, Card!Records
  <2>2. ASSUME NEW c \in Cpus, Card!Fill(c) PROVE Card!Records'
    <3>1. got.sent + 1 \in Nat
      BY <1>1 DEF Card!Records
    <3>2. got' \in [accepted : Nat, passed : Seq(Nat), sent : Nat, wire : Seq(Nat)]
      BY Zenon, <1>1, <2>2, <3>1 DEF Card!Fill, Card!Records
    <3>3. bad' \subseteq {"window", "overrun", "raced"}
      BY Zenon, <1>1, <2>2 DEF Card!Fill, Card!Records
    <3>4. tx' = [tx EXCEPT !.frame = [tx.frame EXCEPT ![tx.cur] = got.sent + 1],
                           !.at = [tx.at EXCEPT ![c] = "filled"]]
      BY Zenon, <1>1, <2>2 DEF Card!Fill, Card!Records
    <3>5. [tx.frame EXCEPT ![tx.cur] = got.sent + 1] \in [0 .. TxCount - 1 -> Nat]
      BY <1>1, <3>1 DEF Card!Records
    <3>6. [tx.at EXCEPT ![c] = "filled"] \in [Cpus -> {"out", "filled"}]
      BY <1>1 DEF Card!Records
    <3> QED BY Zenon, <1>1, <1>2, <3>2, <3>3, <3>4, <3>5, <3>6 DEF Card!Records
  <2>3. ASSUME NEW c \in Cpus, Card!Kick(c) PROVE Card!Records'
    <3>1. Card!NextTx \in 0 .. TxCount - 1
      <4>1. \A n \in Nat \ {0} : \A k \in 0 .. n - 1 : (k + 1) % n \in 0 .. n - 1
        BY SMT
      <4>2. TxCount \in Nat \ {0} /\ tx.cur \in 0 .. TxCount - 1
        BY <1>1 DEF Card!Records, Card!Sane
      <4> QED BY <4>1, <4>2 DEF Card!NextTx
    <3>2. tx' = [tx EXCEPT !.cur = Card!NextTx, !.tail = Card!NextTx, !.at = [tx.at EXCEPT ![c] = "out"]]
      BY Zenon, <1>1, <2>3 DEF Card!Kick, Card!Records
    <3>3. [tx.at EXCEPT ![c] = "out"] \in [Cpus -> {"out", "filled"}]
      BY <1>1 DEF Card!Records
    <3>4. tx' \in [head : 0 .. TxCount - 1, tail : 0 .. TxCount - 1, cur : 0 .. TxCount - 1,
                   frame : [0 .. TxCount - 1 -> Nat], at : [Cpus -> {"out", "filled"}]]
      BY Zenon, <1>1, <3>1, <3>2, <3>3 DEF Card!Records
    <3>5. got' = got /\ bad' = bad
      BY Zenon, <2>3 DEF Card!Kick
    <3> QED BY Zenon, <1>1, <1>2, <3>4, <3>5 DEF Card!Records
  <2> QED BY <2>1, <2>2, <2>3
<1> QED BY <1>1, <1>2, <1>3, <1>4 DEF Card!RxInv, Card!Order, Card!Contents, Card!Noticed, Card!Waiting

\* A list that counts, and a ring that goes on counting.
LEMMA CardCounting ==
  ASSUME NEW q \in Seq(Nat), NEW m \in Nat, NEW r, r = [i \in 1 .. m |-> r[i]],
         \A i \in 1 .. Len(q) : q[i] = i, \A i \in 1 .. m : r[i] = Len(q) + i
  PROVE  q \o r = [i \in 1 .. Len(q) + m |-> i]
<1>1. Len(q) \in Nat
  OBVIOUS
<1>2. \A i \in 1 .. m : r[i] \in Nat
  BY <1>1
<1>3. r \in Seq(Nat) /\ Len(r) = m
  BY <1>2
<1> DEFINE all == q \o r
<1>4. all \in Seq(Nat) /\ Len(all) = Len(q) + m
  BY <1>3, Joined
<1>5. \A i \in 1 .. Len(q) + m : all[i] = i
  <2> TAKE i \in 1 .. Len(q) + m
  <2>1. CASE i <= Len(q)
    BY <2>1, <1>1, <1>3, Joined
  <2>2. CASE i > Len(q)
    <3>1. i - Len(q) \in 1 .. m /\ Len(q) + (i - Len(q)) = i
      BY <2>2, <1>1
    <3>2. all[Len(q) + (i - Len(q))] = r[i - Len(q)] /\ r[i - Len(q)] = Len(q) + (i - Len(q))
      BY <3>1, <1>3, Joined
    <3> QED BY <3>1, <3>2
  <2> QED BY <2>1, <2>2, <1>1
<1> HIDE DEF all
<1>6. all = [i \in 1 .. Len(q) + m |-> i]
  BY <1>4, <1>5
<1> QED BY Zenon, <1>6 DEF all

\* cur_tx is Outstanding places after the card's head.
LEMMA CardDistance ==
  ASSUME NEW n \in Nat \ {0}, NEW h \in 0 .. n - 1, NEW c \in 0 .. n - 1
  PROVE  /\ (c - h) % n \in 0 .. n - 1 /\ c = Card!Nth(n, h, (c - h) % n)
         /\ \A o \in 0 .. n - 1 : c = Card!Nth(n, h, o) => (c - h) % n = o
<1>1. (c - h) % n = IF c >= h THEN c - h ELSE c - h + n
  <2>1. CASE c >= h
    BY <2>1
  <2>2. CASE c < h
    BY <2>2
  <2> QED BY <2>1, <2>2
<1> DEFINE d == (c - h) % n
<1>2. d = IF c >= h THEN c - h ELSE c - h + n
  BY <1>1
<1> HIDE DEF d
<1>3. d \in 0 .. n - 1 /\ c = Card!Nth(n, h, d) /\ \A o \in 0 .. n - 1 : c = Card!Nth(n, h, o) => d = o
  BY <1>2 DEF Card!Nth
<1> QED BY <1>3 DEF d

\* A step that is not of transmission leaves it alone.
LEMMA CardQueuedStays ==
  ASSUME Card!Queued, tx' = tx, got'.sent = got.sent, got'.wire = got.wire, bad \subseteq bad' \cup {"window"}
  PROVE  Card!Queued'
  BY Zenon DEF Card!Queued, Card!Outstanding, Card!Filled

\* The facts of the transmission ring that its steps use.
LEMMA CardTxFacts ==
  ASSUME Card!Sane, Card!Records
  PROVE  /\ TxCount \in Nat \ {0} /\ tx.head \in 0 .. TxCount - 1 /\ tx.cur \in 0 .. TxCount - 1
         /\ tx.frame \in [0 .. TxCount - 1 -> Nat] /\ tx.at \in [Cpus -> {"out", "filled"}]
         /\ got.sent \in Nat /\ got.wire \in Seq(Nat) /\ Len(got.wire) \in Nat
         /\ Card!Outstanding \in 0 .. TxCount - 1 /\ tx.cur = Card!Nth(TxCount, tx.head, Card!Outstanding)
         /\ Spaced(TxCount, tx.head) /\ Spaced(TxCount, tx.cur) /\ Card!Filled \in {0, 1}
<1>1. /\ TxCount \in Nat \ {0} /\ tx.head \in 0 .. TxCount - 1 /\ tx.cur \in 0 .. TxCount - 1
      /\ tx.frame \in [0 .. TxCount - 1 -> Nat] /\ tx.at \in [Cpus -> {"out", "filled"}]
      /\ got.sent \in Nat /\ got.wire \in Seq(Nat) /\ Len(got.wire) \in Nat
  BY DEF Card!Sane, Card!Records
<1>2. Card!Outstanding \in 0 .. TxCount - 1 /\ tx.cur = Card!Nth(TxCount, tx.head, Card!Outstanding)
  BY Zenon, <1>1, CardDistance DEF Card!Outstanding
<1>3. Spaced(TxCount, tx.head) /\ Spaced(TxCount, tx.cur)
  BY <1>1, CardPlaces
<1> QED BY <1>1, <1>2, <1>3 DEF Card!Filled

\* e1000_send fills the page of cur_tx.
LEMMA CardFillStep == ASSUME Card!Sane, Card!Records, Card!Queued, NEW c \in Cpus, Card!Fill(c) PROVE Card!Queued'
<1> SUFFICES ASSUME bad' \cap {"overrun", "raced"} = {} PROVE Card!Queued'
  BY DEF Card!Queued
<1> DEFINE o == Card!Outstanding
           l == Len(got.wire)
<1>1. bad \cap {"overrun", "raced"} = {} /\ Card!Outstanding # TxCount - 1 /\ \A d \in Cpus : tx.at[d] = "out"
  BY DEF Card!Fill
<1>2. Card!Filled = 0
  BY Zenon, <1>1 DEF Card!Filled
<1>3. /\ tx.tail = tx.cur /\ got.sent = l + o + 0 /\ \A i \in 1 .. l : got.wire[i] = i
      /\ \A j \in 0 .. o - 1 : tx.frame[Card!Nth(TxCount, tx.head, j)] = l + j + 1
  BY <1>1, <1>2, CardTxFacts DEF Card!Queued
<1>4. /\ tx'.head = tx.head /\ tx'.cur = tx.cur /\ tx'.tail = tx.tail
      /\ tx'.frame = [tx.frame EXCEPT ![tx.cur] = got.sent + 1] /\ tx'.at = [tx.at EXCEPT ![c] = "filled"]
      /\ got'.sent = got.sent + 1 /\ got'.wire = got.wire
  BY DEF Card!Fill, Card!Records
<1>5. Card!Outstanding' = o /\ Len(got'.wire) = l
  BY Zenon, <1>4 DEF Card!Outstanding
<1>6. Card!Filled' = 1 /\ \A a, b \in Cpus : tx'.at[a] = "filled" /\ tx'.at[b] = "filled" => a = b
  BY <1>1, <1>4, CardTxFacts DEF Card!Filled
<1>f. /\ l \in Nat /\ o \in 0 .. TxCount - 1 /\ TxCount \in Nat /\ tx.frame \in [0 .. TxCount - 1 -> Nat]
      /\ tx.cur = Card!Nth(TxCount, tx.head, o) /\ Spaced(TxCount, tx.head) /\ tx.cur \in 0 .. TxCount - 1 /\ got.sent \in Nat
  BY CardTxFacts
<1>o. o # TxCount - 1
  BY Zenon, <1>1
<1> HIDE DEF o, l
<1>7. \A j \in 0 .. o : tx'.frame[Card!Nth(TxCount, tx.head, j)] = l + j + 1
  <2> TAKE j \in 0 .. o
  <2>1. CASE j = o
    BY <2>1, <1>3, <1>4, <1>f
  <2>2. CASE j # o
    <3>1. j \in 0 .. o - 1 /\ j \in 0 .. TxCount - 1
      BY <2>2, <1>f
    <3>2. Card!Nth(TxCount, tx.head, j) \in 0 .. TxCount - 1 /\ Card!Nth(TxCount, tx.head, j) # tx.cur
      BY Zenon, <2>2, <3>1, <1>f DEF Spaced
    <3> QED BY Zenon, <3>1, <3>2, <1>3, <1>4, <1>f
  <2> QED BY Zenon, <2>1, <2>2
<1>8. o + 1 <= TxCount - 1 /\ got.sent + 1 = l + o + 1 /\ o + 1 - 1 = o
  BY <1>o, <1>3, <1>f
<1> QED BY Zenon, <1>3, <1>4, <1>5, <1>6, <1>7, <1>8 DEF Card!Queued

\* e1000_send moves cur_tx and the tail on.
LEMMA CardKickStep == ASSUME Card!Sane, Card!Records, Card!Queued, NEW c \in Cpus, Card!Kick(c) PROVE Card!Queued'
<1> SUFFICES ASSUME bad' \cap {"overrun", "raced"} = {} PROVE Card!Queued'
  BY DEF Card!Queued
<1> DEFINE o == Card!Outstanding
           l == Len(got.wire)
<1>1. bad \cap {"overrun", "raced"} = {} /\ tx.at[c] = "filled" /\ got' = got
  BY DEF Card!Kick
<1>2. Card!Filled = 1
  BY Zenon, <1>1 DEF Card!Filled
<1>3. /\ tx.tail = tx.cur /\ got.sent = l + o + 1 /\ o + 1 <= TxCount - 1 /\ \A i \in 1 .. l : got.wire[i] = i
      /\ \A a, b \in Cpus : tx.at[a] = "filled" /\ tx.at[b] = "filled" => a = b
      /\ \A j \in 0 .. o + 1 - 1 : tx.frame[Card!Nth(TxCount, tx.head, j)] = l + j + 1
  BY <1>1, <1>2 DEF Card!Queued
<1>4. /\ tx'.head = tx.head /\ tx'.cur = Card!NextTx /\ tx'.tail = Card!NextTx /\ tx'.frame = tx.frame
      /\ tx'.at = [tx.at EXCEPT ![c] = "out"]
  BY Zenon DEF Card!Kick, Card!Records
<1>f. /\ l \in Nat /\ o \in 0 .. TxCount - 1 /\ TxCount \in Nat \ {0} /\ tx.head \in 0 .. TxCount - 1
      /\ tx.cur = Card!Nth(TxCount, tx.head, o) /\ Spaced(TxCount, tx.head) /\ Spaced(TxCount, tx.cur)
      /\ tx.at \in [Cpus -> {"out", "filled"}]
  BY Zenon, CardTxFacts
<1>5. Card!NextTx = Card!Nth(TxCount, tx.head, o + 1) /\ Card!NextTx \in 0 .. TxCount - 1 /\ o + 1 \in 0 .. TxCount - 1
  <2> HIDE DEF o, l
  <2>1. o \in 0 .. TxCount - 2 /\ o + 1 \in 0 .. TxCount - 1
    BY <1>3, <1>f
  <2>2. Card!NextTx = Card!Nth(TxCount, tx.cur, 1)
    BY Zenon, <1>f DEF Spaced, Card!NextTx
  <2>3. Card!Nth(TxCount, Card!Nth(TxCount, tx.head, o), 1) = Card!Nth(TxCount, tx.head, o + 1) /\ Card!Nth(TxCount, tx.head, o + 1) \in 0 .. TxCount - 1
    BY <2>1, <1>f DEF Spaced
  <2> QED BY Zenon, <2>1, <2>2, <2>3, <1>f
<1>6. Card!Outstanding' = o + 1 /\ Len(got'.wire) = l
  <2>1. (Card!NextTx - tx.head) % TxCount = o + 1
    <3> HIDE DEF o, l
    <3> QED BY Zenon, <1>5, <1>f, CardDistance
  <2> QED BY <2>1, <1>1, <1>4 DEF Card!Outstanding
<1>7. Card!Filled' = 0 /\ \A d \in Cpus : tx'.at[d] = "out"
  BY <1>1, <1>3, <1>4, <1>f DEF Card!Filled
<1> HIDE DEF o, l
<1>8. o + 1 + 0 = o + 1 /\ l + (o + 1) + 0 = l + o + 1 /\ o + 1 + 0 - 1 = o + 1 - 1
  BY <1>f
<1> QED BY <1>1, <1>3, <1>4, <1>6, <1>7, <1>8 DEF Card!Queued

\* The card puts the frame at its head on the wire.
LEMMA CardSendStep == ASSUME Card!Sane, Card!Records, Card!Queued, Card!CardSends PROVE Card!Queued'
<1> SUFFICES ASSUME bad' \cap {"overrun", "raced"} = {} PROVE Card!Queued'
  BY DEF Card!Queued
<1> DEFINE o == Card!Outstanding
           f == Card!Filled
           l == Len(got.wire)
           n == TxCount
<1>1. bad \cap {"overrun", "raced"} = {} /\ tx.head # tx.tail
  BY DEF Card!CardSends
<1>3. /\ tx.tail = tx.cur /\ got.sent = l + o + f /\ o + f <= n - 1 /\ \A i \in 1 .. l : got.wire[i] = i
      /\ \A a, b \in Cpus : tx.at[a] = "filled" /\ tx.at[b] = "filled" => a = b
      /\ \A j \in 0 .. o + f - 1 : tx.frame[Card!Nth(n, tx.head, j)] = l + j + 1
  BY <1>1 DEF Card!Queued
<1>4. /\ tx'.head = (tx.head + 1) % n /\ tx'.cur = tx.cur /\ tx'.tail = tx.tail /\ tx'.frame = tx.frame
      /\ tx'.at = tx.at /\ got'.sent = got.sent /\ got'.wire = Append(got.wire, tx.frame[tx.head])
  BY DEF Card!CardSends, Card!Records
<1>5. Card!Filled' = f
  BY Zenon, <1>4 DEF Card!Filled
<1>f. /\ l \in Nat /\ o \in 0 .. n - 1 /\ n \in Nat \ {0} /\ tx.head \in 0 .. n - 1 /\ f \in {0, 1}
      /\ tx.cur = Card!Nth(n, tx.head, o) /\ Spaced(n, tx.head) /\ tx.frame \in [0 .. n - 1 -> Nat]
      /\ got.wire \in Seq(Nat) /\ tx.cur \in 0 .. n - 1
  BY Zenon, CardTxFacts
<1>6. /\ Len(got'.wire) = l + 1 /\ got'.wire[l + 1] = tx.frame[tx.head]
      /\ \A i \in 1 .. l : got'.wire[i] = got.wire[i]
  <2>1. tx.frame[tx.head] \in Nat
    BY Zenon, <1>f
  <2> QED BY <2>1, <1>4, <1>f, Longer
<1>7. Card!Nth(n, tx.head, 0) = tx.head
  BY <1>f DEF Card!Nth
<1> HIDE DEF o, f, l, n
<1>8. o > 0
  BY <1>1, <1>3, <1>7, <1>f
<1>9. /\ tx'.head = Card!Nth(n, tx.head, 1) /\ tx'.head \in 0 .. n - 1
      /\ \A j \in 0 .. n - 2 : Card!Nth(n, tx'.head, j) = Card!Nth(n, tx.head, j + 1)
  <2>1. 1 \in 0 .. n - 1
    BY <1>8, <1>f
  <2>2. /\ (tx.head + 1) % n = Card!Nth(n, tx.head, 1) /\ Card!Nth(n, tx.head, 1) \in 0 .. n - 1
        /\ \A j \in 0 .. n - 2 : Card!Nth(n, Card!Nth(n, tx.head, 1), j) = Card!Nth(n, tx.head, j + 1)
    BY Zenon, <2>1, <1>f DEF Spaced
  <2>3. tx'.head = Card!Nth(n, tx.head, 1)
    BY Zenon, <2>2, <1>4
  <2> QED BY Zenon, <2>2, <2>3
<1>10. Card!Outstanding' = o - 1
  <2>1. o - 1 \in 0 .. n - 2 /\ o - 1 \in 0 .. n - 1 /\ (o - 1) + 1 = o
    BY <1>8, <1>f
  <2>2. tx.cur = Card!Nth(n, tx'.head, o - 1)
    BY <2>1, <1>9, <1>f
  <2>3. (tx.cur - tx'.head) % n = o - 1
    BY Zenon, <2>1, <2>2, <1>9, <1>f, CardDistance
  <2> QED BY <2>3, <1>4 DEF Card!Outstanding, n
<1>11. tx.frame[tx.head] = l + 1
  <2>1. 0 \in 0 .. o + f - 1
    BY <1>8, <1>f
  <2>2. tx.frame[Card!Nth(n, tx.head, 0)] = l + 0 + 1
    BY <2>1, <1>3
  <2>3. l + 0 + 1 = l + 1
    BY <1>f
  <2> QED BY Zenon, <2>2, <2>3, <1>7
<1>12. \A i \in 1 .. l + 1 : got'.wire[i] = i
  <2> TAKE i \in 1 .. l + 1
  <2>1. i = l + 1 \/ i \in 1 .. l
    BY <1>f
  <2>2. CASE i = l + 1
    BY Zenon, <2>2, <1>6, <1>11
  <2>3. CASE i \in 1 .. l
    BY Zenon, <2>3, <1>3, <1>6
  <2> QED BY Zenon, <2>1, <2>2, <2>3
<1>13. \A j \in 0 .. (o - 1) + f - 1 : tx.frame[Card!Nth(n, tx'.head, j)] = (l + 1) + j + 1
  <2> TAKE j \in 0 .. (o - 1) + f - 1
  <2>1. j + 1 \in 0 .. o + f - 1 /\ j \in 0 .. n - 2 /\ l + (j + 1) + 1 = (l + 1) + j + 1
    BY <1>3, <1>8, <1>f
  <2> QED BY <2>1, <1>3, <1>9
<1>14. (o - 1) + f <= n - 1 /\ got'.sent = (l + 1) + (o - 1) + f
  BY <1>3, <1>4, <1>f
<1> QED BY <1>3, <1>4, <1>5, <1>6, <1>10, <1>12, <1>13, <1>14 DEF Card!Queued, n

\* The card is set up with such a state.
LEMMA CardInitIInv == ASSUME Card!Sane, Card!Init PROVE Card!IInv
<1>1. Card!RxInv
  BY Zenon, CardInitRxInv
<1>2. TxCount \in Nat \ {0} /\ tx.cur = 0 /\ tx.head = 0 /\ tx.tail = 0 /\ tx.at = [c \in Cpus |-> "out"] /\ got.sent = 0 /\ got.wire = <<>>
  BY DEF Card!Sane, Card!Init, Card!e1000_init_tx
<1>3. Card!Outstanding = 0
  <2>1. 0 = Card!Nth(TxCount, 0, 0) /\ 0 \in 0 .. TxCount - 1
    BY <1>2 DEF Card!Nth
  <2> QED BY <2>1, <1>2, CardDistance DEF Card!Outstanding
<1>4. Card!Filled = 0
  BY <1>2 DEF Card!Filled
<1>5. Len(got.wire) = 0
  BY <1>2
<1> QED BY <1>1, <1>2, <1>3, <1>4, <1>5 DEF Card!IInv, Card!Queued

\* Every step of the card and the driver keeps it.
LEMMA CardNextIInv == ASSUME Card!Sane, Card!IInv, Card!Next PROVE Card!IInv'
<1>1. Card!RxInv /\ Card!Records /\ Card!Queued
  BY DEF Card!IInv, Card!RxInv
<1>2. CASE Card!CardReceives
  <2>1. tx' = tx /\ got'.sent = got.sent /\ got'.wire = got.wire /\ bad \subseteq bad' \cup {"window"}
    BY <1>1, <1>2 DEF Card!CardReceives, Card!Records
  <2> QED BY <2>1, <1>1, <1>2, CardCardStep, CardQueuedStays DEF Card!IInv
<1>3. CASE Card!Handle
  <2>1. tx' = tx /\ got'.sent = got.sent /\ got'.wire = got.wire /\ bad \subseteq bad' \cup {"window"}
    BY <1>1, <1>3 DEF Card!Handle, Card!Records
  <2> QED BY <2>1, <1>1, <1>3, CardHandleStep, CardQueuedStays DEF Card!IInv
<1>4. CASE Card!ReadCause \/ Card!LoopEnds \/ Card!WriteTail \/ Card!Acknowledge
  <2>1. tx' = tx /\ got' = got /\ bad \subseteq bad' \cup {"window"}
    BY Zenon, <1>4 DEF Card!ReadCause, Card!LoopEnds, Card!WriteTail, Card!Acknowledge
  <2> QED BY <2>1, <1>1, <1>4, CardIrqStep, CardQueuedStays DEF Card!IInv
<1>5. CASE Card!CardSends \/ \E c \in Cpus : Card!Fill(c) \/ Card!Kick(c)
  BY <1>1, <1>5, CardTxStep, CardFillStep, CardKickStep, CardSendStep DEF Card!IInv
<1> QED BY <1>2, <1>3, <1>4, <1>5 DEF Card!Next

\* So does a step of another part.
LEMMA CardStutterIInv == ASSUME Card!IInv, UNCHANGED Card!vars PROVE Card!IInv'
  BY Zenon DEF Card!vars, Card!IInv, Card!RxInv, Card!Records, Card!Order, Card!Contents, Card!Noticed, Card!Waiting, Card!Queued, Card!Outstanding, Card!Filled

\* What the invariant says of the rings.
LEMMA CardIInvSafe ==
  ASSUME Card!Sane, Card!IInv
  PROVE  Card!TypeOK /\ Card!FramesInOrder /\ Card!RingRefilled /\ Card!StrandedOnlyInWindow /\ Card!SentInOrder
<1>1. Card!Records /\ Card!Order /\ Card!Contents /\ Card!Noticed /\ Card!Queued
  BY DEF Card!IInv, Card!RxInv
<1>2. /\ got.accepted \in Nat /\ got.passed \in Seq(Nat) /\ Len(got.passed) \in Nat
      /\ Card!Waiting \in 0 .. RxCount - 1 /\ Card!Waiting = got.accepted - Len(got.passed)
      /\ rx.cur \in 0 .. RxCount - 1 /\ RxCount \in Nat /\ RxCount >= 2
  BY <1>1 DEF Card!Records, Card!Order, Card!Waiting, Card!Descriptors, Card!Sane
<1>3. Spaced(RxCount, rx.cur)
  BY <1>2, CardPlaces
<1>4. Card!TypeOK
  BY <1>1 DEF Card!TypeOK, Card!Records, Card!Descriptors
<1>5. Card!Nth(RxCount, rx.cur, 0) = rx.cur /\ 0 \in Card!Descriptors /\ RxCount - 1 # 0
  BY <1>2 DEF Card!Nth, Card!Descriptors
<1>6. Card!RingRefilled
  BY <1>1, <1>3, <1>2, <1>5 DEF Card!RingRefilled, Card!Order, Spaced
<1>7. Card!StrandedOnlyInWindow
  BY <1>1, <1>2, <1>5 DEF Card!StrandedOnlyInWindow, Card!Contents, Card!Noticed
<1>8. Card!FramesInOrder
  <2> DEFINE ring == Card!InRing(Card!Waiting)
  <2>1. \A i \in 1 .. Card!Waiting : ring[i] = Len(got.passed) + i
    <3> TAKE i \in 1 .. Card!Waiting
    <3>1. i - 1 \in 0 .. Card!Waiting - 1 /\ i - 1 \in 0 .. RxCount - 1 /\ rx.cur + i - 1 = rx.cur + (i - 1)
      BY <1>2
    <3>2. (rx.cur + i - 1) % RxCount = Card!Nth(RxCount, rx.cur, i - 1)
      BY <3>1, <1>3 DEF Spaced
    <3>3. rx.frame[Card!Nth(RxCount, rx.cur, i - 1)] = Len(got.passed) + (i - 1) + 1
      BY <3>1, <1>1 DEF Card!Contents
    <3> QED BY <3>2, <3>3, <1>2 DEF Card!InRing
  <2>2. ring = [i \in 1 .. Card!Waiting |-> ring[i]] /\ Card!Waiting \in Nat
    BY <1>2 DEF Card!InRing
  <2> HIDE DEF ring
  <2>3. got.passed \o ring = [i \in 1 .. Len(got.passed) + Card!Waiting |-> i]
    <3>1. \A i \in 1 .. Len(got.passed) : got.passed[i] = i
      BY <1>1 DEF Card!Contents
    <3> QED BY Zenon, <3>1, <2>1, <2>2, <1>2, CardCounting
  <2>4. Len(got.passed) + Card!Waiting = got.accepted
    BY <1>2
  <2> QED BY Zenon, <2>3, <2>4, <1>2 DEF Card!FramesInOrder, ring
<1>9. Card!SentInOrder
  <2> SUFFICES ASSUME bad \cap {"overrun", "raced"} = {} PROVE Card!SentInOrder
    BY Zenon DEF Card!SentInOrder
  <2> DEFINE m == Card!Outstanding + Card!Filled
             ring == [i \in 1 .. m |-> tx.frame[(tx.head + i - 1) % TxCount]]
  <2>0. /\ Card!Outstanding + Card!Filled <= TxCount - 1 /\ got.sent = Len(got.wire) + Card!Outstanding + Card!Filled
        /\ \A i \in 1 .. Len(got.wire) : got.wire[i] = i
        /\ \A j \in 0 .. Card!Outstanding + Card!Filled - 1 : tx.frame[Card!Nth(TxCount, tx.head, j)] = Len(got.wire) + j + 1
    BY Zenon, <1>1 DEF Card!Queued
  <2>2. /\ TxCount \in Nat /\ tx.head \in 0 .. TxCount - 1 /\ Len(got.wire) \in Nat /\ got.wire \in Seq(Nat)
        /\ Spaced(TxCount, tx.head) /\ Card!Outstanding \in Nat /\ Card!Filled \in Nat
    <3>1. Card!Outstanding \in 0 .. TxCount - 1 /\ Card!Filled \in {0, 1} /\ TxCount \in Nat
      BY Zenon, <1>1, CardTxFacts
    <3> QED BY <3>1, <1>1, CardTxFacts
  <2>1. /\ m \in Nat /\ m <= TxCount - 1 /\ got.sent = Len(got.wire) + m
        /\ \A i \in 1 .. Len(got.wire) : got.wire[i] = i
        /\ \A j \in 0 .. m - 1 : tx.frame[Card!Nth(TxCount, tx.head, j)] = Len(got.wire) + j + 1
    <3>1. m \in Nat /\ Card!Outstanding + Card!Filled - 1 = m - 1
      BY <2>2
    <3>2. Len(got.wire) + Card!Outstanding + Card!Filled = Len(got.wire) + m
      <4>1. \A a, b, c \in Nat : a + b + c = a + (b + c)
        OBVIOUS
      <4> QED BY Zenon, <4>1, <2>2
    <3> QED BY <2>0, <3>1, <3>2
  <2> HIDE DEF m
  <2>3. \A i \in 1 .. m : ring[i] = Len(got.wire) + i
    <3> TAKE i \in 1 .. m
    <3>1. i - 1 \in 0 .. m - 1 /\ i - 1 \in 0 .. TxCount - 1 /\ tx.head + i - 1 = tx.head + (i - 1)
      BY <2>1, <2>2
    <3>2. (tx.head + i - 1) % TxCount = Card!Nth(TxCount, tx.head, i - 1)
      BY Zenon, <3>1, <2>2 DEF Spaced
    <3>3. tx.frame[Card!Nth(TxCount, tx.head, i - 1)] = Len(got.wire) + (i - 1) + 1
      BY <3>1, <2>1
    <3> QED BY <3>2, <3>3, <2>2
  <2>4. ring = [i \in 1 .. m |-> ring[i]]
    OBVIOUS
  <2> HIDE DEF ring
  <2>5. got.wire \o ring = [i \in 1 .. Len(got.wire) + m |-> i]
    BY Zenon, <2>1, <2>2, <2>3, <2>4, CardCounting
  <2>6. got.wire \o ring = [i \in 1 .. got.sent |-> i]
    BY <2>1, <2>2, <2>5
  <2> QED BY Zenon, <2>6 DEF Card!SentInOrder, ring, m
<1> QED BY <1>4, <1>6, <1>7, <1>8, <1>9
-----------------------------------------------------------------------------
(* What holds in every state, for all Sane constants.                      *)

VARIABLE which

\* The card never writes over a frame that the driver has not handled, all are
\* passed on once and in order, the card gets its descriptors back, and a frame is
\* left without an interrupt only in the window of e1000_irq.  Frames are sent once
\* and in order without an overrun and without two CPUs in e1000_send.
RingsSafe ==
    /\ Card!TypeOK /\ Card!FramesInOrder /\ Card!RingRefilled /\ Card!StrandedOnlyInWindow
    /\ Card!SentInOrder

\* A sender drops out of the wait table only when an address behind its own in the
\* same chain is answered (arp_add_entry), and one that is woken finds its entry
\* (arp_search), up to the first time that arp_lock lets two in together.  On one
\* CPU it never does, and no listed sender waits for an address that is known.
SendersListed ==
    /\ Arp(1)!TypeOK /\ Arp(1)!DroppedOnlyByOlder /\ Arp(1)!WokenFinds
    /\ which = "arp" => Arp(1)!NoReplyMissed /\ Arp(1)!Unshared
-----------------------------------------------------------------------------
\* Every frame that the card accepts is passed on once and in order and none is
\* overwritten, the card gets its descriptors back, and a frame is left without an
\* interrupt only in the window of e1000_irq; frames are sent once and in order
\* while the ring is not overrun: for rings of any size, any number of frames and CPUs.
THEOREM RingsAreSafe == Card!Spec => []RingsSafe
<1>1. Card!Init => Card!IInv
  BY CardSane, CardInitIInv
<1>2. Card!IInv /\ [Card!Next]_(Card!vars) => Card!IInv'
  BY CardSane, CardNextIInv, CardStutterIInv
<1>3. Card!IInv => RingsSafe
  BY CardSane, CardIInvSafe DEF RingsSafe
<1> QED BY <1>1, <1>2, <1>3, PTL DEF Card!Spec

\* Whoever waits for a hardware address is in the wait table or was cut off by an
\* older entry's answer, and finds the entry when it is woken, on any number of
\* CPUs, up to the first time that two are inside arp_lock together; on one CPU
\* they never are, and nobody in the table waits for what is known.
THEOREM SendersAreListed ==
  ASSUME NEW N \in Nat
  PROVE  Arp(N)!Spec /\ [](which = "arp" => N = 1) => []SendersListed
<1>0. Arp(N)!Sane
  BY ArpSane DEF Arp!Sane, Arp!Irq
<1>1. Arp(N)!Init => Arp(N)!IInv
  BY <1>0, ArpInitIInv
<1>2. Arp(N)!IInv /\ [Arp(N)!Next]_(Arp(N)!vars) => Arp(N)!IInv'
  BY <1>0, ArpNextIInv, ArpStutterIInv
<1>3. Arp(N)!IInv /\ (which = "arp" => N = 1) => SendersListed
  <2> SUFFICES ASSUME Arp(N)!IInv, which = "arp" => N = 1 PROVE SendersListed
    OBVIOUS
  <2>1. Arp(N)!TypeOK /\ Arp(N)!DroppedOnlyByOlder /\ Arp(N)!NoReplyMissed /\ Arp(N)!WokenFinds /\ Arp(N)!Unshared
    BY <1>0, ArpIInvSafe
  <2>2. Arp(1)!TypeOK /\ Arp(1)!WokenFinds
    BY Zenon, <2>1 DEF Arp!TypeOK, Arp!WokenFinds, Arp!Sections
  <2>3. Arp(1)!DroppedOnlyByOlder
    BY <2>1 DEF Arp!DroppedOnlyByOlder, Arp!Asleep, Arp!Listed, Arp!Place, Arp!Hash, Arp!arp_get_entry
  <2> QED BY <2>1, <2>2, <2>3 DEF SendersListed
<1> QED BY <1>1, <1>2, <1>3, PTL DEF Arp!Spec
=============================================================================
