-------------------------------- MODULE Sockets -----------------------------
(***************************************************************************)
(* Sockets: what is proved of raw sockets (Ping), of the wait for a packet *)
(* (Receive) and of the client that configures the interface (Dhcp), which *)
(* share no variable.  For each the invariant IInv of its module holds in  *)
(* the initial states, every step keeps it, and the properties follow from *)
(* it, for all values of the constants that are Sane.  Net puts them       *)
(* beside Interface, for TLC.                                              *)
(***************************************************************************)
EXTENDS Integers, Sequences, TLAPS

(* Sequences.                                                              *)

\* A list with an element more.
LEMMA AppendIs ==
  ASSUME NEW S, NEW q \in Seq(S), NEW x \in S
  PROVE  /\ Append(q, x) \in Seq(S) /\ Len(Append(q, x)) = Len(q) + 1 /\ Append(q, x) # <<>>
         /\ \A i \in 1 .. Len(q) : Append(q, x)[i] = q[i]
         /\ Append(q, x)[Len(q) + 1] = x
  OBVIOUS

\* A list without its first element.
LEMMA TailIs ==
  ASSUME NEW S, NEW q \in Seq(S), q # <<>>
  PROVE  /\ Len(q) >= 1 /\ Head(q) \in S /\ Head(q) = q[1]
         /\ Tail(q) \in Seq(S) /\ Len(Tail(q)) = Len(q) - 1
         /\ \A i \in 1 .. Len(q) - 1 : Tail(q)[i] = q[i + 1]
  OBVIOUS

\* One list behind another.
LEMMA ConcatIs ==
  ASSUME NEW S, NEW q \in Seq(S), NEW r \in Seq(S)
  PROVE  /\ q \o r \in Seq(S) /\ Len(q \o r) = Len(q) + Len(r)
         /\ \A i \in 1 .. Len(q) : (q \o r)[i] = q[i]
         /\ \A i \in 1 .. Len(r) : (q \o r)[Len(q) + i] = r[i]
  OBVIOUS

\* What is behind the first m elements.
LEMMA SubSeqIs ==
  ASSUME NEW S, NEW q \in Seq(S), NEW m \in Nat, m <= Len(q)
  PROVE  /\ SubSeq(q, m + 1, Len(q)) \in Seq(S) /\ Len(SubSeq(q, m + 1, Len(q))) = Len(q) - m
         /\ \A i \in 1 .. Len(q) - m : SubSeq(q, m + 1, Len(q))[i] = q[m + i]
  OBVIOUS

\* Lists with the same elements.
LEMMA SeqsEqual ==
  ASSUME NEW S, NEW q \in Seq(S), NEW r \in Seq(S), Len(q) = Len(r), \A i \in 1 .. Len(q) : q[i] = r[i]
  PROVE  q = r
  OBVIOUS

\* A list with an element replaced.
LEMMA PutIs ==
  ASSUME NEW S, NEW q \in Seq(S), NEW p \in 1 .. Len(q), NEW x \in S, NEW r, r = [q EXCEPT ![p] = x]
  PROVE  /\ r \in Seq(S) /\ Len(r) = Len(q) /\ DOMAIN r = 1 .. Len(q) /\ r[p] = x
         /\ \A i \in 1 .. Len(q) : i # p => r[i] = q[i]
  OBVIOUS
-----------------------------------------------------------------------------
(* Raw sockets and ping: ipv4_raw.c, ping.c.                               *)

CONSTANTS Procs, Starts, Rounds, MaxArrived

VARIABLES socket_list, raw_queue, ping_pc, seq, sent, ping_net, raw_arrived, heard, since, foreign,
          ping_lost

Ping == INSTANCE Ping WITH recv_queue <- raw_queue, arrived <- raw_arrived, pc <- ping_pc,
                           net <- ping_net, lost <- ping_lost

ASSUME PingSane == Ping!Sane

\* A word.
LEMMA PingHalfIs == Ping!Half \in Nat \ {0} /\ 2 <= Ping!Half /\ Ping!Half <= 65536
  BY SMT DEF Ping!Half

\* The checksum that ping computes verifies but for two numbers: below, no carry comes after
\* the first fold, and above them the second takes it.
LEMMA PingIntChecksum ==
  ASSUME NEW n \in Int, 0 <= n, n <= 65535
  PROVE  Ping!Verifies(n) <=> n \notin {238, 239}
<1> DEFINE s == Ping!WordSum(n)
           f == Ping!FoldOnce(s)
<1>1. s = 196368 + n
  <2>1. Ping!PayloadSum = 194320
    <3>1. (27 * 28) \div 2 = 378
      BY SMT
    <3> QED BY SMT, <3>1 DEF Ping!PayloadSum
  <2> QED BY SMT, <2>1 DEF Ping!WordSum
<1> HIDE DEF s
<1>2. CASE n < 240
  <2>1. s \div 65536 = 2 /\ s % 65536 = 65296 + n
    BY SMT, <1>1, <1>2
  <2>2. f = (65298 + n) % 65536
    BY SMT, <1>1, <2>1 DEF Ping!FoldOnce, Ping!Half
  <2>3. CASE n < 238
    <3>1. s + (65535 - f) = 3 * 65535
      BY SMT, <1>1, <2>2, <2>3
    <3>2. s + Ping!icmp_checksum(n) = 3 * 65535
      BY SMT, <3>1 DEF Ping!icmp_checksum, Ping!Half, s
    <3>3. (3 * 65535) % 65535 = 0
      BY SMT
    <3> QED BY SMT, <1>1, <2>3, <3>2, <3>3 DEF Ping!Verifies, Ping!Half, s
  <2>4. CASE n \in {238, 239}
    <3>1. s + (65535 - f) = 3 * 65535 + 65536
      BY SMT, <1>1, <2>2, <2>4
    <3>2. s + Ping!icmp_checksum(n) = 3 * 65535 + 65536
      BY SMT, <3>1 DEF Ping!icmp_checksum, Ping!Half, s
    <3>3. (3 * 65535 + 65536) % 65535 = 1
      BY SMT
    <3> QED BY SMT, <1>1, <2>4, <3>2, <3>3 DEF Ping!Verifies, Ping!Half, s
  <2> QED BY SMT, <1>1, <1>2, <2>3, <2>4
<1>3. CASE n >= 240
  <2>1. s \div 65536 = 3 /\ s % 65536 = n - 240
    BY SMT, <1>1, <1>3
  <2>2. f = n - 237
    <3>1. (n - 237) % 65536 = n - 237
      BY SMT, <1>1, <1>3
    <3>2. s >= 65536
      BY SMT, <1>1
    <3>3. f = (3 + (n - 240)) % 65536
      BY SMT, <2>1, <3>2 DEF Ping!FoldOnce, Ping!Half
    <3>4. 3 + (n - 240) = n - 237
      BY SMT, <1>1
    <3> QED BY SMT, <3>1, <3>3, <3>4
  <2>3. s + Ping!icmp_checksum(n) = 4 * 65535
    BY SMT, <1>1, <2>2 DEF Ping!icmp_checksum, Ping!Half, s
  <2>4. (4 * 65535) % 65535 = 0
    BY SMT
  <2> QED BY SMT, <1>1, <1>3, <2>3, <2>4 DEF Ping!Verifies, Ping!Half, s
<1> QED BY SMT, <1>1, <1>2, <1>3

\* So does every request with a word for its number.
LEMMA PingChecksum ==
  ASSUME NEW n \in 0 .. Ping!Half - 1
  PROVE  Ping!Verifies(n) <=> n \notin {238, 239}
<1>1. \A h \in Nat : h <= 65536 => \A m \in 0 .. h - 1 : m \in Int /\ 0 <= m /\ m <= 65535
  BY SMT
<1>2. n \in Int /\ 0 <= n /\ n <= 65535
  BY <1>1, PingHalfIs
<1> QED BY <1>2, PingIntChecksum

\* Words have 16 bits.
LEMMA PingModHalf == ASSUME NEW k \in Int PROVE k % Ping!Half \in 0 .. Ping!Half - 1
  BY SMT, PingHalfIs

\* A copy stays one when its first packet is read.
LEMMA PingCopyRead ==
  ASSUME NEW S, NEW a \in Seq(S), NEW s \in Nat, NEW h \in Seq(S), NEW q \in Seq(S), q # <<>>, Ping!Copy(a, s, h, q)
  PROVE  Ping!Copy(a, s, Append(h, Head(q)), Tail(q))
<1> DEFINE g == Append(h, Head(q))
           t == Tail(q)
<1>1. Len(a) \in Nat /\ Len(h) \in Nat /\ Len(q) \in Nat
  OBVIOUS
<1>2. /\ s + Len(h) + Len(q) = Len(a)
      /\ \A i \in 1 .. Len(h) : h[i] = a[s + i]
      /\ \A i \in 1 .. Len(q) : q[i] = a[s + Len(h) + i]
  BY DEF Ping!Copy
<1>3. /\ Len(q) >= 1 /\ Len(g) = Len(h) + 1 /\ Len(t) = Len(q) - 1
      /\ \A i \in 1 .. Len(h) : g[i] = h[i]
      /\ g[Len(h) + 1] = q[1]
      /\ \A i \in 1 .. Len(q) - 1 : t[i] = q[i + 1]
  BY AppendIs, TailIs
<1> HIDE DEF g, t
<1>4. s + Len(g) + Len(t) = Len(a)
  <2>1. Len(g) = Len(h) + 1 /\ Len(t) = Len(q) - 1 /\ s + Len(h) + Len(q) = Len(a)
    BY <1>2, <1>3
  <2> QED BY <1>1, <2>1
<1>5. ASSUME NEW i \in 1 .. Len(g) PROVE g[i] = a[s + i]
  <2>1. CASE i \in 1 .. Len(h)
    BY <1>2, <1>3, <2>1
  <2>2. CASE i = Len(h) + 1
    <3>1. q[1] = a[s + Len(h) + 1]
      BY <1>1, <1>2, <1>3
    <3>2. s + Len(h) + 1 = s + i
      BY <1>1, <2>2
    <3> QED BY <1>3, <2>2, <3>1, <3>2
  <2> QED BY <1>1, <1>3, <2>1, <2>2
<1>6. ASSUME NEW i \in 1 .. Len(t) PROVE t[i] = a[s + Len(g) + i]
  <2>1. i + 1 \in 1 .. Len(q) /\ i \in 1 .. Len(q) - 1
    BY <1>1, <1>3
  <2>2. q[i + 1] = a[s + Len(h) + (i + 1)]
    BY <1>2, <2>1
  <2>3. s + Len(h) + (i + 1) = s + Len(g) + i
    BY <1>1, <1>3
  <2> QED BY <1>3, <2>1, <2>2, <2>3
<1>7. Ping!Copy(a, s, g, t)
  BY <1>4, <1>5, <1>6 DEF Ping!Copy
<1> QED BY <1>7 DEF g, t

\* A copy stays one when a packet arrives.
LEMMA PingCopyArrives ==
  ASSUME NEW S, NEW a \in Seq(S), NEW s \in Nat, NEW h \in Seq(S), NEW q \in Seq(S), NEW m \in S, Ping!Copy(a, s, h, q)
  PROVE  Ping!Copy(Append(a, m), s, h, Append(q, m))
<1> DEFINE b == Append(a, m)
           t == Append(q, m)
<1>1. Len(a) \in Nat /\ Len(h) \in Nat /\ Len(q) \in Nat
  OBVIOUS
<1>2. /\ s + Len(h) + Len(q) = Len(a)
      /\ \A i \in 1 .. Len(h) : h[i] = a[s + i]
      /\ \A i \in 1 .. Len(q) : q[i] = a[s + Len(h) + i]
  BY DEF Ping!Copy
<1>3. /\ Len(b) = Len(a) + 1 /\ Len(t) = Len(q) + 1
      /\ \A i \in 1 .. Len(a) : b[i] = a[i]
      /\ \A i \in 1 .. Len(q) : t[i] = q[i]
      /\ b[Len(a) + 1] = m /\ t[Len(q) + 1] = m
  BY AppendIs
<1> HIDE DEF b, t
<1>4. s + Len(h) + Len(t) = Len(b)
  <2>1. Len(b) = Len(a) + 1 /\ Len(t) = Len(q) + 1 /\ s + Len(h) + Len(q) = Len(a)
    BY <1>2, <1>3
  <2> QED BY <1>1, <2>1
<1>5. ASSUME NEW i \in 1 .. Len(h) PROVE h[i] = b[s + i]
  <2>1. s + i \in 1 .. Len(a)
    BY <1>1, <1>2
  <2> QED BY <1>2, <1>3, <2>1
<1>6. ASSUME NEW i \in 1 .. Len(t) PROVE t[i] = b[s + Len(h) + i]
  <2>1. CASE i \in 1 .. Len(q)
    <3>1. s + Len(h) + i \in 1 .. Len(a)
      BY <1>1, <1>2, <2>1
    <3> QED BY <1>2, <1>3, <2>1, <3>1
  <2>2. CASE i = Len(q) + 1
    <3>1. s + Len(h) + i = Len(a) + 1
      BY <1>1, <1>2, <2>2
    <3> QED BY <1>3, <2>2, <3>1
  <2> QED BY <1>1, <1>3, <2>1, <2>2
<1>7. Ping!Copy(b, s, h, t)
  BY <1>4, <1>5, <1>6 DEF Ping!Copy
<1> QED BY <1>7 DEF b, t

\* A copy pointwise is the copy as a list.
LEMMA PingCopyIs ==
  ASSUME NEW S, NEW a \in Seq(S), NEW s \in Nat, NEW h \in Seq(S), NEW q \in Seq(S), Ping!Copy(a, s, h, q)
  PROVE  h \o q = SubSeq(a, s + 1, Len(a))
<1> DEFINE all == h \o q
           sub == SubSeq(a, s + 1, Len(a))
<1>1. Len(a) \in Nat /\ Len(h) \in Nat /\ Len(q) \in Nat
  OBVIOUS
<1>2. /\ s + Len(h) + Len(q) = Len(a)
      /\ \A i \in 1 .. Len(h) : h[i] = a[s + i]
      /\ \A i \in 1 .. Len(q) : q[i] = a[s + Len(h) + i]
  BY DEF Ping!Copy
<1>3. /\ all \in Seq(S) /\ Len(all) = Len(h) + Len(q)
      /\ \A i \in 1 .. Len(h) : all[i] = h[i]
      /\ \A i \in 1 .. Len(q) : all[Len(h) + i] = q[i]
  BY ConcatIs
<1>4. s <= Len(a) /\ Len(a) - s = Len(h) + Len(q)
  BY <1>1, <1>2
<1>5. /\ sub \in Seq(S) /\ Len(sub) = Len(h) + Len(q)
      /\ \A i \in 1 .. Len(h) + Len(q) : sub[i] = a[s + i]
  BY <1>4, SubSeqIs
<1> HIDE DEF all, sub
<1>6. ASSUME NEW i \in 1 .. Len(all) PROVE all[i] = sub[i]
  <2>1. CASE i <= Len(h)
    <3>1. i \in 1 .. Len(h) /\ i \in 1 .. Len(h) + Len(q)
      BY <1>1, <2>1
    <3> QED BY Zenon, <1>2, <1>3, <1>5, <3>1
  <2>2. CASE i > Len(h)
    <3>1. i - Len(h) \in 1 .. Len(q) /\ i = Len(h) + (i - Len(h)) /\ i \in 1 .. Len(h) + Len(q)
      BY <1>1, <1>3, <2>2
    <3>2. PICK k \in 1 .. Len(q) : i = Len(h) + k
      BY Zenon, <3>1
    <3>3. all[i] = a[s + Len(h) + k] /\ s + Len(h) + k = s + i
      BY <1>1, <1>2, <1>3, <3>2
    <3> QED BY <1>5, <3>1, <3>3
  <2> QED BY <1>1, <2>1, <2>2
<1>7. all = sub
  BY <1>3, <1>5, <1>6, SeqsEqual
<1> QED BY <1>7 DEF all, sub

\* No raw socket is open.
LEMMA PingInitIInv == ASSUME Ping!Sane, Ping!Init PROVE Ping!IInv
<1>1. seq \in [Procs -> 0 .. Ping!Half - 1]
  BY DEF Ping!Init, Ping!Sane
<1>2. Ping!Types
  BY <1>1 DEF Ping!Init, Ping!Types, Ping!TypeOK, Ping!Sane
<1>3. Ping!Listed /\ Ping!Copies
  BY DEF Ping!Init, Ping!Listed, Ping!Copies
<1>4. Ping!Turns
  BY DEF Ping!Init, Ping!Turns, Ping!Silent
<1> QED BY <1>2, <1>3, <1>4 DEF Ping!IInv

\* The types and the lists of a socket.
LEMMA PingFacts ==
  ASSUME Ping!Sane
  PROVE  /\ 0 \in 0 .. Ping!Half - 1 /\ Ping!Foreign \in Ping!Messages /\ Ping!Foreign.of \notin Procs
         /\ \A p \in Procs, n \in 0 .. Ping!Half - 1 :
               /\ Ping!Echo(p, n) \in Ping!Messages /\ Ping!Echo(p, n).of = p /\ Ping!Echo(p, n).seq = n
               /\ Ping!Reply(p, n) \in Ping!Messages /\ Ping!Reply(p, n).of = p /\ Ping!Reply(p, n).seq = n
               /\ Ping!Echo(p, n) # Ping!Reply(p, n) /\ Ping!Foreign # Ping!Reply(p, n)
<1>1. 0 \in 0 .. Ping!Half - 1 /\ 1 \in 0 .. Ping!Half - 1
  BY SMT, PingHalfIs
<1>2. Ping!Foreign \in Ping!Messages /\ Ping!Foreign.of = 0
  BY <1>1 DEF Ping!Foreign, Ping!Messages
<1>3. ASSUME NEW p \in Procs, NEW n \in 0 .. Ping!Half - 1
      PROVE  /\ Ping!Echo(p, n) \in Ping!Messages /\ Ping!Echo(p, n).of = p /\ Ping!Echo(p, n).seq = n
             /\ Ping!Reply(p, n) \in Ping!Messages /\ Ping!Reply(p, n).of = p /\ Ping!Reply(p, n).seq = n
             /\ Ping!Echo(p, n) # Ping!Reply(p, n) /\ Ping!Foreign # Ping!Reply(p, n)
  <2> HIDE DEF Ping!Half
  <2>1. Ping!Echo(p, n) \in Ping!Messages /\ Ping!Reply(p, n) \in Ping!Messages
    BY DEF Ping!Messages, Ping!Echo, Ping!Reply
  <2>2. Ping!Echo(p, n).type # Ping!Reply(p, n).type /\ Ping!Foreign.type # Ping!Reply(p, n).type
    BY DEF Ping!Echo, Ping!Reply, Ping!Foreign
  <2> QED BY <2>1, <2>2 DEF Ping!Echo, Ping!Reply
<1>4. Ping!Foreign.of \notin Procs
  BY <1>2 DEF Ping!Sane
<1> QED BY ONLY <1>1, <1>2, <1>3, <1>4, Zenon

\* ipv4_raw_create_socket.
LEMMA PingCreates == ASSUME Ping!Sane, Ping!IInv, NEW p \in Procs, Ping!ipv4_raw_create_socket(p) PROVE Ping!IInv'
<1> USE DEF Ping!ipv4_raw_create_socket
<1>1. Ping!Types'
  BY DEF Ping!IInv, Ping!Types, Ping!TypeOK
<1>2. Ping!Listed'
  BY DEF Ping!IInv, Ping!Types, Ping!TypeOK, Ping!Listed
<1>3. Ping!Copies'
  <2> SUFFICES ASSUME NEW r \in socket_list' PROVE Ping!Copies!(r)'
    BY DEF Ping!Copies
  <2>1. CASE r = p
    <3>1. heard[p] = <<>> /\ raw_queue[p] = <<>> /\ since'[p] = Len(raw_arrived) /\ Len(raw_arrived) \in Nat
      BY DEF Ping!IInv, Ping!Turns, Ping!Types
    <3> QED BY <2>1, <3>1 DEF Ping!Copy
  <2>2. CASE r # p
    <3>1. r \in socket_list /\ r \in Procs
      BY <2>2 DEF Ping!IInv, Ping!Types, Ping!TypeOK
    <3> QED BY <2>2, <3>1 DEF Ping!IInv, Ping!Copies, Ping!Types
  <2> QED BY <2>1, <2>2
<1>4. Ping!Turns'
  BY DEF Ping!IInv, Ping!Types, Ping!TypeOK, Ping!Turns, Ping!Silent
<1> QED BY <1>1, <1>2, <1>3, <1>4 DEF Ping!IInv

\* ipv4_raw_sendto, with the next request.
LEMMA PingSends == ASSUME Ping!Sane, Ping!IInv, NEW p \in Procs, Ping!ipv4_raw_sendto(p) PROVE Ping!IInv'
<1> USE DEF Ping!ipv4_raw_sendto
<1> DEFINE n == (seq[p] + 1) % Ping!Half
<1>1. n \in 0 .. Ping!Half - 1 /\ seq'[p] = n /\ seq' = [seq EXCEPT ![p] = n]
  <2>1. seq[p] \in Int /\ 0 <= seq[p]
    BY DEF Ping!IInv, Ping!Types, Ping!TypeOK
  <2>2. n \in 0 .. Ping!Half - 1
    BY <2>1, PingModHalf
  <2> QED BY <2>2 DEF Ping!IInv, Ping!Types, Ping!TypeOK
<1> HIDE DEF n
<1>2. Ping!Types'
  BY <1>1, PingFacts DEF Ping!IInv, Ping!Types, Ping!TypeOK, Ping!Sane
<1>3. Ping!Listed'
  BY DEF Ping!IInv, Ping!Types, Ping!TypeOK, Ping!Listed
<1>4. Ping!Copies'
  BY DEF Ping!IInv, Ping!Copies
<1>5. Ping!Turns'
  <2> SUFFICES ASSUME NEW q \in Procs PROVE Ping!Turns!(q)'
    BY DEF Ping!Turns
  <2>1. CASE q = p
    <3>1. CASE p \notin foreign
      <4>1. Ping!Silent(p) /\ raw_queue[p] = <<>>
        BY <3>1 DEF Ping!IInv, Ping!Turns
      <4>2. \A m \in ping_net' : m.of = p => m = Ping!Echo(p, n)
        BY <1>1, <4>1 DEF Ping!Silent
      <4>3. Ping!Echo(p, n).seq = n /\ Ping!Echo(p, n) # Ping!Reply(p, n) /\ Ping!Reply(p, n).of = p
        BY <1>1, PingFacts
      <4> QED BY <1>1, <2>1, <4>1, <4>2, <4>3 DEF Ping!IInv, Ping!Types, Ping!TypeOK
    <3>2. CASE p \in foreign
      BY <2>1, <3>2 DEF Ping!IInv, Ping!Types, Ping!TypeOK
    <3> QED BY <3>1, <3>2
  <2>2. CASE q # p
    <3>1. seq'[q] = seq[q] /\ ping_pc'[q] = ping_pc[q]
      BY <1>1, <2>2 DEF Ping!IInv, Ping!Types, Ping!TypeOK
    <3>2. \A m \in ping_net' : m.of = q => m \in ping_net
      BY <1>1, <2>2, PingFacts
    <3>3. seq[q] \in 0 .. Ping!Half - 1
      BY DEF Ping!IInv, Ping!Types, Ping!TypeOK
    <3>4. /\ Ping!Echo(q, seq[q]) \in ping_net' => Ping!Echo(q, seq[q]) \in ping_net
          /\ Ping!Reply(q, seq[q]) \in ping_net' => Ping!Reply(q, seq[q]) \in ping_net
      BY <3>2, <3>3, PingFacts
    <3> QED BY <3>1, <3>2, <3>4 DEF Ping!IInv, Ping!Turns, Ping!Silent
  <2> QED BY <2>1, <2>2
<1> QED BY <1>2, <1>3, <1>4, <1>5 DEF Ping!IInv

\* ping reads a packet of its socket.
LEMMA PingReceives == ASSUME Ping!Sane, Ping!IInv, NEW p \in Procs, Ping!Recv(p) PROVE Ping!IInv'
<1> USE DEF Ping!Recv
<1> DEFINE q == raw_queue[p]
           h == heard[p]
<1>1. /\ q \in Seq(Ping!Messages) /\ q # <<>> /\ h \in Seq(Ping!Messages) /\ Len(h) \in Nat /\ Len(q) \in Nat /\ Len(q) > 0
  BY DEF Ping!IInv, Ping!Types
<1>2. /\ raw_queue'[p] = Tail(q) /\ heard'[p] = Append(h, Head(q))
      /\ \A r \in Procs : r # p => raw_queue'[r] = raw_queue[r] /\ heard'[r] = heard[r]
  BY DEF Ping!IInv, Ping!Types
<1>3. /\ Tail(q) \in Seq(Ping!Messages) /\ Len(Tail(q)) = Len(q) - 1 /\ Head(q) \in Ping!Messages /\ Head(q) = q[1]
      /\ \A i \in 1 .. Len(q) - 1 : Tail(q)[i] = q[i + 1]
  BY <1>1, TailIs
<1>4. /\ Append(h, Head(q)) \in Seq(Ping!Messages) /\ Len(Append(h, Head(q))) = Len(h) + 1
      /\ \A i \in 1 .. Len(h) : Append(h, Head(q))[i] = h[i]
      /\ Append(h, Head(q))[Len(h) + 1] = q[1]
  BY <1>1, <1>3, AppendIs
<1>5. Ping!Types'
  BY <1>3, <1>4 DEF Ping!IInv, Ping!Types, Ping!TypeOK
<1>6. Ping!Listed'
  BY DEF Ping!IInv, Ping!Types, Ping!TypeOK, Ping!Listed
<1>7. Ping!Copies'
  <2> SUFFICES ASSUME NEW r \in socket_list PROVE Ping!Copies!(r)'
    BY DEF Ping!Copies
  <2>1. CASE r # p
    <3>1. r \in Procs
      BY DEF Ping!IInv, Ping!Types, Ping!TypeOK
    <3> QED BY <1>2, <2>1, <3>1 DEF Ping!IInv, Ping!Copies
  <2>2. CASE r = p
    <3>1. Ping!Copy(raw_arrived, since[p], heard[p], raw_queue[p]) /\ since[p] \in Nat /\ raw_arrived \in Seq(Ping!Messages)
      BY <2>2 DEF Ping!IInv, Ping!Copies, Ping!Types
    <3>2. Ping!Copy(raw_arrived, since[p], Append(h, Head(q)), Tail(q))
      BY <1>1, <3>1, PingCopyRead
    <3> QED BY <1>2, <2>2, <3>2
  <2> QED BY <2>1, <2>2
<1>8. Ping!Turns'
  <2> SUFFICES ASSUME NEW r \in Procs PROVE Ping!Turns!(r)'
    BY DEF Ping!Turns
  <2>1. CASE r # p
    BY <1>2, <2>1 DEF Ping!IInv, Ping!Turns, Ping!Silent, Ping!Types, Ping!TypeOK
  <2>2. CASE r = p
    <3>1. CASE p \in foreign
      BY <2>2, <3>1 DEF Ping!IInv, Ping!Types, Ping!TypeOK
    <3>2. CASE p \notin foreign
      <4>1. q = <<Ping!Reply(p, seq[p])>> /\ Ping!Silent(p)
        BY <1>1, <3>2 DEF Ping!IInv, Ping!Turns
      <4>2. Tail(q) = <<>> /\ q[1] = Ping!Reply(p, seq[p])
        BY <4>1
      <4>3. heard'[p][Len(heard'[p])] = Ping!Reply(p, seq[p])
        BY <1>2, <1>4, <4>2
      <4>4. Ping!Silent(p)' /\ raw_queue'[p] = <<>> /\ seq' = seq /\ ping_pc'[p] = "send"
        BY <1>2, <4>1, <4>2 DEF Ping!Silent, Ping!IInv, Ping!Types, Ping!TypeOK
      <4> QED BY <2>2, <4>3, <4>4
    <3> QED BY <3>1, <3>2
  <2> QED BY <2>1, <2>2
<1> QED BY <1>5, <1>6, <1>7, <1>8 DEF Ping!IInv

\* ipv4_raw_release.
LEMMA PingReleases == ASSUME Ping!Sane, Ping!IInv, NEW p \in Procs, Ping!ipv4_raw_release(p) PROVE Ping!IInv'
<1> USE DEF Ping!ipv4_raw_release
<1>1. Ping!Types'
  BY PingFacts DEF Ping!IInv, Ping!Types, Ping!TypeOK, Ping!Sane
<1>2. Ping!Listed'
  BY DEF Ping!IInv, Ping!Types, Ping!TypeOK, Ping!Listed
<1>3. Ping!Copies'
  BY DEF Ping!IInv, Ping!Types, Ping!TypeOK, Ping!Copies
<1>4. Ping!Turns'
  <2> SUFFICES ASSUME NEW r \in Procs PROVE Ping!Turns!(r)'
    BY DEF Ping!Turns
  <2>1. CASE r = p
    BY <2>1 DEF Ping!IInv, Ping!Types, Ping!TypeOK
  <2>2. CASE r # p
    BY <2>2 DEF Ping!IInv, Ping!Types, Ping!TypeOK, Ping!Turns, Ping!Silent
  <2> QED BY <2>1, <2>2
<1> QED BY <1>1, <1>2, <1>3, <1>4 DEF Ping!IInv

\* A packet gets lost on the way.
LEMMA PingNetShrinks ==
  ASSUME Ping!Sane, Ping!IInv, NEW m \in ping_net, ping_net' = ping_net \ {m},
         UNCHANGED <<socket_list, raw_queue, ping_pc, seq, sent, raw_arrived, heard, since, foreign>>
  PROVE  Ping!IInv'
<1>1. Ping!Types' /\ Ping!Listed' /\ Ping!Copies'
  BY DEF Ping!IInv, Ping!Types, Ping!TypeOK, Ping!Listed, Ping!Copies
<1>2. Ping!Turns'
  BY DEF Ping!IInv, Ping!Turns, Ping!Silent
<1> QED BY <1>1, <1>2 DEF Ping!IInv

\* The peer answers a request that verifies.
LEMMA PingReplies == ASSUME Ping!Sane, Ping!IInv, NEW p \in Procs, Ping!PeerReplies(p) PROVE Ping!IInv'
<1>0. UNCHANGED <<socket_list, raw_queue, ping_pc, seq, sent, raw_arrived, heard, since, foreign, ping_lost>>
  BY DEF Ping!PeerReplies
<1>1. PICK m \in ping_net : m = Ping!Echo(p, m.seq) /\ ping_net' = (ping_net \ {m}) \cup (IF Ping!Verifies(m.seq) THEN {Ping!Reply(p, m.seq)} ELSE {})
  BY DEF Ping!PeerReplies
<1>2. m \in Ping!Messages /\ m.seq \in 0 .. Ping!Half - 1
  BY DEF Ping!IInv, Ping!Types, Ping!Messages
<1>3. CASE ~Ping!Verifies(m.seq)
  BY <1>0, <1>1, <1>3, PingNetShrinks
<1>4. CASE Ping!Verifies(m.seq)
  <2> DEFINE a == Ping!Reply(p, m.seq)
  <2>1. ping_net' = (ping_net \ {m}) \cup {a} /\ a \in Ping!Messages /\ a.of = p /\ a.seq = m.seq /\ m.of = p
    BY <1>1, <1>2, <1>4, PingFacts
  <2> HIDE DEF a
  <2>2. Ping!Types' /\ Ping!Listed' /\ Ping!Copies'
    BY <1>0, <2>1 DEF Ping!IInv, Ping!Types, Ping!TypeOK, Ping!Listed, Ping!Copies
  <2>3. Ping!Turns'
    <3> SUFFICES ASSUME NEW r \in Procs PROVE Ping!Turns!(r)'
      BY DEF Ping!Turns
    <3>1. CASE r # p
      <4>1. \A k \in ping_net' : k.of = r => k \in ping_net
        BY <2>1, <3>1
      <4>2. seq[r] \in 0 .. Ping!Half - 1
        BY DEF Ping!IInv, Ping!Types, Ping!TypeOK
      <4>3. /\ Ping!Echo(r, seq[r]) \in ping_net' => Ping!Echo(r, seq[r]) \in ping_net
            /\ Ping!Reply(r, seq[r]) \in ping_net' => Ping!Reply(r, seq[r]) \in ping_net
        BY <4>1, <4>2, PingFacts
      <4> QED BY <1>0, <4>1, <4>3 DEF Ping!IInv, Ping!Turns, Ping!Silent
    <3>2. CASE r = p
      <4>1. ~Ping!Silent(p)
        BY <2>1 DEF Ping!Silent
      <4>2. ping_pc[p] # "out" /\ (ping_pc[p] = "send" => p \in foreign)
        BY <4>1 DEF Ping!IInv, Ping!Turns
      <4>3. CASE ping_pc[p] = "receive" /\ p \notin foreign
        <5>1. m.seq = seq[p] /\ raw_queue[p] = <<>> /\ \A k \in ping_net : k.of = p => k.seq = seq[p]
          BY <2>1, <4>1, <4>3 DEF Ping!IInv, Ping!Turns
        <5>2. m = Ping!Echo(p, seq[p]) /\ a = Ping!Reply(p, seq[p]) /\ seq[p] \in 0 .. Ping!Half - 1
          BY <1>1, <1>2, <5>1 DEF a
        <5>3. Ping!Echo(p, seq[p]) \notin ping_net'
          BY <2>1, <5>2, PingFacts
        <5>4. \A k \in ping_net' : k.of = p => k.seq = seq[p]
          BY <2>1, <5>1
        <5> QED BY <1>0, <3>2, <4>3, <5>1, <5>3, <5>4
      <4> QED BY <1>0, <3>2, <4>2, <4>3
    <3> QED BY <3>1, <3>2
  <2> QED BY <2>2, <2>3 DEF Ping!IInv
<1> QED BY <1>3, <1>4

\* ipv4_raw_rx_packet: a packet for every raw socket.
LEMMA PingComes ==
  ASSUME Ping!Sane, Ping!IInv, NEW m \in Ping!Messages, Ping!ipv4_raw_rx_packet(m),
         m = Ping!Foreign \/ (m \in ping_net /\ \E p \in Procs : m = Ping!Reply(p, m.seq))
  PROVE Ping!IInv'
<1> USE DEF Ping!ipv4_raw_rx_packet, Ping!Receivers
<1>1. /\ raw_arrived' = Append(raw_arrived, m) /\ raw_arrived \in Seq(Ping!Messages) /\ Len(raw_arrived) \in Nat
      /\ \A r \in Procs : raw_queue[r] \in Seq(Ping!Messages) /\ Len(raw_queue[r]) \in Nat
      /\ UNCHANGED <<socket_list, ping_pc, seq, sent, heard, since, ping_lost>>
      /\ socket_list \subseteq Procs
  BY DEF Ping!IInv, Ping!Types, Ping!TypeOK
<1>2. /\ raw_arrived' \in Seq(Ping!Messages) /\ Len(raw_arrived') = Len(raw_arrived) + 1
      /\ \A i \in 1 .. Len(raw_arrived) : raw_arrived'[i] = raw_arrived[i]
      /\ raw_arrived'[Len(raw_arrived) + 1] = m
  BY <1>1, AppendIs
<1>3. \A r \in Procs :
        /\ r \notin socket_list => raw_queue'[r] = raw_queue[r]
        /\ r \in socket_list => /\ raw_queue'[r] = Append(raw_queue[r], m)
                                /\ Append(raw_queue[r], m) \in Seq(Ping!Messages)
                                /\ Len(raw_queue'[r]) = Len(raw_queue[r]) + 1
                                /\ \A i \in 1 .. Len(raw_queue[r]) : raw_queue'[r][i] = raw_queue[r][i]
                                /\ raw_queue'[r][Len(raw_queue[r]) + 1] = m
  BY <1>1, AppendIs
<1>4. Ping!Types'
  <2>1. raw_queue' \in [Procs -> Seq(Ping!Messages)]
    BY <1>1, <1>3
  <2>2. foreign' \subseteq Procs /\ ping_net' \subseteq Ping!Messages
    BY DEF Ping!IInv, Ping!Types, Ping!TypeOK
  <2> QED BY <1>1, <1>2, <2>1, <2>2 DEF Ping!IInv, Ping!Types, Ping!TypeOK
<1>5. Ping!Listed'
  BY Zenon DEF Ping!IInv, Ping!Listed
<1>6. Ping!Copies'
  <2> SUFFICES ASSUME NEW r \in socket_list PROVE Ping!Copies!(r)'
    BY Zenon, <1>1 DEF Ping!Copies
  <2>1. /\ Ping!Copy(raw_arrived, since[r], heard[r], raw_queue[r]) /\ r \in Procs /\ since[r] \in Nat
        /\ heard[r] \in Seq(Ping!Messages)
    BY <1>1 DEF Ping!IInv, Ping!Copies, Ping!Types
  <2>2. Ping!Copy(Append(raw_arrived, m), since[r], heard[r], Append(raw_queue[r], m))
    BY <1>1, <2>1, PingCopyArrives
  <2> QED BY <1>1, <1>3, <2>1, <2>2
<1>7. Ping!Turns'
  <2> SUFFICES ASSUME NEW r \in Procs PROVE Ping!Turns!(r)'
    BY Zenon DEF Ping!Turns
  <2>0. ping_net' \subseteq ping_net
    OBVIOUS
  <2>1. CASE r \notin socket_list
    <3>1. ping_pc[r] \notin {"send", "receive"}
      BY <2>1 DEF Ping!IInv, Ping!Listed
    <3> QED BY Zenon, <1>1, <1>3, <2>0, <2>1, <3>1 DEF Ping!IInv, Ping!Turns, Ping!Silent
  <2>2. CASE r \in foreign'
    <3>1. r \in socket_list \/ r \in foreign
      BY <2>2
    <3>2. ping_pc[r] # "out" \/ r \notin socket_list
      BY DEF Ping!IInv, Ping!Listed
    <3> QED BY Zenon, <1>1, <1>3, <2>1, <2>2, <3>1, <3>2
  <2>3. CASE r \in socket_list /\ r \notin foreign'
    <3>1. m = Ping!Reply(r, seq[r]) /\ r \notin foreign
      BY <2>3
    <3>2. seq[r] \in 0 .. Ping!Half - 1 /\ m.of = r
      BY <3>1, PingFacts DEF Ping!IInv, Ping!Types, Ping!TypeOK
    <3>3. m \in ping_net
      BY <3>1, <3>2, PingFacts
    <3>4. ~Ping!Silent(r)
      BY <3>2, <3>3 DEF Ping!Silent
    <3>5. ping_pc[r] = "receive" /\ raw_queue[r] = <<>>
      BY <2>3, <3>1, <3>4 DEF Ping!IInv, Ping!Listed, Ping!Turns
    <3>6. raw_queue'[r] = <<m>>
      <4>1. raw_queue'[r] = Append(<<>>, m)
        BY Zenon, <1>3, <2>3, <3>5
      <4> QED BY <4>1
    <3>7. Ping!Silent(r)'
      <4> SUFFICES ASSUME NEW k \in ping_net, k # m, k.of = r PROVE FALSE
        BY DEF Ping!Silent
      <4>1. k.seq = seq[r] /\ Ping!Echo(r, seq[r]) \notin ping_net
        BY <3>1, <3>3, <3>5 DEF Ping!IInv, Ping!Turns
      <4>2. k \in Ping!Messages
        BY DEF Ping!IInv, Ping!Types
      <4>3. k = Ping!Echo(r, seq[r]) \/ k = Ping!Reply(r, seq[r])
        BY <4>1, <4>2 DEF Ping!Messages, Ping!Echo, Ping!Reply
      <4> QED BY <3>1, <4>1, <4>3
    <3>8. \A k \in ping_net' : k.of = r => k.seq = seq[r]
      BY <3>7 DEF Ping!Silent
    <3>9. Ping!Echo(r, seq[r]) \notin ping_net'
      BY <2>0, <3>1, <3>3, <3>5 DEF Ping!IInv, Ping!Turns
    <3> QED BY <1>1, <3>1, <3>5, <3>6, <3>7, <3>8, <3>9
  <2> QED BY Zenon, <2>1, <2>2, <2>3
<1> QED BY <1>4, <1>5, <1>6, <1>7 DEF Ping!IInv

\* Every step of the pings and of the network.
LEMMA PingNextIInv == ASSUME Ping!Sane, Ping!IInv, Ping!Next PROVE Ping!IInv'
<1>1. ASSUME NEW p \in Procs, Ping!Arrives(p) PROVE Ping!IInv'
  <2>1. PICK m \in ping_net : m.type = 0 /\ m.of = p /\ Ping!ipv4_raw_rx_packet(m)
    BY <1>1 DEF Ping!Arrives
  <2>2. m \in Ping!Messages /\ m = Ping!Reply(p, m.seq)
    BY <2>1 DEF Ping!IInv, Ping!Types, Ping!Messages, Ping!Reply
  <2> QED BY <2>1, <2>2, PingComes
<1>2. ASSUME Ping!ipv4_raw_rx_packet(Ping!Foreign) PROVE Ping!IInv'
  BY <1>2, PingComes, PingFacts
<1>3. ASSUME NEW m \in ping_net, Ping!Lose(m) PROVE Ping!IInv'
  BY <1>3, PingNetShrinks DEF Ping!Lose
<1> QED BY <1>1, <1>2, <1>3, PingCreates, PingSends, PingReceives, PingReleases, PingReplies DEF Ping!Next

\* A step that leaves the variables alone keeps the invariant.
LEMMA PingStutterIInv == ASSUME Ping!IInv, UNCHANGED Ping!vars PROVE Ping!IInv'
<1> USE DEF Ping!vars
<1>1. Ping!Types' /\ Ping!Listed' /\ Ping!Copies'
  BY DEF Ping!IInv, Ping!Types, Ping!TypeOK, Ping!Listed, Ping!Copies
<1>2. Ping!Turns'
  BY DEF Ping!IInv, Ping!Turns, Ping!Silent
<1> QED BY <1>1, <1>2 DEF Ping!IInv

\* In such a state the properties hold.
LEMMA PingIInvSafe == ASSUME Ping!IInv PROVE Ping!TypeOK /\ Ping!FanOut /\ Ping!ShowsOwnReply /\ Ping!ChecksumVerifies
<1>1. Ping!ShowsOwnReply
  BY DEF Ping!IInv, Ping!Turns, Ping!ShowsOwnReply
<1>2. Ping!ChecksumVerifies
  BY PingChecksum DEF Ping!IInv, Ping!Types, Ping!TypeOK, Ping!ChecksumVerifies
<1>3. Ping!FanOut
  <2> SUFFICES ASSUME NEW p \in socket_list
               PROVE  heard[p] \o raw_queue[p] = SubSeq(raw_arrived, since[p] + 1, Len(raw_arrived))
    BY Zenon DEF Ping!FanOut
  <2>1. p \in Procs
    BY DEF Ping!IInv, Ping!Types, Ping!TypeOK
  <2>2. heard[p] \in Seq(Ping!Messages) /\ raw_queue[p] \in Seq(Ping!Messages) /\ since[p] \in Nat /\ raw_arrived \in Seq(Ping!Messages)
    BY <2>1 DEF Ping!IInv, Ping!Types
  <2>3. Ping!Copy(raw_arrived, since[p], heard[p], raw_queue[p])
    BY DEF Ping!IInv, Ping!Copies
  <2> QED BY Zenon, <2>2, <2>3, PingCopyIs
<1> QED BY <1>1, <1>2, <1>3 DEF Ping!IInv, Ping!Types
-----------------------------------------------------------------------------
(* The wait for a packet: socket_rx_packet, socket_recvfrom.               *)

CONSTANTS Readers, MaxPackets

VARIABLES recv_queue, waitqueue, recv_status, recv_pending, recv_at, arrived, received, panic

Receive == INSTANCE Receive WITH Tasks <- Readers, at <- recv_at, status <- recv_status, pending <- recv_pending

ASSUME ReceiveSane == Receive!Sane

\* A new socket: nothing came, nobody waits.
LEMMA ReceiveInitIInv == ASSUME Receive!Sane, Receive!Init PROVE Receive!IInv
  BY DEF Receive!Init, Receive!Sane, Receive!IInv, Receive!TypeOK, Receive!Numbered, Receive!Waiting, Receive!NoSleepOverPacket, Receive!PanicNeedsSignal

\* A task leaves the wait queue, with or without a packet.
LEMMA ReceiveLeaves ==
  ASSUME Receive!IInv, NEW t \in Readers, Receive!Leave(t), panic = "no", UNCHANGED <<arrived, panic>>,
         \A u \in Readers : recv_status[u] = "INTR_SLEEPING" => recv_queue' = <<>>,
         Receive!Numbered', recv_queue' \in Seq(1 .. MaxPackets)
  PROVE  Receive!IInv'
<1>1. /\ waitqueue' = waitqueue \ {t} /\ recv_status' = [recv_status EXCEPT ![t] = "RUNNING"]
      /\ recv_at' = [recv_at EXCEPT ![t] = IF recv_pending[t] \subseteq {"SIGCHLD"} THEN "user" ELSE "dead"]
      /\ recv_pending' = [recv_pending EXCEPT ![t] = {}]
  BY DEF Receive!Leave
<1>2. Receive!TypeOK'
  BY <1>1 DEF Receive!IInv, Receive!TypeOK
<1>3. Receive!Waiting'
  BY <1>1 DEF Receive!IInv, Receive!TypeOK, Receive!Waiting
<1>4. Receive!NoSleepOverPacket'
  BY <1>1 DEF Receive!IInv, Receive!TypeOK, Receive!NoSleepOverPacket
<1>5. Receive!PanicNeedsSignal'
  BY DEF Receive!PanicNeedsSignal
<1> QED BY <1>2, <1>3, <1>4, <1>5 DEF Receive!IInv

\* The queue after a packet was taken.
LEMMA ReceiveTakes ==
  ASSUME Receive!Sane, Receive!IInv, recv_queue # <<>>, received' = Append(received, Head(recv_queue)),
         recv_queue' = Tail(recv_queue), arrived' = arrived
  PROVE  Receive!Numbered' /\ recv_queue' \in Seq(1 .. MaxPackets)
<1>1. /\ received \in Seq(Nat) /\ recv_queue \in Seq(Nat) /\ Len(recv_queue) \in Nat /\ Len(received) \in Nat
      /\ Len(recv_queue) >= 1 /\ recv_queue \in Seq(1 .. MaxPackets)
  BY DEF Receive!IInv, Receive!Numbered, Receive!TypeOK
<1>2. /\ recv_queue' \in Seq(Nat) /\ Len(recv_queue') = Len(recv_queue) - 1 /\ recv_queue' \in Seq(1 .. MaxPackets)
      /\ \A i \in 1 .. Len(recv_queue) - 1 : recv_queue'[i] = recv_queue[i + 1]
  BY <1>1, TailIs
<1>3. Head(recv_queue) = Len(received) + 1
  BY <1>1 DEF Receive!IInv, Receive!Numbered
<1>4. /\ received' \in Seq(Nat) /\ Len(received') = Len(received) + 1
      /\ \A i \in 1 .. Len(received) : received'[i] = received[i]
      /\ received'[Len(received) + 1] = Len(received) + 1
  BY <1>1, <1>3, AppendIs
<1>5. \A i \in 1 .. Len(received') : received'[i] = i
  BY <1>1, <1>4 DEF Receive!IInv, Receive!Numbered
<1>6. \A i \in 1 .. Len(recv_queue') : recv_queue'[i] = Len(received') + i
  <2> SUFFICES ASSUME NEW i \in 1 .. Len(recv_queue) - 1 PROVE recv_queue'[i] = Len(received) + 1 + i
    BY <1>1, <1>2, <1>4
  <2>1. recv_queue'[i] = recv_queue[i + 1] /\ i + 1 \in 1 .. Len(recv_queue)
    BY <1>1, <1>2
  <2> QED BY <1>1, <2>1 DEF Receive!IInv, Receive!Numbered
<1> QED BY <1>1, <1>2, <1>4, <1>5, <1>6 DEF Receive!IInv, Receive!Numbered

\* A round of the loop of socket_recvfrom.
LEMMA ReceiveRounds ==
  ASSUME Receive!Sane, Receive!IInv, NEW t \in Readers, Receive!Round(t), panic = "no", UNCHANGED <<arrived, panic>>
  PROVE  Receive!IInv'
<1>1. ASSUME recv_queue # <<>>, received' = Append(received, Head(recv_queue)), recv_queue' = Tail(recv_queue), Receive!Leave(t)
      PROVE  Receive!IInv'
  <2>1. \A u \in Readers : recv_status[u] # "INTR_SLEEPING"
    BY <1>1 DEF Receive!IInv, Receive!NoSleepOverPacket
  <2> QED BY <1>1, <2>1, ReceiveTakes, ReceiveLeaves
<1>2. ASSUME recv_queue = <<>>, Receive!Leave(t), UNCHANGED <<recv_queue, received>>
      PROVE  Receive!IInv'
  <2>1. Receive!Numbered' /\ recv_queue' \in Seq(1 .. MaxPackets) /\ recv_queue' = <<>>
    BY <1>2 DEF Receive!IInv, Receive!Numbered, Receive!TypeOK
  <2> QED BY <1>2, <2>1, ReceiveLeaves
<1>3. ASSUME recv_queue = <<>>, Receive!Sleeps(t), waitqueue' = Receive!wait_queue_register(t),
             recv_status' = [recv_status EXCEPT ![t] = "INTR_SLEEPING"], recv_at' = [recv_at EXCEPT ![t] = "yield"],
             UNCHANGED <<recv_queue, received, recv_pending>>
      PROVE  Receive!IInv'
  <2>1. Receive!TypeOK'
    BY <1>3 DEF Receive!IInv, Receive!TypeOK, Receive!wait_queue_register
  <2>2. Receive!Numbered'
    BY <1>3 DEF Receive!IInv, Receive!Numbered
  <2>3. Receive!Waiting'
    BY <1>3 DEF Receive!IInv, Receive!TypeOK, Receive!Waiting, Receive!wait_queue_register
  <2>4. Receive!NoSleepOverPacket'
    BY <1>3 DEF Receive!IInv, Receive!TypeOK, Receive!NoSleepOverPacket, Receive!wait_queue_register, Receive!Sleeps
  <2>5. Receive!PanicNeedsSignal'
    BY DEF Receive!PanicNeedsSignal
  <2> QED BY <2>1, <2>2, <2>3, <2>4, <2>5 DEF Receive!IInv
<1> QED BY <1>1, <1>2, <1>3 DEF Receive!Round

\* socket_rx_packet queues a packet and wakes the waiters.
LEMMA ReceiveArrives == ASSUME Receive!Sane, Receive!IInv, panic = "no", Receive!socket_rx_packet PROVE Receive!IInv'
<1>1. /\ arrived \in Nat /\ arrived < MaxPackets /\ arrived' = arrived + 1
      /\ recv_queue' = Append(recv_queue, arrived + 1) /\ UNCHANGED <<recv_pending, recv_at, received>>
  BY DEF Receive!socket_rx_packet, Receive!IInv, Receive!Numbered, Receive!Sane
<1>2. Receive!Numbered' /\ recv_queue' \in Seq(1 .. MaxPackets)
  <2>1. /\ recv_queue \in Seq(Nat) /\ recv_queue \in Seq(1 .. MaxPackets) /\ Len(recv_queue) \in Nat /\ Len(received) \in Nat
        /\ arrived + 1 \in 1 .. MaxPackets /\ MaxPackets \in Nat
    BY <1>1 DEF Receive!IInv, Receive!Numbered, Receive!TypeOK, Receive!Sane
  <2>2. /\ recv_queue' \in Seq(Nat) /\ recv_queue' \in Seq(1 .. MaxPackets) /\ Len(recv_queue') = Len(recv_queue) + 1
        /\ \A i \in 1 .. Len(recv_queue) : recv_queue'[i] = recv_queue[i]
        /\ recv_queue'[Len(recv_queue) + 1] = arrived + 1
    BY <1>1, <2>1, AppendIs
  <2>3. \A i \in 1 .. Len(recv_queue') : recv_queue'[i] = Len(received) + i
    <3>1. \A i \in 1 .. Len(recv_queue) : recv_queue[i] = Len(received) + i
      BY DEF Receive!IInv, Receive!Numbered
    <3>2. arrived = Len(received) + Len(recv_queue)
      BY DEF Receive!IInv, Receive!Numbered
    <3> HIDE DEF Receive!IInv
    <3> DEFINE q == recv_queue
              r == recv_queue'
              k == Len(received)
    <3>3. /\ Len(r) = Len(q) + 1 /\ Len(q) \in Nat /\ k \in Nat /\ arrived = k + Len(q)
          /\ \A i \in 1 .. Len(q) : r[i] = k + i
          /\ r[Len(q) + 1] = arrived + 1
      BY <2>1, <2>2, <3>1, <3>2
    <3> HIDE DEF q, r, k
    <3>4. \A i \in 1 .. Len(r) : r[i] = k + i
      BY <3>3
    <3> QED BY <3>4 DEF r, k
  <2> QED BY <1>1, <2>1, <2>2, <2>3 DEF Receive!IInv, Receive!Numbered
<1>3. CASE \E t \in waitqueue : recv_status[t] # "INTR_SLEEPING"
  <2>1. panic' = "wake" /\ UNCHANGED <<recv_status, waitqueue>>
    BY <1>3 DEF Receive!socket_rx_packet, Receive!wait_queue_wake
  <2>2. Receive!TypeOK' /\ Receive!Waiting'
    BY <1>1, <1>2, <2>1 DEF Receive!IInv, Receive!TypeOK, Receive!Waiting
  <2>3. Receive!NoSleepOverPacket' /\ Receive!PanicNeedsSignal'
    BY <1>1, <1>3, <2>1 DEF Receive!IInv, Receive!TypeOK, Receive!Waiting, Receive!NoSleepOverPacket, Receive!PanicNeedsSignal
  <2> QED BY <1>2, <2>2, <2>3 DEF Receive!IInv
<1>4. CASE ~\E t \in waitqueue : recv_status[t] # "INTR_SLEEPING"
  <2>1. /\ recv_status' = [t \in Readers |-> IF t \in waitqueue THEN "RUNNING" ELSE recv_status[t]]
        /\ waitqueue' = {} /\ panic' = panic
    BY <1>4 DEF Receive!socket_rx_packet, Receive!wait_queue_wake
  <2>2. Receive!TypeOK' /\ Receive!Waiting'
    BY <1>1, <1>2, <2>1 DEF Receive!IInv, Receive!TypeOK, Receive!Waiting
  <2>3. Receive!NoSleepOverPacket' /\ Receive!PanicNeedsSignal'
    BY <1>1, <2>1 DEF Receive!IInv, Receive!TypeOK, Receive!NoSleepOverPacket, Receive!PanicNeedsSignal
  <2> QED BY <1>2, <2>2, <2>3 DEF Receive!IInv
<1> QED BY <1>3, <1>4

\* Every step of the tasks, of signals and of the network.
LEMMA ReceiveNextIInv == ASSUME Receive!Sane, Receive!IInv, Receive!Next PROVE Receive!IInv'
<1>1. ASSUME NEW t \in Readers, panic = "no", Receive!sys_recvfrom(t) \/ Receive!Resume(t) PROVE Receive!IInv'
  BY <1>1, ReceiveRounds DEF Receive!sys_recvfrom, Receive!Resume
<1>2. ASSUME NEW t \in Readers, panic = "no", Receive!signal_try_handle(t) PROVE Receive!IInv'
  <2>1. Receive!Numbered' /\ recv_queue' \in Seq(1 .. MaxPackets) /\ recv_queue' = recv_queue
    BY <1>2 DEF Receive!signal_try_handle, Receive!IInv, Receive!Numbered, Receive!TypeOK
  <2>2. \A u \in Readers : recv_status[u] = "INTR_SLEEPING" => recv_queue' = <<>>
    BY <1>2, <2>1 DEF Receive!IInv, Receive!NoSleepOverPacket
  <2> QED BY <1>2, <2>1, <2>2, ReceiveLeaves DEF Receive!signal_try_handle
<1>3. ASSUME NEW t \in Readers, NEW sig \in {"SIGCHLD", "SIGINT"}, panic = "no", Receive!send_signal(t, sig) PROVE Receive!IInv'
  <2>1. Receive!TypeOK' /\ Receive!Numbered' /\ Receive!Waiting'
    BY Zenon, <1>3 DEF Receive!send_signal, Receive!IInv, Receive!TypeOK, Receive!Numbered, Receive!Waiting
  <2>2. Receive!NoSleepOverPacket' /\ Receive!PanicNeedsSignal'
    BY <1>3 DEF Receive!send_signal, Receive!IInv, Receive!TypeOK, Receive!NoSleepOverPacket, Receive!PanicNeedsSignal
  <2> QED BY <2>1, <2>2 DEF Receive!IInv
<1> QED BY <1>1, <1>2, <1>3, ReceiveArrives DEF Receive!Next

\* A step that leaves the variables alone keeps the invariant.
LEMMA ReceiveStutterIInv == ASSUME Receive!IInv, UNCHANGED Receive!vars PROVE Receive!IInv'
  BY DEF Receive!vars, Receive!IInv, Receive!TypeOK, Receive!Numbered, Receive!Waiting, Receive!NoSleepOverPacket, Receive!PanicNeedsSignal

\* In such a state the properties hold.
LEMMA ReceiveIInvSafe ==
  ASSUME Receive!Sane, Receive!IInv PROVE Receive!TypeOK /\ Receive!PacketsInOrder /\ Receive!NoSleepOverPacket /\ Receive!PanicNeedsSignal
<1> DEFINE all == received \o recv_queue
<1>1. /\ received \in Seq(Nat) /\ recv_queue \in Seq(Nat) /\ Len(recv_queue) \in Nat /\ Len(received) \in Nat
      /\ arrived \in Nat /\ arrived = Len(received) + Len(recv_queue)
  BY DEF Receive!IInv, Receive!Numbered, Receive!Sane
<1>2. all \in Seq(Nat) /\ Len(all) = arrived
  BY <1>1, ConcatIs
<1>3. \A i \in 1 .. arrived : all[i] = i
  <2> SUFFICES ASSUME NEW i \in 1 .. arrived PROVE all[i] = i
    BY Zenon
  <2>1. CASE i <= Len(received)
    <3>1. i \in 1 .. Len(received)
      BY <1>1, <2>1
    <3> QED BY <1>1, <3>1, ConcatIs DEF Receive!IInv, Receive!Numbered
  <2>2. CASE i > Len(received)
    <3>1. PICK k \in 1 .. Len(recv_queue) : i = Len(received) + k
      <4>1. i - Len(received) \in 1 .. Len(recv_queue) /\ i = Len(received) + (i - Len(received))
        BY <1>1, <2>2
      <4> QED BY <4>1
    <3>2. all[i] = recv_queue[k]
      BY <1>1, <3>1, ConcatIs
    <3> QED BY <1>1, <3>1, <3>2 DEF Receive!IInv, Receive!Numbered
  <2> QED BY <1>1, <2>1, <2>2
<1>4. all = [i \in 1 .. arrived |-> i]
  <2> HIDE DEF all
  <2> QED BY <1>1, <1>2, <1>3
<1> QED BY <1>4 DEF Receive!IInv, Receive!PacketsInOrder
-----------------------------------------------------------------------------
(* The DHCP client and the routes: dhcpcl.c, ipv4.c.                       *)

CONSTANTS Servers, MaxRuns, MaxQueue, Bits

VARIABLES dhcp_pc, req, ifc, routes, queue, dhcp_net, runs, dhcp_lost, odd, acked, torn

Dhcp == INSTANCE Dhcp WITH pc <- dhcp_pc, net <- dhcp_net, lost <- dhcp_lost

ASSUME DhcpSane == Dhcp!Sane

\* The client has not run.
LEMMA DhcpInitIInv == ASSUME Dhcp!Sane, Dhcp!Init PROVE Dhcp!IInv
<1>1. Dhcp!Types /\ Dhcp!InTurn
  <2>1. Len(<<>>) = 0 /\ <<>> \in Seq(Dhcp!Answers)
    OBVIOUS
  <2>2. Dhcp!TypeOK
    BY <2>1 DEF Dhcp!Init, Dhcp!Sane, Dhcp!TypeOK
  <2> QED BY Zenon, <2>1, <2>2 DEF Dhcp!Init, Dhcp!Types, Dhcp!InTurn, Dhcp!Configuring, Dhcp!Addresses
<1>2. Dhcp!Equal
  BY DEF Dhcp!Init, Dhcp!Equal
<1>3. Dhcp!Paired
  BY DEF Dhcp!Init, Dhcp!Paired, Dhcp!ConfiguredAsOffered, Dhcp!Configuring
<1> QED BY <1>1, <1>2, <1>3 DEF Dhcp!IInv

\* dhcpcl asks for offers.
LEMMA DhcpDiscovers == ASSUME Dhcp!Sane, Dhcp!IInv, Dhcp!Discover PROVE Dhcp!IInv'
<1> USE DEF Dhcp!Discover
<1>1. Dhcp!Types'
  BY DEF Dhcp!Sane, Dhcp!IInv, Dhcp!Types, Dhcp!TypeOK, Dhcp!Configuring, Dhcp!Msg
<1>2. Dhcp!Equal' /\ Dhcp!Paired'
  BY DEF Dhcp!IInv, Dhcp!Equal, Dhcp!Paired, Dhcp!ConfiguredAsOffered, Dhcp!Configuring
<1>3. Dhcp!InTurn'
  <2>1. dhcp_pc' = "offer" /\ queue' = <<>>
    BY DEF Dhcp!IInv, Dhcp!Types
  <2>2. ~odd' => \A m \in dhcp_net' : m.op = "discover"
    <3>1. dhcp_net' = dhcp_net \cup {Dhcp!Msg("discover", s) : s \in Servers} /\ odd' = (dhcp_net # {})
      OBVIOUS
    <3>2. \A s \in Servers : Dhcp!Msg("discover", s).op = "discover"
      BY DEF Dhcp!Msg
    <3> QED BY Zenon, <3>1, <3>2
  <2> QED BY <2>1, <2>2 DEF Dhcp!InTurn, Dhcp!Configuring
<1> QED BY <1>1, <1>2, <1>3 DEF Dhcp!IInv

\* The program ends.
LEMMA DhcpExits ==
  ASSUME Dhcp!Sane, Dhcp!IInv, Dhcp!End, UNCHANGED <<ifc, routes, dhcp_net, runs, dhcp_lost, odd, acked>>,
         torn' \in BOOLEAN, torn \/ dhcp_pc = "mask" => torn'
  PROVE  Dhcp!IInv'
<1>1. Dhcp!Types' /\ Dhcp!InTurn'
  BY DEF Dhcp!End, Dhcp!IInv, Dhcp!Types, Dhcp!TypeOK, Dhcp!Configuring, Dhcp!InTurn, Dhcp!Sane
<1>2. Dhcp!Equal' /\ Dhcp!Paired'
  BY DEF Dhcp!End, Dhcp!IInv, Dhcp!Equal, Dhcp!Paired, Dhcp!ConfiguredAsOffered, Dhcp!Configuring
<1> QED BY <1>1, <1>2 DEF Dhcp!IInv

\* dhcpcl takes a message for an offer.
LEMMA DhcpOffers == ASSUME Dhcp!Sane, Dhcp!IInv, NEW form \in Dhcp!Forms, Dhcp!Offer(form) PROVE Dhcp!IInv'
<1>1. /\ queue \in Seq(Dhcp!Answers) /\ queue # <<>> /\ dhcp_pc = "offer"
      /\ UNCHANGED <<ifc, routes, runs, dhcp_lost, odd, acked, torn>>
  BY DEF Dhcp!IInv, Dhcp!Types, Dhcp!Offer
<1>2. /\ Len(queue) >= 1 /\ Head(queue) \in Dhcp!Answers /\ Head(queue) = queue[1]
      /\ Tail(queue) \in Seq(Dhcp!Answers) /\ Len(Tail(queue)) = Len(queue) - 1
  BY <1>1, TailIs
<1>3. CASE Dhcp!End /\ UNCHANGED dhcp_net
  <2>1. torn' \in BOOLEAN /\ (torn \/ dhcp_pc = "mask" => torn')
    BY <1>1 DEF Dhcp!IInv, Dhcp!Types
  <2> QED BY <1>1, <1>3, <2>1, DhcpExits
<1>4. CASE dhcp_pc' \in {"spin", "undefined"} /\ queue' = <<>> /\ UNCHANGED <<req, dhcp_net>>
  <2>1. Dhcp!Types' /\ Dhcp!InTurn'
    BY <1>1, <1>2, <1>4 DEF Dhcp!IInv, Dhcp!Types, Dhcp!TypeOK, Dhcp!Configuring, Dhcp!InTurn, Dhcp!Sane
  <2>2. Dhcp!Equal' /\ Dhcp!Paired'
    BY <1>1, <1>4 DEF Dhcp!IInv, Dhcp!Equal, Dhcp!Paired, Dhcp!ConfiguredAsOffered, Dhcp!Configuring
  <2> QED BY <2>1, <2>2 DEF Dhcp!IInv
<1>5. CASE req' = Head(queue).of /\ dhcp_pc' = "ack" /\ queue' = Tail(queue) /\ dhcp_net' = dhcp_net \cup {Dhcp!Msg("request", req')}
  <2>1. req' \in Servers
    BY <1>2, <1>5 DEF Dhcp!Answers
  <2>2. Dhcp!Types'
    BY <1>1, <1>2, <1>5, <2>1 DEF Dhcp!IInv, Dhcp!Types, Dhcp!TypeOK, Dhcp!Configuring, Dhcp!Msg, Dhcp!Sane
  <2>3. Dhcp!InTurn'
    <3> SUFFICES ASSUME ~odd
                 PROVE  /\ \A m \in dhcp_net' : /\ m.op # "nak" /\ (m.op = "request" => m.of = req')
                                                /\ m.op = "ack" => m.of = req' /\ req'.ip \in acked'
                        /\ Len(queue') = 0
      BY <1>1, <1>5 DEF Dhcp!InTurn, Dhcp!Configuring
    <3>1. (\A m \in dhcp_net : m.op \in {"discover", "offer"}) /\ Len(queue) = 1
      BY <1>1, <1>2 DEF Dhcp!IInv, Dhcp!InTurn
    <3>2. Dhcp!Msg("request", req').op = "request" /\ Dhcp!Msg("request", req').of = req'
      BY DEF Dhcp!Msg
    <3>3. Len(queue') = 0
      BY <1>2, <1>5, <3>1
    <3> QED BY <1>5, <3>1, <3>2, <3>3
  <2>4. Dhcp!Equal' /\ Dhcp!Paired'
    BY <1>1, <1>5 DEF Dhcp!IInv, Dhcp!Equal, Dhcp!Paired, Dhcp!ConfiguredAsOffered, Dhcp!Configuring
  <2> QED BY <2>2, <2>3, <2>4 DEF Dhcp!IInv
<1> QED BY Zenon, <1>3, <1>4, <1>5 DEF Dhcp!Offer

\* dhcpcl takes a message for the answer to its request.
LEMMA DhcpAcks == ASSUME Dhcp!Sane, Dhcp!IInv, NEW form \in Dhcp!Forms, Dhcp!Ack(form) PROVE Dhcp!IInv'
<1>1. /\ queue \in Seq(Dhcp!Answers) /\ queue # <<>> /\ dhcp_pc = "ack"
      /\ UNCHANGED <<ifc, routes, dhcp_net, runs, dhcp_lost, odd, acked, torn>>
  BY DEF Dhcp!IInv, Dhcp!Types, Dhcp!Ack
<1>2. /\ Len(queue) >= 1 /\ Tail(queue) \in Seq(Dhcp!Answers) /\ Len(Tail(queue)) = Len(queue) - 1
  BY <1>1, TailIs
<1>3. CASE Dhcp!End
  <2>1. torn' \in BOOLEAN /\ (torn \/ dhcp_pc = "mask" => torn')
    BY <1>1 DEF Dhcp!IInv, Dhcp!Types
  <2> QED BY <1>1, <1>3, <2>1, DhcpExits
<1>4. CASE queue' = <<>> /\ req' = req /\ dhcp_pc' = "address"
  <2>1. Dhcp!Types'
    BY <1>1, <1>2, <1>4 DEF Dhcp!IInv, Dhcp!Types, Dhcp!TypeOK, Dhcp!Configuring, Dhcp!Sane
  <2>2. ~odd => req.ip \in acked
    BY <1>1, <1>2 DEF Dhcp!IInv, Dhcp!InTurn
  <2>3. Dhcp!InTurn'
    BY <1>1, <1>4, <2>2 DEF Dhcp!InTurn, Dhcp!Configuring
  <2>4. Dhcp!Equal' /\ Dhcp!Paired'
    BY <1>1, <1>4 DEF Dhcp!IInv, Dhcp!Equal, Dhcp!Paired, Dhcp!ConfiguredAsOffered, Dhcp!Configuring
  <2> QED BY <2>1, <2>3, <2>4 DEF Dhcp!IInv
<1> QED BY Zenon, <1>3, <1>4 DEF Dhcp!Ack, Dhcp!Keep

\* dhcpcl sets the address, then the mask.
LEMMA DhcpSets == ASSUME Dhcp!Sane, Dhcp!IInv, Dhcp!SetAddress \/ Dhcp!SetMask PROVE Dhcp!IInv'
<1>1. /\ dhcp_pc \in {"address", "mask"} /\ dhcp_pc' \in {"mask", "gateway"}
      /\ UNCHANGED <<req, routes, queue, dhcp_net, runs, dhcp_lost, odd, acked>>
  BY DEF Dhcp!SetAddress, Dhcp!SetMask
<1>2. /\ ifc \in [ip : Dhcp!Addresses, mask : Dhcp!Addresses] /\ torn \in BOOLEAN /\ req \in Servers
      /\ req \in [ip : Dhcp!Addresses, mask : Dhcp!Addresses, gateway : Dhcp!Addresses]
  BY <1>1 DEF Dhcp!IInv, Dhcp!Types, Dhcp!Configuring, Dhcp!Sane
<1>3. CASE Dhcp!SetAddress
  <2>1. ifc' \in [ip : Dhcp!Addresses, mask : Dhcp!Addresses] /\ ifc'.ip = req.ip /\ torn' = torn /\ dhcp_pc' = "mask"
    BY <1>2, <1>3 DEF Dhcp!SetAddress
  <2>2. Dhcp!Paired'
    BY <1>1, <2>1 DEF Dhcp!Paired, Dhcp!ConfiguredAsOffered
  <2> QED BY <1>1, <1>2, <2>1, <2>2 DEF Dhcp!IInv, Dhcp!Types, Dhcp!TypeOK, Dhcp!Configuring, Dhcp!InTurn, Dhcp!Equal, Dhcp!Sane
<1>4. CASE Dhcp!SetMask
  <2>1. ifc' = [ip |-> req.ip, mask |-> req.mask] /\ torn' = FALSE /\ dhcp_pc' = "gateway"
    BY <1>2, <1>4 DEF Dhcp!SetMask, Dhcp!IInv, Dhcp!Paired, Dhcp!Configuring
  <2>2. Dhcp!Paired'
    BY <1>1, <1>2, <2>1 DEF Dhcp!Paired, Dhcp!ConfiguredAsOffered
  <2> QED BY <1>1, <1>2, <2>1, <2>2 DEF Dhcp!IInv, Dhcp!Types, Dhcp!TypeOK, Dhcp!Configuring, Dhcp!InTurn, Dhcp!Equal, Dhcp!Sane
<1> QED BY <1>3, <1>4

\* A route more, the first of which is to the gateway.
LEMMA DhcpRoutes ==
  ASSUME Dhcp!IInv, NEW r \in [dest : Dhcp!Addresses, mask : Dhcp!Addresses, gateway : Dhcp!Addresses, metric : {1000}],
         Dhcp!ip_route_add(r), routes = <<>> => r.mask = {}
  PROVE  Dhcp!Equal' /\ routes' # <<>>
<1> DEFINE R == [dest : Dhcp!Addresses, mask : Dhcp!Addresses, gateway : Dhcp!Addresses, metric : {1000}]
<1>1. routes' = Append(routes, r) /\ routes \in Seq(R) /\ r \in R /\ (routes # <<>> => routes[1].mask = {})
  BY DEF Dhcp!ip_route_add, Dhcp!IInv, Dhcp!Equal
<1> HIDE DEF R
<1>2. routes' \in Seq(R) /\ routes'[1].mask = {} /\ routes' # <<>>
  <2>1. CASE routes = <<>>
    BY <1>1, <2>1, AppendIs
  <2>2. CASE routes # <<>>
    <3>1. Len(routes) >= 1
      BY <1>1, <2>2
    <3> QED BY <1>1, <2>2, <3>1, AppendIs
  <2> QED BY <2>1, <2>2
<1> QED BY <1>2 DEF Dhcp!Equal, R

\* dhcpcl adds the route to the gateway, then that to the network.
LEMMA DhcpAdds == ASSUME Dhcp!Sane, Dhcp!IInv, Dhcp!AddGateway \/ Dhcp!AddLocal PROVE Dhcp!IInv'
<1>1. req \in Servers /\ req \in [ip : Dhcp!Addresses, mask : Dhcp!Addresses, gateway : Dhcp!Addresses]
  BY DEF Dhcp!AddGateway, Dhcp!AddLocal, Dhcp!IInv, Dhcp!Types, Dhcp!Configuring, Dhcp!Sane
<1>2. CASE Dhcp!AddGateway
  <2> DEFINE r == [dest |-> {}, mask |-> {}, gateway |-> req.gateway, metric |-> 1000]
  <2>1. r \in [dest : Dhcp!Addresses, mask : Dhcp!Addresses, gateway : Dhcp!Addresses, metric : {1000}] /\ r.mask = {}
    BY <1>1 DEF Dhcp!Addresses
  <2>2. Dhcp!Equal'
    <3>1. Dhcp!ip_route_add(r)
      BY <1>2 DEF Dhcp!AddGateway
    <3> HIDE DEF r
    <3> QED BY <2>1, <3>1, DhcpRoutes
  <2>3. Dhcp!Types' /\ Dhcp!InTurn'
    BY <1>1, <1>2 DEF Dhcp!AddGateway, Dhcp!IInv, Dhcp!Types, Dhcp!TypeOK, Dhcp!Configuring, Dhcp!InTurn, Dhcp!Sane
  <2>4. Dhcp!Paired'
    BY <1>2 DEF Dhcp!AddGateway, Dhcp!IInv, Dhcp!Paired, Dhcp!ConfiguredAsOffered, Dhcp!Configuring
  <2> QED BY <2>2, <2>3, <2>4 DEF Dhcp!IInv
<1>3. CASE Dhcp!AddLocal
  <2> DEFINE r == [dest |-> req.ip \cap req.mask, mask |-> req.mask, gateway |-> {}, metric |-> 1000]
  <2>1. r \in [dest : Dhcp!Addresses, mask : Dhcp!Addresses, gateway : Dhcp!Addresses, metric : {1000}]
    BY <1>1 DEF Dhcp!Addresses
  <2>2. Dhcp!Equal'
    <3>1. Dhcp!ip_route_add(r) /\ routes # <<>>
      BY <1>3 DEF Dhcp!AddLocal, Dhcp!IInv, Dhcp!Equal
    <3> HIDE DEF r
    <3> QED BY <2>1, <3>1, DhcpRoutes
  <2>3. Dhcp!Types' /\ Dhcp!InTurn'
    BY <1>3 DEF Dhcp!AddLocal, Dhcp!End, Dhcp!IInv, Dhcp!Types, Dhcp!TypeOK, Dhcp!Configuring, Dhcp!InTurn, Dhcp!Sane
  <2>4. Dhcp!Paired'
    BY <1>3 DEF Dhcp!AddLocal, Dhcp!End, Dhcp!IInv, Dhcp!Paired, Dhcp!ConfiguredAsOffered, Dhcp!Configuring
  <2> QED BY <2>2, <2>3, <2>4 DEF Dhcp!IInv
<1> QED BY <1>2, <1>3

\* A server offers, acknowledges or refuses.
LEMMA DhcpServerSteps ==
  ASSUME Dhcp!Sane, Dhcp!IInv, NEW s \in Servers, Dhcp!SendOffer(s) \/ \E ok \in BOOLEAN : Dhcp!SendAck(s, ok)
  PROVE  Dhcp!IInv'
<1>1. UNCHANGED <<Dhcp!client, queue, dhcp_lost, torn>>
  BY Zenon DEF Dhcp!SendOffer, Dhcp!SendAck
<1>2. Dhcp!Equal' /\ Dhcp!Paired'
  BY <1>1 DEF Dhcp!client, Dhcp!IInv, Dhcp!Equal, Dhcp!Paired, Dhcp!ConfiguredAsOffered, Dhcp!Configuring
<1>3. CASE Dhcp!SendOffer(s)
  <2>1. Dhcp!Types' /\ Dhcp!InTurn'
    BY <1>1, <1>3 DEF Dhcp!SendOffer, Dhcp!client, Dhcp!IInv, Dhcp!Types, Dhcp!TypeOK, Dhcp!Configuring, Dhcp!InTurn, Dhcp!Msg, Dhcp!Sane
  <2> QED BY Zenon, <1>2, <2>1 DEF Dhcp!IInv
<1>4. ASSUME NEW ok \in BOOLEAN, Dhcp!SendAck(s, ok) PROVE Dhcp!IInv'
  <2>1. Dhcp!Types'
    BY <1>1, <1>4 DEF Dhcp!SendAck, Dhcp!client, Dhcp!IInv, Dhcp!Types, Dhcp!TypeOK, Dhcp!Configuring, Dhcp!Msg, Dhcp!Sane
  <2>2. Dhcp!InTurn'
    <3> SUFFICES ASSUME ~odd, ok PROVE Dhcp!InTurn'
      BY Zenon, <1>4 DEF Dhcp!SendAck, Dhcp!InTurn, Dhcp!IInv, Dhcp!Types
    <3>1. Dhcp!Msg("request", s) \in dhcp_net /\ dhcp_net' = (dhcp_net \ {Dhcp!Msg("request", s)}) \cup {Dhcp!Msg("ack", s)} /\ acked' = acked \cup {s.ip}
      BY <1>4 DEF Dhcp!SendAck
    <3>2. Dhcp!Msg("request", s).op = "request" /\ Dhcp!Msg("request", s).of = s /\ Dhcp!Msg("ack", s).op = "ack" /\ Dhcp!Msg("ack", s).of = s
      BY DEF Dhcp!Msg
    <3>3. dhcp_pc # "offer" /\ (dhcp_pc = "ack" => req = s)
      BY <3>1, <3>2 DEF Dhcp!IInv, Dhcp!InTurn, Dhcp!Configuring
    <3> QED BY <1>1, <3>1, <3>2, <3>3 DEF Dhcp!IInv, Dhcp!InTurn, Dhcp!client
  <2> QED BY <1>2, <2>1, <2>2 DEF Dhcp!IInv
<1> QED BY <1>3, <1>4

\* A message comes to the socket, once or twice, or is lost.
LEMMA DhcpNetSteps ==
  ASSUME Dhcp!Sane, Dhcp!IInv, NEW m \in dhcp_net, Dhcp!Lose(m) \/ \E again \in BOOLEAN : Dhcp!Deliver(m, again)
  PROVE  Dhcp!IInv'
<1>1. UNCHANGED <<Dhcp!client, torn>>
  BY Zenon DEF Dhcp!Lose, Dhcp!Deliver
<1>2. Dhcp!Equal' /\ Dhcp!Paired'
  BY <1>1 DEF Dhcp!client, Dhcp!IInv, Dhcp!Equal, Dhcp!Paired, Dhcp!ConfiguredAsOffered, Dhcp!Configuring
<1>3. CASE Dhcp!Lose(m)
  <2>1. Dhcp!Types' /\ Dhcp!InTurn'
    BY <1>1, <1>3 DEF Dhcp!Lose, Dhcp!client, Dhcp!IInv, Dhcp!Types, Dhcp!TypeOK, Dhcp!Configuring, Dhcp!InTurn, Dhcp!Sane
  <2> QED BY Zenon, <1>2, <2>1 DEF Dhcp!IInv
<1>4. ASSUME NEW again \in BOOLEAN, Dhcp!Deliver(m, again) PROVE Dhcp!IInv'
  <2>1. /\ m \in Dhcp!Answers /\ dhcp_pc # "out" /\ Len(queue) < MaxQueue /\ queue \in Seq(Dhcp!Answers) /\ Len(queue) \in Nat
        /\ dhcp_net' \subseteq dhcp_net /\ acked' = acked
        /\ queue' = IF dhcp_pc \in {"offer", "ack"} THEN Append(queue, m) ELSE queue
    BY <1>4 DEF Dhcp!Deliver, Dhcp!IInv, Dhcp!Types, Dhcp!Answers
  <2>2. /\ queue' \in Seq(Dhcp!Answers) /\ Len(queue') <= MaxQueue
        /\ dhcp_pc \in {"offer", "ack"} =>
             /\ Len(queue') = Len(queue) + 1
             /\ \A i \in 1 .. Len(queue) : queue'[i] = queue[i]
             /\ queue'[Len(queue) + 1] = m
    BY <2>1, AppendIs DEF Dhcp!Sane
  <2>3. odd' \in BOOLEAN /\ (~odd' => ~odd /\ (m.op = "offer" => dhcp_pc # "ack" /\ queue = <<>>))
    BY Zenon, <1>4 DEF Dhcp!Deliver, Dhcp!IInv, Dhcp!Types
  <2>4. Dhcp!Types'
    <3>1. Dhcp!TypeOK'
      BY <1>1, <2>1, <2>2 DEF Dhcp!client, Dhcp!IInv, Dhcp!Types, Dhcp!TypeOK, Dhcp!Configuring, Dhcp!Sane
    <3> QED BY <1>1, <2>1, <2>2, <2>3, <3>1 DEF Dhcp!client, Dhcp!IInv, Dhcp!Types
  <2>5. Dhcp!InTurn'
    <3> SUFFICES ASSUME ~odd' PROVE Dhcp!InTurn'
      BY DEF Dhcp!InTurn, Dhcp!Configuring
    <3>1. CASE dhcp_pc = "offer"
      <4>1. m.op = "offer" /\ queue = <<>>
        BY <2>1, <2>3, <3>1 DEF Dhcp!IInv, Dhcp!InTurn, Dhcp!Answers
      <4>2. Len(queue) = 0
        BY <4>1
      <4>3. Len(queue') = 1 /\ queue'[1] = m
        BY <2>2, <3>1, <4>2
      <4> QED BY Zenon, <1>1, <2>1, <2>3, <3>1, <4>1, <4>3 DEF Dhcp!IInv, Dhcp!InTurn, Dhcp!client
    <3>2. CASE dhcp_pc = "ack"
      <4>1. m.op = "ack" /\ req.ip \in acked
        BY <2>1, <2>3, <3>2 DEF Dhcp!IInv, Dhcp!InTurn, Dhcp!Answers
      <4>2. \A i \in 1 .. Len(queue) : queue[i].op = "ack"
        BY <2>3, <3>2 DEF Dhcp!IInv, Dhcp!InTurn, Dhcp!Configuring
      <4>3. \A i \in 1 .. Len(queue') : queue'[i].op = "ack"
        BY <2>1, <2>2, <3>2, <4>1, <4>2
      <4>4. \A k \in dhcp_net' : /\ k.op # "nak" /\ (k.op = "request" => k.of = req)
                                 /\ k.op = "ack" => k.of = req /\ req.ip \in acked
        BY Zenon, <2>1, <2>3, <3>2 DEF Dhcp!IInv, Dhcp!InTurn, Dhcp!Configuring
      <4> QED BY Zenon, <1>1, <2>1, <3>2, <4>1, <4>3, <4>4 DEF Dhcp!InTurn, Dhcp!client
    <3>3. CASE dhcp_pc \in Dhcp!Configuring \cup {"spin", "undefined"}
      BY <1>1, <2>1, <2>3, <3>3 DEF Dhcp!IInv, Dhcp!InTurn, Dhcp!client, Dhcp!Configuring
    <3> QED BY <2>1, <3>1, <3>2, <3>3 DEF Dhcp!IInv, Dhcp!Types, Dhcp!TypeOK, Dhcp!Configuring
  <2> QED BY <1>2, <2>4, <2>5 DEF Dhcp!IInv
<1> QED BY <1>3, <1>4

\* Every step of the client, of the servers and of the network.
LEMMA DhcpNextIInv == ASSUME Dhcp!Sane, Dhcp!IInv, Dhcp!Next PROVE Dhcp!IInv'
<1>1. ASSUME Dhcp!Exit PROVE Dhcp!IInv'
  <2>1. torn' \in BOOLEAN /\ (torn \/ dhcp_pc = "mask" => torn')
    BY <1>1 DEF Dhcp!Exit, Dhcp!IInv, Dhcp!Types
  <2> QED BY <1>1, <2>1, DhcpExits DEF Dhcp!Exit
<1> QED
  BY Zenon, <1>1, DhcpDiscovers, DhcpOffers, DhcpAcks, DhcpSets, DhcpAdds, DhcpServerSteps, DhcpNetSteps DEF Dhcp!Next, Dhcp!ClientStep

\* A step that leaves the variables alone keeps the invariant.
LEMMA DhcpStutterIInv == ASSUME Dhcp!IInv, UNCHANGED Dhcp!vars PROVE Dhcp!IInv'
  BY DEF Dhcp!vars, Dhcp!client, Dhcp!IInv, Dhcp!Types, Dhcp!TypeOK, Dhcp!Configuring, Dhcp!Equal, Dhcp!Paired, Dhcp!ConfiguredAsOffered, Dhcp!Configuring, Dhcp!InTurn

\* In such a state the properties hold.
LEMMA DhcpIInvSafe ==
  ASSUME Dhcp!IInv PROVE Dhcp!TypeOK /\ Dhcp!ConfiguredAsOffered /\ Dhcp!ConfiguredMeansAcked /\ Dhcp!FirstGatewayOnly
<1>1. Dhcp!ConfiguredMeansAcked
  BY DEF Dhcp!IInv, Dhcp!Types, Dhcp!InTurn, Dhcp!ConfiguredMeansAcked
<1>2. Dhcp!FirstGatewayOnly
  <2> SUFFICES ASSUME NEW ip \in Dhcp!Addresses, routes # <<>> PROVE Dhcp!ip_route_get(ip).gateway = routes[1].gateway
    BY DEF Dhcp!FirstGatewayOnly
  <2>1. /\ DOMAIN routes = 1 .. Len(routes) /\ Len(routes) \in Nat /\ Len(routes) >= 1 /\ routes[1].mask = {}
        /\ \A i \in DOMAIN routes : routes[i].metric = 1000
    <3>1. routes \in Seq([dest : Dhcp!Addresses, mask : Dhcp!Addresses, gateway : Dhcp!Addresses, metric : {1000}])
      BY DEF Dhcp!IInv, Dhcp!Equal
    <3>2. DOMAIN routes = 1 .. Len(routes) /\ Len(routes) \in Nat /\ Len(routes) >= 1
      <4> DEFINE R == [dest : Dhcp!Addresses, mask : Dhcp!Addresses, gateway : Dhcp!Addresses, metric : {1000}]
      <4>1. routes \in Seq(R) /\ routes # <<>>
        BY <3>1
      <4> HIDE DEF R
      <4> QED BY <4>1
    <3>3. \A i \in 1 .. Len(routes) : routes[i].metric = 1000
      <4> DEFINE R == [dest : Dhcp!Addresses, mask : Dhcp!Addresses, gateway : Dhcp!Addresses, metric : {1000}]
      <4>1. routes \in Seq(R)
        BY <3>1
      <4>2. \A r \in R : r.metric = 1000
        OBVIOUS
      <4> HIDE DEF R
      <4>3. \A i \in 1 .. Len(routes) : routes[i] \in R
        BY <4>1
      <4> QED BY <4>2, <4>3
    <3> QED BY <3>2, <3>3 DEF Dhcp!IInv, Dhcp!Equal
  <2>2. 1 \in DOMAIN routes /\ Dhcp!Matches(ip, routes[1])
    BY <2>1 DEF Dhcp!Matches
  <2>3. \A i \in DOMAIN routes : i \in Dhcp!Chosen(ip) <=> i = 1
    <3> TAKE i \in DOMAIN routes
    <3>1. CASE i = 1
      BY <2>1, <2>2, <3>1 DEF Dhcp!Chosen, Dhcp!Better
    <3>2. CASE i # 1
      <4>1. 1 < i /\ ~Dhcp!Better(routes[i], routes[1])
        BY <2>1, <3>2 DEF Dhcp!Better
      <4> QED BY <2>2, <3>2, <4>1 DEF Dhcp!Chosen
    <3> QED BY <3>1, <3>2
  <2>4. Dhcp!Chosen(ip) \subseteq DOMAIN routes
    BY DEF Dhcp!Chosen
  <2>5. Dhcp!Chosen(ip) = {1}
    BY <2>2, <2>3, <2>4
  <2>6. Dhcp!ip_route_get(ip) = routes[1]
    BY <2>5 DEF Dhcp!ip_route_get
  <2> QED BY <2>6
<1> QED BY <1>1, <1>2 DEF Dhcp!IInv, Dhcp!Types, Dhcp!Paired
-----------------------------------------------------------------------------
(* What holds in every state, for all Sane constants.                      *)

\* Tasks that receive from one socket take every packet once and in order, and none
\* sleeps over a packet or a signal; wait_queue_wake panics only if a signal has
\* woken a waiter that has not run since (socket_rx_packet, socket_recvfrom).
\* Every raw socket gets every packet while it exists (ipv4_raw_rx_packet); ping
\* shows the answer to its own request unless another packet came, and sends right
\* checksums but for two numbers.
SocketsSafe ==
    /\ Receive!TypeOK /\ Receive!PacketsInOrder /\ Receive!NoSleepOverPacket /\ Receive!PanicNeedsSignal
    /\ Ping!TypeOK /\ Ping!FanOut /\ Ping!ShowsOwnReply /\ Ping!ChecksumVerifies

\* The device has address and mask of one offer (dhcpcl), but between the two ioctls
\* and after a run that ended there, and gets an address that no server acknowledged
\* only if a server refused or another message came; all packets go to the gateway
\* of the first offer used (ip_route_get).
ConfiguredAsOffered ==
    Dhcp!TypeOK /\ Dhcp!ConfiguredAsOffered /\ Dhcp!ConfiguredMeansAcked /\ Dhcp!FirstGatewayOnly
-----------------------------------------------------------------------------
\* Packets reach every socket that waits for them, once and in order, and no task
\* sleeps over one; ping shows its own answer or has got another packet, and its
\* checksums verify but for two numbers: for any number of tasks, sockets and packets.
THEOREM SocketsAreSafe == Receive!Spec /\ Ping!Spec => []SocketsSafe
<1>1. Receive!Init /\ Ping!Init => Receive!IInv /\ Ping!IInv
  BY ReceiveSane, PingSane, ReceiveInitIInv, PingInitIInv
<1>2. Receive!IInv /\ [Receive!Next]_(Receive!vars) => Receive!IInv'
  BY ReceiveSane, ReceiveNextIInv, ReceiveStutterIInv
<1>3. Ping!IInv /\ [Ping!Next]_(Ping!vars) => Ping!IInv'
  BY PingSane, PingNextIInv, PingStutterIInv
<1>4. Receive!IInv /\ Ping!IInv => SocketsSafe
  BY ReceiveSane, ReceiveIInvSafe, PingIInvSafe DEF SocketsSafe
<1> QED BY <1>1, <1>2, <1>3, <1>4, PTL DEF Receive!Spec, Ping!Spec

\* dhcpcl configures what one server offered, acknowledged unless a server refused or
\* another message came, and all packets go to the first gateway: for any servers,
\* addresses and number of runs.
THEOREM ClientIsConfigured == Dhcp!Spec => []ConfiguredAsOffered
<1>1. Dhcp!Init => Dhcp!IInv
  BY DhcpSane, DhcpInitIInv
<1>2. Dhcp!IInv /\ [Dhcp!Next]_(Dhcp!vars) => Dhcp!IInv'
  BY DhcpSane, DhcpNextIInv, DhcpStutterIInv
<1>3. Dhcp!IInv => ConfiguredAsOffered
  BY DhcpIInvSafe DEF ConfiguredAsOffered
<1> QED BY <1>1, <1>2, <1>3, PTL DEF Dhcp!Spec
=============================================================================
