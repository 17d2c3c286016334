--------------------------- MODULE SpinlockProofs ---------------------------
(***************************************************************************)
(* Proofs about the ticket spinlock, for any number of CPUs that does not  *)
(* exceed the number of ticket values.                                     *)
(*                                                                         *)
(* The argument: because interrupts are off from local_irq_save to         *)
(* local_irq_restore, a CPU has at most one context inside the lock's      *)
(* functions (IrqInv).  So at most as many tickets are out as there are    *)
(* CPUs, the tickets that are out are the consecutive values from          *)
(* now_serving on although the counters wrap (TicketInv), and the holder   *)
(* is the one with the first of them.                                      *)
(***************************************************************************)
EXTENDS Spinlock, FiniteSetTheorems, SequenceTheorems, TLAPS

\* Interrupts are off inside the lock's functions, and the saved flags tell
\* which variant was called from where.
IrqInv ==
    \A c \in CPUs :
        /\ level[c] = "gate" =>
              /\ ~irq_on[c]
              /\ pc[<<c, "thread">>] = "out"
              /\ flags[<<c, "gate">>] \in {"none", "off"}
        /\ level[c] = "thread" =>
              /\ pc[<<c, "gate">>] = "out"
              /\ irq_on[c] <=> pc[<<c, "thread">>] = "out"
              /\ pc[<<c, "thread">>] # "out" => flags[<<c, "thread">>] = "on"
        /\ \A l \in Levels : pc[<<c, l>>] = "out" => flags[<<c, l>>] = "none"
        /\ \A l \in Levels : pc[<<c, l>>] \in {"saved", "unlocked"} => flags[<<c, l>>] # "none"

\* The ticket k places after n.
Plus(n, k) == IF n + k >= TicketSpace THEN n + k - TicketSpace ELSE n + k

\* The tickets that are out are the consecutive ones from now_serving on.
TicketInv ==
    LET k == Cardinality(Ticketed) IN
    /\ IsFiniteSet(Ticketed)
    /\ k <= TicketSpace
    /\ next_ticket = Plus(now_serving, k)
    /\ \A x \in Ticketed : Turn(x) \in 0 .. (k - 1)
    /\ \A x, y \in Ticketed : Turn(x) = Turn(y) => x = y
    /\ \A i \in 0 .. (k - 1) : \E x \in Ticketed : Turn(x) = i
    /\ \A x \in Ctx : pc[x] = "held" => Turn(x) = 0

SpinInv == TypeOK /\ IrqInv /\ TicketInv

\* A set of contexts with at most one per CPU has no more members than there
\* are CPUs, nor than there are tickets.
LEMMA OnePerCPU ==
    ASSUME NEW S \in SUBSET Ctx, \A x, y \in S : x[1] = y[1] => x = y
    PROVE  IsFiniteSet(S) /\ Cardinality(S) \in Nat /\ Cardinality(S) <= TicketSpace
<1> DEFINE f == [x \in S |-> x[1]]
<1>1. f \in Injection(S, CPUs)
  <2>1. f \in [S -> CPUs]
    BY DEF Ctx
  <2>2. \A x, y \in S : f[x] = f[y] => x = y
    OBVIOUS
  <2> QED BY <2>1, <2>2 DEF Injection, IsInjective
<1>2. IsFiniteSet(CPUs) /\ Cardinality(CPUs) \in Nat /\ Cardinality(CPUs) <= TicketSpace
      /\ TicketSpace \in Nat
  BY SpinlockAssumption, FS_CardinalityType
<1>3. IsFiniteSet(S) /\ Cardinality(S) <= Cardinality(CPUs)
  BY <1>1, <1>2, FS_Injection
<1>4. Cardinality(S) \in Nat
  BY <1>3, FS_CardinalityType
<1> QED BY <1>2, <1>3, <1>4

\* The interrupt discipline leaves at most one ticketed context per CPU.
LEMMA IrqInvOnePerCPU ==
    ASSUME TypeOK, IrqInv
    PROVE  \A x, y \in Ticketed : x[1] = y[1] => x = y
<1> SUFFICES ASSUME NEW x \in Ticketed, NEW y \in Ticketed, x[1] = y[1] PROVE x = y
  OBVIOUS
<1>1. PICK c \in CPUs, l \in Levels, m \in Levels : x = <<c, l>> /\ y = <<c, m>>
  BY DEF Ticketed, Ctx
<1>2. pc[<<c, l>>] # "out" /\ pc[<<c, m>>] # "out"
  BY <1>1 DEF Ticketed
<1>3. level[c] \in Levels
  BY DEF TypeOK
<1>4. pc[<<c, "thread">>] = "out" \/ pc[<<c, "gate">>] = "out"
  BY <1>3 DEF IrqInv, Levels
<1> QED BY <1>1, <1>2, <1>4 DEF Levels

\* The invariant holds after spinlock_init.
LEMMA InitSpinInv == Init => SpinInv
<1> SUFFICES ASSUME Init PROVE SpinInv
  OBVIOUS
<1> USE DEF Init, spinlock_init
<1>1. TicketSpace \in Nat \ {0}
  BY SpinlockAssumption
<1>2. TypeOK
  BY <1>1 DEF TypeOK, Tickets, PCs, Levels
<1>3. IrqInv
  BY DEF IrqInv, Ctx, Levels
<1>4. TicketInv
  <2>1. Ticketed = {}
    BY DEF Ticketed
  <2>2. IsFiniteSet(Ticketed) /\ Cardinality(Ticketed) = 0
    BY <2>1, FS_EmptySet
  <2> QED BY <1>1, <2>1, <2>2 DEF TicketInv, Plus
<1> QED BY <1>2, <1>3, <1>4 DEF SpinInv

\* Every step keeps the types.
LEMMA TypeStep == ASSUME TypeOK, NEW c \in CPUs, Step(c) PROVE TypeOK'
<1>1. TicketSpace \in Nat \ {0}
  BY SpinlockAssumption
<1>2. Running(c) \in Ctx
  BY DEF Running, Ctx, TypeOK
<1>3. \A n \in Tickets : Inc(n) \in Tickets
  BY <1>1 DEF Inc, Tickets
<1> USE DEF TypeOK, PCs
<1>4. CASE IrqSave(c)
  BY <1>2, <1>4 DEF IrqSave
<1>5. CASE TakeTicket(c)
  BY <1>2, <1>3, <1>5 DEF TakeTicket
<1>6. CASE Enter(c)
  BY <1>2, <1>6 DEF Enter
<1>7. CASE Release(c)
  BY <1>2, <1>3, <1>7 DEF Release
<1>8. CASE IrqRestore(c)
  BY <1>2, <1>8 DEF IrqRestore
<1>9. CASE GateEntry(c)
  BY <1>9 DEF GateEntry, Levels
<1>10. CASE GateReturn(c)
  BY <1>10 DEF GateReturn, Levels
<1> QED BY <1>4, <1>5, <1>6, <1>7, <1>8, <1>9, <1>10 DEF Step

\* Every step keeps the interrupt discipline.
LEMMA IrqStep == ASSUME TypeOK, IrqInv, NEW c \in CPUs, Step(c) PROVE IrqInv'
<1>1. level[c] = "thread" \/ level[c] = "gate"
  BY DEF TypeOK, Levels
<1>2. \A d \in CPUs : \A l \in Levels : <<d, l>> \in Ctx
  BY DEF Ctx
<1> USE <1>1, <1>2 DEF IrqInv, TypeOK, Levels, Running
<1>3. CASE IrqSave(c)
  BY Zenon, <1>3 DEF IrqSave
<1>4. CASE TakeTicket(c)
  BY Zenon, <1>4 DEF TakeTicket
<1>5. CASE Enter(c)
  BY Zenon, <1>5 DEF Enter
<1>6. CASE Release(c)
  BY Zenon, <1>6 DEF Release
<1>7. CASE IrqRestore(c)
  BY Zenon, <1>7 DEF IrqRestore
<1>8. CASE GateEntry(c)
  BY Zenon, <1>8 DEF GateEntry
<1>9. CASE GateReturn(c)
  BY Zenon, <1>9 DEF GateReturn
<1> QED BY Zenon, <1>3, <1>4, <1>5, <1>6, <1>7, <1>8, <1>9 DEF Step
-----------------------------------------------------------------------------
(* Arithmetic of the wrapping counters.                                    *)

\* Distances are tickets, and only equal tickets are at distance 0.
LEMMA DistRange ==
    ASSUME NEW t \in Tickets, NEW n \in Tickets
    PROVE  /\ Dist(t, n) \in 0 .. (TicketSpace - 1)
           /\ Dist(t, n) = 0 <=> t = n
BY SpinlockAssumption DEF Tickets, Dist

\* A release brings everyone behind the holder one place forward.
LEMMA DistInc ==
    ASSUME NEW t \in Tickets, NEW n \in Tickets, t # n
    PROVE  Dist(t, Inc(n)) = Dist(t, n) - 1
BY SpinlockAssumption DEF Tickets, Dist, Inc

\* The next ticket after k tickets.
LEMMA PlusFacts ==
    ASSUME NEW n \in Tickets, NEW k \in Nat
    PROVE  /\ k < TicketSpace => Dist(Plus(n, k), n) = k /\ Inc(Plus(n, k)) = Plus(n, k + 1)
           /\ 1 <= k /\ k <= TicketSpace => Plus(Inc(n), k - 1) = Plus(n, k)
BY SpinlockAssumption DEF Tickets, Dist, Inc, Plus

\* Every step keeps the tickets consecutive.
LEMMA TicketStep ==
    ASSUME SpinInv, NEW c \in CPUs, Step(c)
    PROVE  TicketInv'
<1> DEFINE k == Cardinality(Ticketed)
<1>0. PICK x \in Ctx : x = Running(c)
  BY Zenon DEF SpinInv, Running, Ctx, TypeOK
<1>1. x \in Ctx /\ TypeOK /\ IrqInv /\ TicketInv
  BY DEF SpinInv
<1>2. /\ TicketSpace \in Nat \ {0} /\ now_serving \in Tickets /\ next_ticket \in Tickets
      /\ \A y \in Ctx : ticket[y] \in Tickets
      /\ Ticketed \subseteq Ctx /\ pc \in [Ctx -> PCs]
  BY <1>1, SpinlockAssumption DEF TypeOK, Ticketed
<1>3. /\ IsFiniteSet(Ticketed) /\ k \in Nat /\ k <= TicketSpace
      /\ next_ticket = Plus(now_serving, k)
      /\ \A y \in Ticketed : Turn(y) \in 0 .. (k - 1)
      /\ \A y, z \in Ticketed : Turn(y) = Turn(z) => y = z
      /\ \A i \in 0 .. (k - 1) : \E y \in Ticketed : Turn(y) = i
      /\ \A y \in Ctx : pc[y] = "held" => Turn(y) = 0
  BY <1>1, FS_CardinalityType DEF TicketInv
<1>4. ASSUME UNCHANGED <<next_ticket, now_serving, ticket>>, Ticketed' = Ticketed,
             \A y \in Ctx : pc'[y] = "held" => Turn(y) = 0
      PROVE  TicketInv'
  <2>1. \A y : Turn(y)' = Turn(y)
    BY <1>4 DEF Turn
  <2> QED BY <2>1, <1>3, <1>4 DEF TicketInv
<1> HIDE DEF k
<1>5. CASE IrqSave(c) \/ IrqRestore(c) \/ GateEntry(c) \/ GateReturn(c)
  <2>1. UNCHANGED <<next_ticket, now_serving, ticket>>
    BY <1>5 DEF IrqSave, IrqRestore, GateEntry, GateReturn
  <2>2. /\ Ticketed' = Ticketed
        /\ \A y \in Ctx : pc'[y] = "held" => pc[y] = "held"
    BY <1>0, <1>1, <1>2, <1>5 DEF IrqSave, IrqRestore, GateEntry, GateReturn, Ticketed
  <2> QED BY <1>3, <1>4, <2>1, <2>2
<1>6. CASE Enter(c)
  <2>1. /\ UNCHANGED <<next_ticket, now_serving, ticket>>
        /\ now_serving = ticket[x] /\ pc[x] = "spin" /\ pc' = [pc EXCEPT ![x] = "held"]
    BY <1>0, <1>6 DEF Enter
  <2>2. Ticketed' = Ticketed
    BY <1>1, <1>2, <2>1 DEF Ticketed
  <2>3. Turn(x) = 0
    BY <1>1, <1>2, <2>1, DistRange DEF Turn
  <2> QED BY <1>2, <1>3, <1>4, <2>1, <2>2, <2>3
<1>7. CASE TakeTicket(c)
  <2>1. /\ pc[x] \in {"saved", "out"}
        /\ ticket' = [ticket EXCEPT ![x] = next_ticket]
        /\ next_ticket' = Inc(next_ticket) /\ now_serving' = now_serving
        /\ pc' = [pc EXCEPT ![x] = "spin"]
    BY <1>0, <1>7 DEF TakeTicket
  <2>2. Ticketed' = Ticketed \cup {x} /\ x \notin Ticketed
    BY <1>1, <1>2, <2>1 DEF Ticketed
  <2>3. IsFiniteSet(Ticketed') /\ Cardinality(Ticketed') = k + 1
    BY <1>3, <2>2, FS_AddElement DEF k
  <2>4. k + 1 <= TicketSpace
    <3>1. \A y, z \in Ticketed' : y[1] = z[1] => y = z
      <4>1. \A y, z \in Ticketed : y[1] = z[1] => y = z
        BY <1>1, IrqInvOnePerCPU
      <4>2. ASSUME NEW y \in Ticketed, y[1] = c PROVE FALSE
        <5>1. PICK l \in Levels : y = <<c, l>>
          BY <4>2 DEF Ticketed, Ctx
        <5>2. l = level[c]
          BY Zenon, <5>1, <1>1 DEF IrqInv, TypeOK, Levels, Ticketed
        <5> QED BY <5>1, <5>2, <1>0, <2>2 DEF Running
      <4>3. x[1] = c
        BY <1>0 DEF Running
      <4> QED BY <4>1, <4>2, <4>3, <2>2
    <3> QED BY <3>1, <2>3, <1>1, <1>2, <2>2, OnePerCPU
  <2>5. \A y \in Ticketed : Turn(y)' = Turn(y)
    BY <1>2, <2>1, <2>2 DEF Turn, TypeOK
  <2>6. Turn(x)' = k
    <3>1. ticket'[x] = next_ticket
      BY <1>1, <2>1 DEF TypeOK
    <3> QED BY <3>1, <1>2, <1>3, <2>1, <2>4, PlusFacts DEF Turn
  <2>7. next_ticket' = Plus(now_serving', k + 1)
    BY <1>2, <1>3, <2>1, <2>4, PlusFacts
  <2>8. \A y \in Ticketed' : Turn(y)' \in 0 .. ((k + 1) - 1)
    BY <1>3, <2>2, <2>5, <2>6
  <2>9. \A y, z \in Ticketed' : Turn(y)' = Turn(z)' => y = z
    BY <1>3, <2>2, <2>5, <2>6
  <2>10. \A i \in 0 .. ((k + 1) - 1) : \E y \in Ticketed' : Turn(y)' = i
    <3> SUFFICES ASSUME NEW i \in 0 .. ((k + 1) - 1) PROVE \E y \in Ticketed' : Turn(y)' = i
      OBVIOUS
    <3>1. CASE i = k
      BY <3>1, <2>2, <2>6
    <3>2. CASE i # k
      <4>1. i \in 0 .. (k - 1)
        BY <3>2, <1>3
      <4> QED BY <4>1, <1>3, <2>2, <2>5
    <3> QED BY <3>1, <3>2
  <2>11. \A y \in Ctx : pc'[y] = "held" => Turn(y)' = 0
    <3> SUFFICES ASSUME NEW y \in Ctx, pc'[y] = "held" PROVE Turn(y)' = 0
      OBVIOUS
    <3>1. y # x /\ pc[y] = "held"
      BY <1>1, <1>2, <2>1
    <3>2. y \in Ticketed
      BY <3>1 DEF Ticketed
    <3> QED BY <3>1, <3>2, <1>3, <2>5
  <2> QED BY <2>3, <2>4, <2>7, <2>8, <2>9, <2>10, <2>11 DEF TicketInv
<1>8. CASE Release(c)
  <2>1. /\ pc[x] = "held" /\ now_serving' = Inc(now_serving)
        /\ UNCHANGED <<next_ticket, ticket>>
        /\ pc' = [pc EXCEPT ![x] = IF flags[x] = "none" THEN "out" ELSE "unlocked"]
    BY <1>0, <1>8 DEF Release
  <2>2. Ticketed' = Ticketed \ {x} /\ x \in Ticketed /\ Turn(x) = 0
    BY <1>1, <1>2, <1>3, <2>1 DEF Ticketed
  <2>3. IsFiniteSet(Ticketed') /\ Cardinality(Ticketed') = k - 1
    BY Zenon, <1>3, <2>2, FS_RemoveElement DEF k
  <2>4. k >= 1
    BY <1>3, <2>2
  <2>5. \A y \in Ticketed' : Turn(y)' = Turn(y) - 1 /\ Turn(y) \in 1 .. (k - 1)
    <3> SUFFICES ASSUME NEW y \in Ticketed' PROVE Turn(y)' = Turn(y) - 1 /\ Turn(y) \in 1 .. (k - 1)
      OBVIOUS
    <3>1. y \in Ticketed /\ y # x /\ y \in Ctx
      BY <1>2, <2>2
    <3>2. Turn(y) # 0 /\ Turn(y) \in 0 .. (k - 1)
      BY <3>1, <1>3, <2>2
    <3>3. ticket[y] # now_serving
      BY <3>1, <3>2, <1>2, DistRange DEF Turn
    <3> QED BY <3>1, <3>2, <3>3, <1>2, <1>3, <2>1, DistInc DEF Turn
  <2>6. next_ticket' = Plus(now_serving', k - 1)
    BY <1>2, <1>3, <2>1, <2>4, PlusFacts
  <2>7. \A y \in Ticketed' : Turn(y)' \in 0 .. ((k - 1) - 1)
    BY <1>3, <2>5
  <2>8. \A y, z \in Ticketed' : Turn(y)' = Turn(z)' => y = z
    <3> SUFFICES ASSUME NEW y \in Ticketed', NEW z \in Ticketed', Turn(y)' = Turn(z)' PROVE y = z
      OBVIOUS
    <3>1. Turn(y) = Turn(z)
      BY <1>3, <2>5
    <3> QED BY <3>1, <1>3, <2>2
  <2>9. \A i \in 0 .. ((k - 1) - 1) : \E y \in Ticketed' : Turn(y)' = i
    <3> SUFFICES ASSUME NEW i \in 0 .. ((k - 1) - 1) PROVE \E y \in Ticketed' : Turn(y)' = i
      OBVIOUS
    <3>1. i + 1 \in 0 .. (k - 1)
      BY <1>3
    <3>2. PICK y \in Ticketed : Turn(y) = i + 1
      BY <3>1, <1>3
    <3>3. y \in Ticketed'
      BY <3>2, <2>2
    <3> QED BY <3>2, <3>3, <2>5
  <2>10. \A y \in Ctx : pc'[y] = "held" => Turn(y)' = 0
    <3> SUFFICES ASSUME NEW y \in Ctx, pc'[y] = "held" PROVE FALSE
      OBVIOUS
    <3>1. y # x /\ pc[y] = "held"
      BY <1>1, <1>2, <2>1
    <3>2. y \in Ticketed /\ Turn(y) = 0
      BY <3>1, <1>3 DEF Ticketed
    <3> QED BY <3>1, <3>2, <1>3, <2>2
  <2>11. k - 1 <= TicketSpace
    BY <1>2, <1>3
  <2> QED BY <2>3, <2>6, <2>7, <2>8, <2>9, <2>10, <2>11 DEF TicketInv
<1> QED BY <1>5, <1>6, <1>7, <1>8 DEF Step
-----------------------------------------------------------------------------
(* The theorems.                                                           *)

\* The invariant holds in every reachable state.
THEOREM SpinInvariant == Spec => []SpinInv
<1>1. SpinInv /\ [Next]_vars => SpinInv'
  <2> SUFFICES ASSUME SpinInv, [Next]_vars PROVE SpinInv'
    OBVIOUS
  <2>1. ASSUME NEW c \in CPUs, Step(c) PROVE SpinInv'
    BY <2>1, TypeStep, IrqStep, TicketStep DEF SpinInv
  <2>2. CASE UNCHANGED vars
    <3>1. Ticketed' = Ticketed /\ \A x : Turn(x)' = Turn(x)
      BY <2>2 DEF vars, Ticketed, Turn
    <3>2. TypeOK' /\ IrqInv'
      BY <2>2 DEF vars, SpinInv, TypeOK, IrqInv
    <3>3. TicketInv'
      BY <2>2, <3>1 DEF vars, SpinInv, TicketInv
    <3> QED BY <3>2, <3>3 DEF SpinInv
  <2> QED BY <2>1, <2>2 DEF Next
<1> QED BY InitSpinInv, <1>1, PTL DEF Spec

\* Type correctness: the counters stay in the range of a uint16_t.
THEOREM TypeCorrect == Spec => []TypeOK
<1>1. SpinInv => TypeOK
  BY DEF SpinInv
<1> QED BY SpinInvariant, <1>1, PTL

\* spinlock_acquire returns to one context at a time.
THEOREM Exclusion == Spec => []MutualExclusion
<1>1. SpinInv => MutualExclusion
  <2> SUFFICES ASSUME SpinInv, NEW x \in Ctx, NEW y \in Ctx, pc[x] = "held", pc[y] = "held"
               PROVE  x = y
    BY DEF MutualExclusion
  <2>1. x \in Ticketed /\ y \in Ticketed
    BY DEF Ticketed
  <2>2. Turn(x) = 0 /\ Turn(y) = 0
    BY DEF SpinInv, TicketInv
  <2> QED BY <2>1, <2>2 DEF SpinInv, TicketInv
<1> QED BY SpinInvariant, <1>1, PTL

\* No interrupt handler waits for a lock that its own CPU's interrupted code holds,
\* and the interrupt flag is restored to what it was (the irqsave variants).
THEOREM InterruptsSafe == Spec => []InterruptSafe
<1>1. SpinInv => NoSelfDeadlock
  BY Zenon DEF SpinInv, TypeOK, IrqInv, NoSelfDeadlock, Levels
<1>2. SpinInv => IrqDiscipline
  BY Zenon DEF SpinInv, TypeOK, IrqInv, IrqDiscipline, Levels
<1>3. SpinInv => InterruptSafe
  BY <1>1, <1>2 DEF InterruptSafe
<1> QED BY SpinInvariant, <1>3, PTL

\* The contexts in line: a sequence in which context x is at place Turn(x) + 1.
LEMMA LineFacts ==
    ASSUME SpinInv
    PROVE  /\ Line \in Seq(Ctx) /\ Len(Line) = Cardinality(Ticketed)
           /\ Cardinality(Ticketed) \in Nat
           /\ \A x \in Ticketed : Turn(x) + 1 \in 1 .. Len(Line) /\ Line[Turn(x) + 1] = x
           /\ \A i \in 1 .. Len(Line) : Line[i] \in Ticketed /\ Turn(Line[i]) = i - 1
<1> DEFINE k == Cardinality(Ticketed)
<1>1. /\ k \in Nat /\ IsFiniteSet(Ticketed)
      /\ \A x \in Ticketed : Turn(x) \in 0 .. (k - 1)
      /\ \A x, y \in Ticketed : Turn(x) = Turn(y) => x = y
      /\ \A i \in 0 .. (k - 1) : \E x \in Ticketed : Turn(x) = i
  BY FS_CardinalityType DEF SpinInv, TicketInv
<1>2. Line = [i \in 1 .. k |-> CHOOSE x \in Ticketed : Turn(x) = i - 1]
  BY DEF Line
<1> HIDE DEF k
<1>3. ASSUME NEW i \in 1 .. k PROVE Line[i] \in Ticketed /\ Turn(Line[i]) = i - 1
  <2>1. i - 1 \in 0 .. (k - 1)
    BY <1>1
  <2>2. \E x \in Ticketed : Turn(x) = i - 1
    BY <1>1, <2>1
  <2> QED BY <1>2, <2>2
<1>4. Line \in Seq(Ctx) /\ Len(Line) = k
  <2>1. \A i \in 1 .. k : Line[i] \in Ctx
    BY <1>3 DEF Ticketed
  <2> QED BY <1>1, <1>2, <2>1, IsASeq
<1>5. ASSUME NEW x \in Ticketed PROVE Turn(x) + 1 \in 1 .. k /\ Line[Turn(x) + 1] = x
  <2>1. Turn(x) + 1 \in 1 .. k /\ (Turn(x) + 1) - 1 = Turn(x)
    BY <1>1
  <2> QED BY <2>1, <1>1, <1>3
<1> QED BY <1>1, <1>3, <1>4, <1>5 DEF k

\* The same in the next state.
LEMMA LineFactsNext ==
    ASSUME SpinInv'
    PROVE  /\ Line' \in Seq(Ctx) /\ Len(Line') = Cardinality(Ticketed')
           /\ Cardinality(Ticketed') \in Nat
           /\ \A x \in Ticketed' : Turn(x)' + 1 \in 1 .. Len(Line') /\ Line'[Turn(x)' + 1] = x
<1>1. (/\ Line \in Seq(Ctx) /\ Len(Line) = Cardinality(Ticketed)
       /\ Cardinality(Ticketed) \in Nat
       /\ \A x \in Ticketed : Turn(x) + 1 \in 1 .. Len(Line) /\ Line[Turn(x) + 1] = x)'
  BY LineFacts, PTL
<1> QED BY <1>1

\* The ticket lock implements the FIFO lock: the fetch-and-add is Arrive, the end
\* of the spin loop is Enter, spinlock_release is Leave, and saving, restoring
\* and taking interrupts is invisible.
THEOREM Refinement == Spec => ImplementsFifoLock
<1> DEFINE H == {x \in Ctx : pc[x] = "held"}
<1>1. Init => Fifo!Init
  <2> SUFFICES ASSUME Init PROVE Fifo!Init
    OBVIOUS
  <2>1. Ticketed = {} /\ {x \in Ctx : pc[x] = "held"} = {}
    BY DEF Init, Ticketed
  <2>2. Cardinality(Ticketed) = 0
    BY <2>1, FS_EmptySet
  <2>3. Line \in Seq(Ctx) /\ Len(Line) = 0
    BY <2>2, InitSpinInv, LineFacts
  <2>4. Line = <<>>
    BY <2>3
  <2> QED BY <2>1, <2>4 DEF Fifo!Init
<1>2. SpinInv /\ SpinInv' /\ [Next]_vars => [Fifo!Next]_Fifo!vars
  <2> SUFFICES ASSUME SpinInv, SpinInv', [Next]_vars PROVE [Fifo!Next]_Fifo!vars
    OBVIOUS
  <2>0. /\ Line \in Seq(Ctx) /\ Len(Line) = Cardinality(Ticketed)
        /\ Cardinality(Ticketed) \in Nat
        /\ \A x \in Ticketed : Turn(x) + 1 \in 1 .. Len(Line) /\ Line[Turn(x) + 1] = x
        /\ \A i \in 1 .. Len(Line) : Line[i] \in Ticketed /\ Turn(Line[i]) = i - 1
    BY LineFacts
  <2>n. /\ Line' \in Seq(Ctx) /\ Len(Line') = Cardinality(Ticketed')
        /\ \A x \in Ticketed' : Turn(x)' + 1 \in 1 .. Len(Line') /\ Line'[Turn(x)' + 1] = x
    BY LineFactsNext
  <2>t. /\ TypeOK /\ TicketInv /\ IsFiniteSet(Ticketed) /\ pc \in [Ctx -> PCs]
        /\ \A x \in Ctx : ticket[x] \in Tickets
        /\ now_serving \in Tickets /\ next_ticket \in Tickets
        /\ \A x \in Ctx : pc[x] = "held" => Turn(x) = 0
        /\ \A x, y \in Ticketed : Turn(x) = Turn(y) => x = y
    BY DEF SpinInv, TicketInv, TypeOK
  <2>1. ASSUME UNCHANGED <<now_serving, ticket>>, Ticketed' = Ticketed PROVE Line' = Line
    <3>1. \A x : Turn(x)' = Turn(x)
      BY <2>1 DEF Turn
    <3> QED BY <2>1, <3>1 DEF Line
  <2>2. ASSUME NEW c \in CPUs, Step(c) PROVE [Fifo!Next]_Fifo!vars
    <3>1. PICK x \in Ctx : x = Running(c)
      BY Zenon DEF SpinInv, Running, Ctx, TypeOK
    <3>2. CASE IrqSave(c) \/ IrqRestore(c) \/ GateEntry(c) \/ GateReturn(c)
      <4>1. UNCHANGED <<now_serving, ticket>>
        BY <3>2 DEF IrqSave, IrqRestore, GateEntry, GateReturn
      <4>2. Ticketed' = Ticketed /\ H' = H
        BY <2>t, <3>1, <3>2 DEF IrqSave, IrqRestore, GateEntry, GateReturn, Ticketed
      <4>3. Line' = Line
        BY <2>1, <4>1, <4>2
      <4> QED BY <4>2, <4>3 DEF Fifo!vars
    <3>3. CASE TakeTicket(c)
      <4>1. /\ pc[x] \in {"saved", "out"}
            /\ ticket' = [ticket EXCEPT ![x] = next_ticket] /\ now_serving' = now_serving
            /\ pc' = [pc EXCEPT ![x] = "spin"]
        BY <3>1, <3>3 DEF TakeTicket
      <4>2. Ticketed' = Ticketed \cup {x} /\ x \notin Ticketed /\ H' = H
        BY <2>t, <4>1 DEF Ticketed
      <4>3. Cardinality(Ticketed') = Cardinality(Ticketed) + 1
        BY Zenon, <2>t, <4>2, FS_AddElement
      <4>4. \A y \in Ticketed : Turn(y)' = Turn(y)
        BY <4>1, <4>2, <2>t DEF Turn, TypeOK, Ticketed
      <4>5. ASSUME NEW i \in 1 .. Len(Line) PROVE Line'[i] = Line[i]
        <5>1. Line[i] \in Ticketed /\ Turn(Line[i]) = i - 1
          BY <2>0
        <5>2. PICK y \in Ticketed : y = Line[i]
          BY <5>1
        <5>3. y \in Ticketed' /\ Turn(y)' = i - 1
          BY <5>1, <5>2, <4>2, <4>4
        <5>4. Line'[(i - 1) + 1] = y
          BY <5>3, <2>n
        <5> QED BY <5>2, <5>4, <2>0
      <4>6. Line'[Len(Line) + 1] = x
        <5>1. \A j \in 1 .. Len(Line) : Line'[j] # x
          BY <4>5, <4>2, <2>0
        <5>2. x \in Ticketed'
          BY <4>2
        <5>3. Turn(x)' + 1 \in 1 .. (Len(Line) + 1) /\ Line'[Turn(x)' + 1] = x
          BY <5>2, <2>n, <2>0, <4>3
        <5> QED BY <5>1, <5>3, <2>0
      <4>7. Line' = Append(Line, x)
        <5>1. /\ Append(Line, x) \in Seq(Ctx) /\ Len(Append(Line, x)) = Len(Line) + 1
              /\ \A i \in 1 .. Len(Line) : Append(Line, x)[i] = Line[i]
              /\ Append(Line, x)[Len(Line) + 1] = x
          BY <2>0, AppendProperties
        <5>2. Len(Line') = Len(Append(Line, x))
          BY <5>1, <2>0, <2>n, <4>3
        <5>3. \A i \in 1 .. Len(Line') : Line'[i] = Append(Line, x)[i]
          BY <5>1, <5>2, <4>5, <4>6, <2>0
        <5> HIDE <4>1
        <5> QED BY <5>1, <5>2, <5>3, <2>n, SeqEqual
      <4>8. \A i \in DOMAIN Line : Line[i] # x
        BY <2>0, <4>2
      <4>9. Fifo!Arrive(x)
        BY <4>2, <4>7, <4>8 DEF Fifo!Arrive
      <4> QED BY <4>9 DEF Fifo!Next
    <3>4. CASE Enter(c)
      <4>1. /\ UNCHANGED <<now_serving, ticket>>
            /\ now_serving = ticket[x] /\ pc[x] = "spin" /\ pc' = [pc EXCEPT ![x] = "held"]
        BY <3>1, <3>4 DEF Enter
      <4>2. Ticketed' = Ticketed /\ x \in Ticketed
        BY <2>t, <4>1 DEF Ticketed
      <4>3. Line' = Line
        BY <2>1, <4>1, <4>2
      <4>4. Turn(x) = 0
        BY <2>t, <4>1, DistRange DEF Turn
      <4>5. Line[1] = x /\ Line # <<>>
        BY <2>0, <4>2, <4>4
      <4>6. Head(Line) = x
        BY <2>0, <4>5
      <4>7. H = {}
        <5> SUFFICES ASSUME NEW y \in Ctx, pc[y] = "held" PROVE FALSE
          OBVIOUS
        <5>1. y \in Ticketed /\ Turn(y) = 0
          BY <2>t DEF Ticketed
        <5> QED BY <5>1, <2>t, <4>1, <4>2, <4>4
      <4>8. H' = {x}
        BY <2>t, <4>1, <4>7
      <4>9. Fifo!Enter
        BY <4>3, <4>5, <4>6, <4>7, <4>8 DEF Fifo!Enter
      <4> QED BY <4>9 DEF Fifo!Next
    <3>5. CASE Release(c)
      <4>1. /\ pc[x] = "held" /\ now_serving' = Inc(now_serving) /\ ticket' = ticket
            /\ pc' = [pc EXCEPT ![x] = IF flags[x] = "none" THEN "out" ELSE "unlocked"]
        BY <3>1, <3>5 DEF Release
      <4>2. Ticketed' = Ticketed \ {x} /\ x \in Ticketed /\ Turn(x) = 0
        BY <2>t, <4>1 DEF Ticketed
      <4>3. Line[1] = x /\ Line # <<>> /\ Len(Line) >= 1
        BY <2>0, <4>2
      <4>4. Head(Line) = x
        BY <2>0, <4>3
      <4>5. H = {x}
        <5> SUFFICES ASSUME NEW y \in Ctx, pc[y] = "held" PROVE y = x
          BY <4>1
        <5>1. y \in Ticketed /\ Turn(y) = 0
          BY <2>t DEF Ticketed
        <5> QED BY <5>1, <2>t, <4>2
      <4>6. H' = {}
        BY <2>t, <4>1, <4>5
      <4>7. Cardinality(Ticketed') = Cardinality(Ticketed) - 1
        BY Zenon, <2>t, <4>2, FS_RemoveElement
      <4>8. ASSUME NEW i \in 1 .. (Len(Line) - 1) PROVE Line'[i] = Line[i + 1]
        <5>1. i + 1 \in 1 .. Len(Line)
          BY <2>0
        <5>2. Line[i + 1] \in Ticketed /\ Turn(Line[i + 1]) = (i + 1) - 1
          BY <5>1, <2>0
        <5>3. PICK y \in Ticketed : y = Line[i + 1] /\ Turn(y) = i
          BY <5>2
        <5>4. y \in Ctx /\ ticket[y] # now_serving /\ y # x
          BY <5>3, <2>t, <4>2, DistRange DEF Turn, Ticketed
        <5>5. Turn(y)' = i - 1
          BY <5>3, <5>4, <2>t, <4>1, DistInc DEF Turn
        <5>6. y \in Ticketed'
          BY <5>3, <5>4, <4>2
        <5>7. Line'[(i - 1) + 1] = y
          BY <5>5, <5>6, <2>n
        <5> QED BY <5>3, <5>7, <2>0
      <4>9. Line' = Tail(Line)
        <5>1. /\ Tail(Line) \in Seq(Ctx) /\ Len(Tail(Line)) = Len(Line) - 1
              /\ \A i \in 1 .. Len(Tail(Line)) : Tail(Line)[i] = Line[i + 1]
          BY <2>0, <4>3, HeadTailProperties
        <5>2. Len(Line') = Len(Tail(Line))
          BY <5>1, <2>0, <2>n, <4>7
        <5>3. \A i \in 1 .. Len(Line') : Line'[i] = Tail(Line)[i]
          BY <5>1, <5>2, <4>8
        <5> QED BY <5>1, <5>2, <5>3, <2>n, SeqEqual
      <4>10. Fifo!Leave
        BY <4>3, <4>4, <4>5, <4>6, <4>9 DEF Fifo!Leave
      <4> QED BY <4>10 DEF Fifo!Next
    <3> QED BY <2>2, <3>2, <3>3, <3>4, <3>5 DEF Step
  <2>3. CASE UNCHANGED vars
    <3>1. Ticketed' = Ticketed /\ H' = H
      BY <2>3 DEF vars, Ticketed
    <3>2. Line' = Line
      BY <2>1, <2>3, <3>1 DEF vars
    <3> QED BY <3>1, <3>2 DEF Fifo!vars
  <2> QED BY <2>2, <2>3 DEF Next
<1> QED BY SpinInvariant, <1>1, <1>2, PTL DEF Spec, ImplementsFifoLock, Fifo!Spec
=============================================================================
