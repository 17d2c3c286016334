------------------------------- MODULE Start --------------------------------
(***************************************************************************)
(* The start of the CPUs and the interrupt lines: what is proved of the    *)
(* two modules Smp and Irq.  For each the invariant IInv of its module     *)
(* holds in the initial states, every step keeps it, and the properties    *)
(* follow from it, for all values of the constants that are Sane.  Machine *)
(* puts the two beside the other parts, for TLC.                           *)
(***************************************************************************)
EXTENDS Integers, Sequences, FiniteSets, TLAPS

-----------------------------------------------------------------------------
(* Interrupt lines and vectors: ioapic.c, irq.c, msi.c.                    *)

CONSTANTS Cards, Pins, Gsis, HwVectors

VARIABLES irq_madt, override, domain_end, virq_table, virq_alloc, redir, msi, doing, registered,
          pending, service, wrong

Irq == INSTANCE Irq WITH madt <- irq_madt

ASSUME IrqSane == Irq!Sane

\* The last override of the MADT for an interrupt names a GSI.
LEMMA IrqGsiNat ==
  ASSUME Irq!Types, NEW irq, NEW none \in Nat
  PROVE  Irq!Gsi(irq, none) \in Nat
<1>1. CASE Irq!Named(irq) = {}
  BY <1>1 DEF Irq!Gsi
<1>2. CASE Irq!Named(irq) # {}
  <2>1. Irq!Named(irq) \subseteq {1, 2} \cap DOMAIN irq_madt
    BY DEF Irq!Named, Irq!Types
  <2>2. \E k \in Irq!Named(irq) : \A j \in Irq!Named(irq) : j <= k
    BY <1>2, <2>1
  <2>3. (CHOOSE k \in Irq!Named(irq) : \A j \in Irq!Named(irq) : j <= k) \in Irq!Named(irq)
    BY <2>2
  <2> QED BY <1>2, <2>1, <2>3 DEF Irq!Gsi, Irq!Types
<1> QED BY <1>1, <1>2

\* The pin that the IOAPIC is set up for is the one to which the line is wired,
\* except that the keyboard on pin 0 reads as no override.
LEMMA IrqPinOfWire ==
  ASSUME Irq!IInv, domain_end >= 0, NEW line \in {"pit", "kbd"}
  PROVE  /\ Irq!Wire(line) \in Nat /\ Irq!Pin(line) \in Nat
         /\ Irq!Pin(line) = Irq!Wire(line) \/ (line = "kbd" /\ Irq!Wire(line) = 0)
<1>1. Irq!Hw(line) \in {0, 1} /\ (Irq!Hw(line) = 1 <=> line = "kbd")
  BY DEF Irq!Hw
<1>2. override[Irq!Hw(line)] = Irq!Gsi(Irq!Hw(line), 0)
  BY <1>1 DEF Irq!IInv
<1>3. Irq!Gsi(Irq!Hw(line), 0) \in Nat /\ Irq!Gsi(Irq!Hw(line), Irq!Hw(line)) \in Nat
  BY <1>1, IrqGsiNat DEF Irq!IInv
<1>4. Irq!Gsi(Irq!Hw(line), 0) = Irq!Gsi(Irq!Hw(line), Irq!Hw(line)) \/ (Irq!Gsi(Irq!Hw(line), 0) = 0 /\ Irq!Gsi(Irq!Hw(line), Irq!Hw(line)) = Irq!Hw(line))
  BY DEF Irq!Gsi
<1> QED BY <1>1, <1>2, <1>3, <1>4 DEF Irq!Pin, Irq!Wire

\* The lines are finitely many, and so are those that have a vector.
LEMMA IrqLinesFinite ==
  ASSUME Irq!Finiteness, Irq!Sane
  PROVE  Irq!IsFiniteSet(Irq!Lines) /\ Irq!Cardinality(Irq!Lines) \in Nat
<1>1. Irq!IsFiniteSet({"pit", "kbd"})
  <2>1. Irq!IsFiniteSet({"pit"}) /\ Irq!IsFiniteSet({"kbd"})
    BY Zenon DEF Irq!Finiteness
  <2>2. {"pit", "kbd"} = {"pit"} \cup {"kbd"}
    OBVIOUS
  <2> QED BY <2>1, <2>2 DEF Irq!Finiteness
<1>2. Irq!IsFiniteSet(Irq!Lines)
  BY <1>1 DEF Irq!Finiteness, Irq!Sane, Irq!Lines
<1> QED BY <1>2 DEF Irq!Finiteness

\* The next vector is a number, and none of the exceptions.
LEMMA IrqAllocNat ==
  ASSUME Irq!Finiteness, Irq!Sane, Irq!IInv
  PROVE  virq_alloc \in Nat /\ virq_alloc >= Irq!First /\ virq_alloc <= Irq!First + Irq!Cardinality(Irq!Lines) /\ Irq!Syscall \in Nat
<1>1. virq_alloc \in Irq!First .. Irq!First + Irq!Cardinality(Irq!Lines)
  BY DEF Irq!IInv, Irq!TypeOK
<1> QED BY <1>1, IrqLinesFinite DEF Irq!First, Irq!Syscall, Irq!Sane

\* The state before ioapic_init: nothing is registered, every entry masked.
LEMMA IrqInitIInv == ASSUME Irq!Finiteness, Irq!Sane, Irq!Init PROVE Irq!IInv
<1> USE DEF Irq!Init
<1>1. Irq!Cardinality(Irq!Lines) \in Nat
  BY IrqLinesFinite
<1>2. Irq!Numbered = {} /\ Irq!Cardinality(Irq!Numbered) = 0
  BY DEF Irq!Finiteness, Irq!Numbered
<1>3. Irq!TypeOK
  BY <1>1 DEF Irq!TypeOK, Irq!First
<1>4. Irq!Types
  <2>1. \A k \in DOMAIN irq_madt : k \in {1, 2} /\ irq_madt[k].gsi \in Nat
    BY DEF Irq!Sane
  <2>2. redir \in [0 .. Pins - 1 -> Nat] /\ msi \in [Cards -> [vector : Nat, open : BOOLEAN]]
    BY DEF Irq!Masked
  <2> QED BY <2>1, <2>2 DEF Irq!Types
<1>5. virq_alloc = Irq!First + Irq!Cardinality(Irq!Numbered)
  BY <1>2 DEF Irq!First
<1>6. \A v \in DOMAIN virq_table : virq_table[v] = Irq!NoVirq <=> v >= virq_alloc
  BY <1>1 DEF Irq!First
<1>7. Irq!RightHandler
  BY DEF Irq!RightHandler
<1>8. \A p \in DOMAIN redir : redir[p] = Irq!Masked
  OBVIOUS
<1>9. \A c \in Cards : ~msi[c].open
  OBVIOUS
<1> QED BY <1>3, <1>4, <1>5, <1>6, <1>7, <1>8, <1>9 DEF Irq!IInv

\* What does not depend on the variables that a step changes.
LEMMA IrqWiring ==
  ASSUME irq_madt' = irq_madt
  PROVE  /\ \A line : Irq!Wire(line)' = Irq!Wire(line)
         /\ \A irq, none : Irq!Gsi(irq, none)' = Irq!Gsi(irq, none)
         /\ Irq!Crossed' = Irq!Crossed
BY DEF Irq!Wire, Irq!Gsi, Irq!Named, Irq!Crossed

\* ioapic_init reads the overrides of the MADT and masks the entries.
LEMMA IrqIoapicInit == ASSUME Irq!Finiteness, Irq!Sane, Irq!IInv, Irq!ioapic_init PROVE Irq!IInv'
<1> USE DEF Irq!ioapic_init
<1>1. UNCHANGED <<irq_madt, virq_table, virq_alloc, redir, msi, doing, registered, pending, service, wrong>>
  OBVIOUS
<1>2. registered = {} /\ doing = Irq!Idle
  BY DEF Irq!IInv
<1>3. Irq!Numbered = {} /\ Irq!Cardinality(Irq!Numbered) = 0
  BY <1>2 DEF Irq!Finiteness, Irq!Numbered
<1>4. virq_alloc = Irq!First
  BY <1>3 DEF Irq!IInv, Irq!First
<1>5. \A p \in DOMAIN redir : redir[p] = Irq!Masked
  BY <1>4 DEF Irq!IInv, Irq!Given, Irq!First
<1>6. Irq!TypeOK' /\ Irq!Types'
  <2>1. override' \in [{0, 1} -> Nat]
    BY IrqGsiNat DEF Irq!IInv
  <2> QED BY <2>1 DEF Irq!IInv, Irq!TypeOK, Irq!Types
<1>7. domain_end' >= 0 /\ \A i \in {0, 1} : override'[i] = Irq!Gsi(i, 0)'
  BY IrqWiring DEF Irq!Sane
<1>8. Irq!Numbered' = Irq!Numbered
  BY DEF Irq!Numbered
<1>9. Irq!RightHandler'
  BY IrqWiring DEF Irq!IInv, Irq!RightHandler
<1>10. pending' = {}
  BY <1>4 DEF Irq!IInv, Irq!OwnVector, Irq!Given, Irq!First
<1>11. \A c \in Cards : ~msi[c].open
  BY <1>2 DEF Irq!IInv
<1>12. virq_alloc' = Irq!First + Irq!Cardinality(Irq!Numbered')
  BY <1>8 DEF Irq!IInv
<1>13. \A v \in DOMAIN virq_table' : virq_table'[v] = Irq!NoVirq <=> v >= virq_alloc'
  BY DEF Irq!IInv
<1>14. \A p \in DOMAIN redir' : redir'[p] = Irq!Masked
  BY <1>5
<1> QED BY <1>1, <1>2, <1>6, <1>7, <1>9, <1>10, <1>11, <1>12, <1>13, <1>14 DEF Irq!IInv

\* Giving the next vector to a line that has none.
LEMMA IrqFillNext ==
  ASSUME Irq!Finiteness, Irq!Sane, Irq!IInv, NEW line \in Irq!Lines, line \notin Irq!Numbered, Irq!Fill(line), Irq!Numbered' = Irq!Numbered \cup {line},
         irq_madt' = irq_madt, NEW n \in Nat, n = virq_alloc
  PROVE  /\ virq_alloc \in DOMAIN virq_table /\ virq_alloc' = virq_alloc + 1 /\ virq_alloc \in Nat
         /\ virq_alloc' = Irq!First + Irq!Cardinality(Irq!Numbered')
         /\ virq_alloc' \in Irq!First .. Irq!First + Irq!Cardinality(Irq!Lines)
         /\ virq_table' \in [Irq!First .. Irq!First + Irq!Cardinality(Irq!Lines) - 1 -> Irq!Lines \cup {Irq!NoVirq}]
         /\ \A v \in DOMAIN virq_table' : virq_table'[v] = Irq!NoVirq <=> v >= virq_alloc'
         /\ \A v : Irq!Given(v) => Irq!Given(v)' /\ virq_table'[v] = virq_table[v]
         /\ Irq!Given(n)' /\ virq_table'[n] = line
         /\ \A v, l : Irq!OwnVector(v, l) => Irq!OwnVector(v, l)'
<1>1. Irq!Cardinality(Irq!Lines) \in Nat /\ Irq!IsFiniteSet(Irq!Lines)
  BY IrqLinesFinite
<1>2. Irq!Numbered \subseteq Irq!Lines
  <2>1. registered \subseteq Irq!Lines
    BY DEF Irq!IInv, Irq!TypeOK
  <2>2. doing # Irq!Idle => doing.line \in Irq!Lines
    BY DEF Irq!IInv, Irq!Types, Irq!Lines
  <2> QED BY <2>1, <2>2 DEF Irq!Numbered
<1>3. /\ Irq!IsFiniteSet(Irq!Numbered) /\ Irq!Cardinality(Irq!Numbered) \in Nat
      /\ Irq!Cardinality(Irq!Numbered') = Irq!Cardinality(Irq!Numbered) + 1
  <2>1. Irq!IsFiniteSet(Irq!Numbered)
    BY Zenon, <1>1, <1>2 DEF Irq!Finiteness
  <2> QED BY <2>1 DEF Irq!Finiteness
<1>4. Irq!Cardinality(Irq!Numbered') <= Irq!Cardinality(Irq!Lines)
  BY <1>1, <1>2 DEF Irq!Finiteness
<1>5. /\ virq_alloc = Irq!First + Irq!Cardinality(Irq!Numbered) /\ virq_alloc' = virq_alloc + 1
      /\ virq_table' = [virq_table EXCEPT ![virq_alloc] = line]
  BY DEF Irq!IInv, Irq!Fill
<1>6. /\ virq_table \in [Irq!First .. Irq!First + Irq!Cardinality(Irq!Lines) - 1 -> Irq!Lines \cup {Irq!NoVirq}]
      /\ \A v \in DOMAIN virq_table : virq_table[v] = Irq!NoVirq <=> v >= virq_alloc
  BY DEF Irq!IInv, Irq!Types
<1>7. line # Irq!NoVirq
  BY DEF Irq!Sane, Irq!Lines, Irq!NoVirq
<1>8. /\ virq_alloc \in DOMAIN virq_table /\ virq_alloc \in Nat
      /\ virq_alloc' = Irq!First + Irq!Cardinality(Irq!Numbered') /\ virq_alloc' \in Irq!First .. Irq!First + Irq!Cardinality(Irq!Lines)
  BY <1>1, <1>3, <1>4, <1>5, <1>6 DEF Irq!First
<1>9. virq_table' \in [Irq!First .. Irq!First + Irq!Cardinality(Irq!Lines) - 1 -> Irq!Lines \cup {Irq!NoVirq}]
  BY Zenon, <1>5, <1>6
<1>10. \A v \in DOMAIN virq_table' : virq_table'[v] = Irq!NoVirq <=> v >= virq_alloc'
  BY <1>5, <1>6, <1>7, <1>8 DEF Irq!First
<1>11. \A v : Irq!Given(v) => Irq!Given(v)' /\ virq_table'[v] = virq_table[v]
  <2> SUFFICES ASSUME NEW v, Irq!Given(v) PROVE Irq!Given(v)' /\ virq_table'[v] = virq_table[v]
    OBVIOUS
  <2> QED BY <1>5, <1>6, <1>8 DEF Irq!Given, Irq!First
<1>12. Irq!Given(n)' /\ virq_table'[n] = line
  BY <1>3, <1>5, <1>8, <1>6 DEF Irq!Given, Irq!First
<1> HIDE DEF Irq!First
<1> QED BY <1>5, <1>8, <1>9, <1>10, <1>11, <1>12, IrqWiring DEF Irq!OwnVector

\* irq_register and ioapic_enable.
LEMMA IrqRegisters == ASSUME Irq!Finiteness, Irq!Sane, Irq!IInv, NEW line \in {"pit", "kbd"}, Irq!irq_register(line) PROVE Irq!IInv'
<1>1. /\ UNCHANGED <<irq_madt, override, domain_end, msi, doing, pending, service, wrong>>
      /\ domain_end >= 0 /\ doing = Irq!Idle /\ line \notin registered /\ Irq!Fill(line)
      /\ registered' = registered \cup {line}
  BY DEF Irq!irq_register
<1>2. Irq!Numbered' = Irq!Numbered \cup {line} /\ line \notin Irq!Numbered
  BY <1>1 DEF Irq!Numbered
<1>3. line \in Irq!Lines /\ line \notin Cards
  BY DEF Irq!Lines, Irq!Sane
<1>4. PICK n \in Nat : n = virq_alloc /\ n # Irq!Masked
  BY IrqAllocNat DEF Irq!First, Irq!Masked
<1>5. /\ virq_alloc' = n + 1 /\ virq_alloc' = Irq!First + Irq!Cardinality(Irq!Numbered')
      /\ virq_alloc' \in Irq!First .. Irq!First + Irq!Cardinality(Irq!Lines)
      /\ virq_table' \in [Irq!First .. Irq!First + Irq!Cardinality(Irq!Lines) - 1 -> Irq!Lines \cup {Irq!NoVirq}]
      /\ \A v \in DOMAIN virq_table' : virq_table'[v] = Irq!NoVirq <=> v >= virq_alloc'
      /\ \A v : Irq!Given(v) => Irq!Given(v)' /\ virq_table'[v] = virq_table[v]
      /\ Irq!Given(n)' /\ virq_table'[n] = line
      /\ \A v, l : Irq!OwnVector(v, l) => Irq!OwnVector(v, l)'
  BY Zenon, <1>1, <1>2, <1>3, <1>4, IrqFillNext
<1>6. \A l : Irq!Pin(l)' = Irq!Pin(l)
  BY <1>1 DEF Irq!Pin
<1>7. PICK p \in Nat : p = Irq!Pin(line)
  BY <1>1, IrqPinOfWire
<1>8. redir \in [0 .. Pins - 1 -> Nat] /\ redir' = IF p < Pins THEN [redir EXCEPT ![p] = n] ELSE redir
  BY <1>4, <1>7 DEF Irq!irq_register, Irq!ioapic_write_redirection_entry, Irq!IInv, Irq!Types
<1>9. Irq!TypeOK' /\ Irq!Types'
  <2>1. redir' \in [0 .. Pins - 1 -> Nat]
    BY <1>8 DEF Irq!Sane
  <2>2. Irq!TypeOK'
    BY Zenon, <1>1, <1>3, <1>5 DEF Irq!IInv, Irq!TypeOK
  <2>3. Irq!Types'
    BY <1>1, <1>5, <2>1 DEF Irq!IInv, Irq!Types
  <2> QED BY <2>2, <2>3
<1>10. \A i \in {0, 1} : override'[i] = Irq!Gsi(i, 0)'
  BY <1>1, IrqWiring DEF Irq!IInv
<1>11. ASSUME NEW q \in DOMAIN redir', redir'[q] # Irq!Masked
       PROVE  /\ redir'[q] \in Irq!First .. virq_alloc' - 1
              /\ \E l \in {"pit", "kbd"} : Irq!Pin(l)' = q /\ virq_table'[redir'[q]] = l
  <2>1. PICK r \in Nat : r = redir'[q]
    BY <1>9 DEF Irq!Types
  <2>2. CASE r = n /\ q = p
    BY <2>1, <2>2, <1>5, <1>6, <1>7 DEF Irq!Given
  <2>3. CASE ~(r = n /\ q = p)
    <3>1. q \in DOMAIN redir /\ redir[q] = r
      BY <2>1, <2>3, <1>8
    <3>2. Irq!Given(r) /\ \E l \in {"pit", "kbd"} : Irq!Pin(l) = q /\ virq_table[r] = l
      BY <3>1, <2>1, <1>11 DEF Irq!IInv
    <3>3. Irq!Given(r)' /\ virq_table'[r] = virq_table[r]
      BY <3>2, <1>5
    <3> QED BY <3>2, <3>3, <2>1, <1>6 DEF Irq!Given
  <2> QED BY <2>2, <2>3
<1>12. \A l \in {"pit", "kbd"} \cap registered' : Irq!Pin(l)' < Pins => redir'[Irq!Pin(l)'] # Irq!Masked
  <2> SUFFICES ASSUME NEW l \in {"pit", "kbd"} \cap registered', Irq!Pin(l) < Pins
               PROVE  redir'[Irq!Pin(l)] # Irq!Masked
    BY <1>6
  <2>1. Irq!Pin(l) \in 0 .. Pins - 1
    BY <1>1, IrqPinOfWire DEF Irq!Sane
  <2>2. l # line => redir[Irq!Pin(l)] # Irq!Masked
    BY <1>1 DEF Irq!IInv
  <2> QED BY <2>1, <2>2, <1>4, <1>7, <1>8
<1>13. \A c \in Cards : /\ msi'[c].open <=> c \in registered'
                        /\ msi'[c].open => msi'[c].vector \in Irq!First .. virq_alloc' - 1
                                           /\ virq_table'[msi'[c].vector] = c
  <2> SUFFICES ASSUME NEW c \in Cards
               PROVE  /\ msi[c].open <=> c \in registered
                      /\ msi[c].open => Irq!Given(msi[c].vector) /\ virq_table[msi[c].vector] = c
    BY <1>1, <1>3, <1>5 DEF Irq!Given
  <2> QED BY DEF Irq!IInv
<1>14. \A i \in pending' : Irq!OwnVector(i.vector, i.line)'
  BY <1>1, <1>5 DEF Irq!IInv
<1>15. Irq!RightHandler'
  BY <1>1, <1>4, <1>5, IrqWiring DEF Irq!IInv, Irq!RightHandler, Irq!Syscall, Irq!First, Irq!Sane
<1> QED BY ONLY <1>1, <1>5, <1>9, <1>10, <1>11, <1>12, <1>13, <1>14, <1>15 DEF Irq!IInv, Irq!Given

\* irq_register_msi, to the call of msix_enable.
LEMMA IrqRegistersMsi == ASSUME Irq!Finiteness, Irq!Sane, Irq!IInv, NEW card \in Cards, Irq!irq_register_msi(card) PROVE Irq!IInv'
<1>1. /\ UNCHANGED <<irq_madt, override, domain_end, redir, msi, registered, pending, service, wrong>>
      /\ domain_end >= 0 /\ doing = Irq!Idle /\ card \notin registered /\ Irq!Fill(card)
  BY DEF Irq!irq_register_msi
<1>2. PICK n \in Nat : n = virq_alloc
  BY IrqAllocNat
<1>3. doing' = [line |-> card, id |-> n, word |-> 0] /\ doing' # Irq!Idle
  BY <1>2 DEF Irq!irq_register_msi, Irq!Idle, Irq!Sane
<1>4. Irq!Numbered' = Irq!Numbered \cup {card} /\ card \notin Irq!Numbered /\ card \in Irq!Lines
  BY <1>1, <1>3 DEF Irq!Numbered, Irq!Lines
<1>5. /\ virq_alloc' = n + 1 /\ virq_alloc' = Irq!First + Irq!Cardinality(Irq!Numbered')
      /\ virq_alloc' \in Irq!First .. Irq!First + Irq!Cardinality(Irq!Lines)
      /\ virq_table' \in [Irq!First .. Irq!First + Irq!Cardinality(Irq!Lines) - 1 -> Irq!Lines \cup {Irq!NoVirq}]
      /\ \A v \in DOMAIN virq_table' : virq_table'[v] = Irq!NoVirq <=> v >= virq_alloc'
      /\ \A v : Irq!Given(v) => Irq!Given(v)' /\ virq_table'[v] = virq_table[v]
      /\ Irq!Given(n)' /\ virq_table'[n] = card
      /\ \A v, l : Irq!OwnVector(v, l) => Irq!OwnVector(v, l)'
  BY Zenon, <1>1, <1>2, <1>4, IrqFillNext
<1>6. Irq!TypeOK' /\ Irq!Types'
  <2>1. doing' \in [line : Cards, id : Nat, word : 0 .. 3]
    BY <1>3
  <2> QED BY Zenon, <1>1, <1>5, <2>1 DEF Irq!IInv, Irq!TypeOK, Irq!Types
<1>7. \A i \in {0, 1} : override'[i] = Irq!Gsi(i, 0)'
  BY <1>1, IrqWiring DEF Irq!IInv
<1>8. \A l : Irq!Pin(l)' = Irq!Pin(l)
  BY <1>1 DEF Irq!Pin
<1>9. ASSUME NEW q \in DOMAIN redir', redir'[q] # Irq!Masked
      PROVE  /\ redir'[q] \in Irq!First .. virq_alloc' - 1
             /\ \E l \in {"pit", "kbd"} : Irq!Pin(l)' = q /\ virq_table'[redir'[q]] = l
  <2>1. Irq!Given(redir[q]) /\ \E l \in {"pit", "kbd"} : Irq!Pin(l) = q /\ virq_table[redir[q]] = l
    BY <1>1, <1>9 DEF Irq!IInv
  <2> QED BY Zenon, <2>1, <1>1, <1>5, <1>8 DEF Irq!Given
<1>10. \A c \in Cards : /\ msi'[c].open <=> c \in registered'
                        /\ msi'[c].open => msi'[c].vector \in Irq!First .. virq_alloc' - 1
                                           /\ virq_table'[msi'[c].vector] = c
  <2> SUFFICES ASSUME NEW c \in Cards
               PROVE  /\ msi[c].open <=> c \in registered
                      /\ msi[c].open => Irq!Given(msi[c].vector) /\ virq_table[msi[c].vector] = c
    BY <1>1, <1>5 DEF Irq!Given
  <2> QED BY DEF Irq!IInv
<1>11. /\ doing'.line \notin registered' /\ doing'.id \in Irq!First .. virq_alloc' - 1
       /\ virq_table'[doing'.id] = doing'.line /\ doing'.word # 3
  BY <1>1, <1>3, <1>5 DEF Irq!Given
<1>12. \A i \in pending' : Irq!OwnVector(i.vector, i.line)'
  BY <1>1, <1>5 DEF Irq!IInv
<1>13. Irq!RightHandler'
  BY <1>1, <1>2, <1>5, IrqWiring DEF Irq!IInv, Irq!RightHandler, Irq!Syscall, Irq!First, Irq!Sane
<1>14. \A l \in {"pit", "kbd"} \cap registered' : Irq!Pin(l)' < Pins => redir'[Irq!Pin(l)'] # Irq!Masked
  BY <1>1, <1>8 DEF Irq!IInv
<1> QED BY ONLY <1>1, <1>5, <1>6, <1>7, <1>9, <1>10, <1>11, <1>12, <1>13, <1>14 DEF Irq!IInv, Irq!Given

\* msix_enable writes its words in their order.
LEMMA IrqMsixEnable == ASSUME Irq!Sane, Irq!IInv, Irq!msix_enable PROVE Irq!IInv'
<1>1. UNCHANGED <<irq_madt, override, domain_end, virq_table, virq_alloc, redir, pending, service, wrong>>
  BY DEF Irq!msix_enable
<1>2. PICK c \in Cards, n \in Nat, k \in 0 .. 3 : doing = [line |-> c, id |-> n, word |-> k]
  BY DEF Irq!msix_enable, Irq!IInv, Irq!Types
<1>3. /\ c \notin registered /\ Irq!Given(n) /\ virq_table[n] = c
      /\ k = 3 => msi[c].vector = n
      /\ msi \in [Cards -> [vector : Nat, open : BOOLEAN]]
  <2>1. doing # Irq!Idle
    BY DEF Irq!msix_enable
  <2> QED BY <1>2, <2>1 DEF Irq!IInv, Irq!Types
<1>4. /\ msi' = IF k = 2 THEN [msi EXCEPT ![c].vector = n]
                ELSE IF k = 3 THEN [msi EXCEPT ![c].open = TRUE] ELSE msi
      /\ doing' = IF k = 3 THEN Irq!Idle ELSE [line |-> c, id |-> n, word |-> k + 1]
      /\ registered' = IF k = 3 THEN registered \cup {c} ELSE registered
  <2>1. Irq!Words[k + 1] = IF k = 2 THEN "vector" ELSE IF k = 3 THEN "mask" ELSE IF k = 0 THEN "address" ELSE "high"
    BY DEF Irq!Words
  <2> QED BY <2>1, <1>2 DEF Irq!msix_enable
<1>5. c \in Irq!Lines /\ c \notin {"pit", "kbd"} /\ \A m \in 0 .. 3 : [line |-> c, id |-> n, word |-> m] # Irq!Idle
  BY DEF Irq!Lines, Irq!Sane, Irq!Idle
<1>6. Irq!Numbered' = Irq!Numbered
  <2>1. doing # Irq!Idle /\ doing.line = c
    BY <1>2, <1>5
  <2>2. CASE k = 3
    BY <2>1, <2>2, <1>4 DEF Irq!Numbered
  <2>3. CASE k # 3
    <3>1. k + 1 \in 0 .. 3 /\ doing' = [line |-> c, id |-> n, word |-> k + 1]
      BY <2>3, <1>4
    <3>2. doing' # Irq!Idle /\ doing'.line = c
      BY <3>1, <1>5
    <3> QED BY <2>1, <2>3, <3>2, <1>4 DEF Irq!Numbered
  <2> QED BY <2>2, <2>3
<1>7. Irq!TypeOK' /\ Irq!Types'
  <2>1. msi' \in [Cards -> [vector : Nat, open : BOOLEAN]]
    BY Zenon, <1>3, <1>4
  <2>2. doing' \in [line : Cards, id : Nat, word : 0 .. 3] \cup {Irq!Idle}
    BY <1>4
  <2>3. registered' \subseteq Irq!Lines
    BY <1>4, <1>5 DEF Irq!IInv, Irq!TypeOK
  <2> QED BY <1>1, <2>1, <2>2, <2>3 DEF Irq!IInv, Irq!TypeOK, Irq!Types
<1>8. /\ \A l : Irq!Pin(l)' = Irq!Pin(l)
      /\ \A v : Irq!Given(v)' = Irq!Given(v)
      /\ \A v, l : Irq!OwnVector(v, l)' = Irq!OwnVector(v, l)
  BY <1>1, IrqWiring DEF Irq!Pin, Irq!Given, Irq!OwnVector
<1>9. \A d \in Cards : /\ msi'[d].open <=> d \in registered'
                       /\ msi'[d].open => Irq!Given(msi'[d].vector) /\ virq_table[msi'[d].vector] = d
  <2> SUFFICES ASSUME NEW d \in Cards
               PROVE  /\ msi'[d].open <=> d \in registered'
                      /\ msi'[d].open => Irq!Given(msi'[d].vector) /\ virq_table[msi'[d].vector] = d
    OBVIOUS
  <2>1. /\ msi[d].open <=> d \in registered
        /\ msi[d].open => Irq!Given(msi[d].vector) /\ virq_table[msi[d].vector] = d
    BY DEF Irq!IInv
  <2>2. CASE d = c
    BY <2>1, <2>2, <1>3, <1>4
  <2>3. CASE d # c
    BY <2>1, <2>3, <1>3, <1>4
  <2> QED BY <2>2, <2>3
<1>10. doing' # Irq!Idle => /\ doing'.line \notin registered' /\ Irq!Given(doing'.id) /\ virq_table[doing'.id] = doing'.line
                            /\ doing'.word = 3 => msi'[doing'.line].vector = doing'.id
  BY <1>3, <1>4
<1>11. Irq!RightHandler'
  BY <1>1, IrqWiring DEF Irq!IInv, Irq!RightHandler
<1>12. \A i \in {0, 1} : domain_end' >= 0 => override'[i] = Irq!Gsi(i, 0)'
  BY <1>1, IrqWiring DEF Irq!IInv
<1>13. \A l \in {"pit", "kbd"} \cap registered' :
          domain_end' >= 0 /\ (Irq!Pin(l)' < Pins => redir'[Irq!Pin(l)'] # Irq!Masked)
  BY <1>1, <1>4, <1>5, <1>8 DEF Irq!IInv
<1>14. domain_end' >= 0
  BY <1>1, <1>2, <1>5 DEF Irq!IInv, Irq!TypeOK, Irq!Sane
<1>15. \A p \in DOMAIN redir' : redir'[p] # Irq!Masked =>
          /\ redir'[p] \in Irq!First .. virq_alloc' - 1
          /\ \E line \in {"pit", "kbd"} : Irq!Pin(line)' = p /\ virq_table'[redir'[p]] = line
  BY Zenon, <1>1, <1>8 DEF Irq!IInv, Irq!Given
<1>16. \A i \in pending' : Irq!OwnVector(i.vector, i.line)'
  BY <1>1, <1>8 DEF Irq!IInv
<1>17. /\ virq_alloc' = Irq!First + Irq!Cardinality(Irq!Numbered')
       /\ \A v \in DOMAIN virq_table' : virq_table'[v] = Irq!NoVirq <=> v >= virq_alloc'
  BY <1>1, <1>6 DEF Irq!IInv
<1> QED BY ONLY <1>1, <1>7, <1>9, <1>10, <1>11, <1>12, <1>13, <1>14, <1>15, <1>16, <1>17 DEF Irq!IInv, Irq!Given

\* A line that is open raises an interrupt with its own vector.
LEMMA IrqRaised == ASSUME Irq!Finiteness, Irq!Sane, Irq!IInv, NEW line \in Irq!Lines, Irq!Opened(line)
                PROVE  Irq!Vector(line) \in Nat /\ Irq!OwnVector(Irq!Vector(line), line)
<1>1. CASE line \in Cards
  BY <1>1 DEF Irq!Opened, Irq!Vector, Irq!OwnVector, Irq!IInv, Irq!Given, Irq!First
<1>2. CASE line \notin Cards
  <2>1. line \in {"pit", "kbd"} /\ Irq!Wire(line) < Pins /\ redir[Irq!Wire(line)] # Irq!Masked
    BY <1>2 DEF Irq!Lines, Irq!Opened
  <2>2. Irq!Vector(line) = redir[Irq!Wire(line)]
    BY <1>2, <2>1 DEF Irq!Vector
  <2>3. Irq!Wire(line) \in 0 .. Pins - 1
    <3>1. Irq!Hw(line) \in Nat
      BY DEF Irq!Hw
    <3> QED BY <2>1, <3>1, IrqGsiNat DEF Irq!Wire, Irq!IInv, Irq!Sane
  <2>4. PICK l \in {"pit", "kbd"} : Irq!Pin(l) = Irq!Wire(line) /\ Irq!Given(redir[Irq!Wire(line)]) /\ virq_table[redir[Irq!Wire(line)]] = l
    BY <2>1, <2>3 DEF Irq!IInv, Irq!Types
  <2>5. domain_end >= 0
    <3>1. SUFFICES ASSUME ~(domain_end >= 0) PROVE FALSE
      OBVIOUS
    <3>2. Irq!Numbered = {} /\ Irq!Cardinality(Irq!Numbered) = 0
      BY <3>1 DEF Irq!Finiteness, Irq!IInv, Irq!Numbered
    <3> QED BY <3>2, <2>4 DEF Irq!IInv, Irq!Given, Irq!First
  <2>6. Irq!Crossed \/ l = line
    BY Zenon, <2>1, <2>4, <2>5, IrqPinOfWire DEF Irq!Crossed
  <2> QED BY <2>2, <2>3, <2>4, <2>6 DEF Irq!OwnVector, Irq!IInv, Irq!Types
<1> QED BY <1>1, <1>2

\* A device raises its line.
LEMMA IrqRaises == ASSUME Irq!Finiteness, Irq!Sane, Irq!IInv, NEW line \in Irq!Lines, Irq!Raise(line) PROVE Irq!IInv'
<1>1. UNCHANGED <<irq_madt, override, domain_end, virq_table, virq_alloc, redir, msi, doing, registered, service, wrong>>
  BY DEF Irq!Raise
<1>2. pending' = pending \cup {[vector |-> Irq!Vector(line), line |-> line]}
  BY DEF Irq!Raise
<1>3. Irq!Vector(line) \in Nat /\ Irq!OwnVector(Irq!Vector(line), line)
  BY IrqRaised DEF Irq!Raise
<1>4. /\ \A l : Irq!Pin(l)' = Irq!Pin(l)
      /\ \A v : Irq!Given(v)' = Irq!Given(v)
      /\ \A v, l : Irq!OwnVector(v, l)' = Irq!OwnVector(v, l)
      /\ Irq!Numbered' = Irq!Numbered /\ Irq!RightHandler' = Irq!RightHandler
  BY <1>1, IrqWiring DEF Irq!Pin, Irq!Given, Irq!OwnVector, Irq!Numbered, Irq!RightHandler
<1>5. Irq!TypeOK' /\ Irq!Types'
  <2>1. pending' \subseteq [vector : Nat, line : Irq!Lines]
    BY <1>2, <1>3 DEF Irq!IInv, Irq!Types
  <2> QED BY <1>1, <2>1 DEF Irq!IInv, Irq!TypeOK, Irq!Types
<1>6. \A i \in pending' : Irq!OwnVector(i.vector, i.line)'
  BY <1>2, <1>3, <1>4 DEF Irq!IInv
<1> QED BY <1>1, <1>4, <1>5, <1>6, IrqWiring DEF Irq!IInv, Irq!Given

\* irq_dispatch.
LEMMA IrqDispatches == ASSUME Irq!Finiteness, Irq!Sane, Irq!IInv, NEW i \in pending, Irq!irq_dispatch(i) PROVE Irq!IInv'
<1>1. UNCHANGED <<irq_madt, override, domain_end, virq_table, virq_alloc, redir, msi, doing, registered>>
  BY DEF Irq!irq_dispatch
<1>2. pending' = pending \ {i} /\ service = {}
  BY DEF Irq!irq_dispatch
<1>3. PICK v \in Nat : v = i.vector
  BY DEF Irq!IInv, Irq!Types
<1>4. Irq!Given(v) /\ (Irq!Crossed \/ virq_table[v] = i.line)
  BY <1>3 DEF Irq!IInv, Irq!OwnVector
<1>5. v >= Irq!First /\ v < virq_alloc /\ virq_alloc \in Nat /\ Irq!Syscall \in Nat /\ Irq!First \in Nat
  BY <1>4, IrqAllocNat DEF Irq!Given, Irq!First
<1>6. v \in DOMAIN virq_table /\ virq_table[v] # Irq!NoVirq
  <2>1. v \in DOMAIN virq_table
    BY <1>5, IrqAllocNat, IrqLinesFinite DEF Irq!IInv, Irq!Types, Irq!First
  <2> QED BY <2>1, <1>5 DEF Irq!IInv
<1>7. /\ wrong' \subseteq wrong \cup {"syscall", "handler"}
      /\ wrong' # wrong => Irq!Crossed \/ virq_alloc > Irq!Syscall
      /\ virq_alloc <= Irq!Syscall => service' = {}
  <2>1. CASE v >= Irq!Syscall
    <3>1. wrong' = wrong \cup {"syscall"} /\ virq_alloc > Irq!Syscall
      BY <2>1, <1>3, <1>5 DEF Irq!irq_dispatch
    <3>2. wrong' \subseteq wrong \cup {"syscall", "handler"}
      BY <3>1
    <3>3. ~(virq_alloc <= Irq!Syscall)
      BY <3>1, <1>5
    <3>4. Irq!Crossed \/ virq_alloc > Irq!Syscall
      BY <3>1
    <3> QED BY <3>2, <3>3, <3>4
  <2>2. CASE ~(v >= Irq!Syscall)
    <3>1. /\ wrong' = IF virq_table[v] = i.line THEN wrong ELSE wrong \cup {"handler"}
          /\ service' = IF Irq!Acks(v) THEN {} ELSE {v}
      BY <2>2, <1>3, <1>5 DEF Irq!irq_dispatch
    <3> QED BY <3>1, <1>4, <1>6 DEF Irq!Acks
  <2> QED BY <2>1, <2>2
<1>8. /\ \A l : Irq!Pin(l)' = Irq!Pin(l)
      /\ \A w : Irq!Given(w)' = Irq!Given(w)
      /\ \A w, l : Irq!OwnVector(w, l)' = Irq!OwnVector(w, l)
      /\ Irq!Numbered' = Irq!Numbered /\ Irq!Crossed' = Irq!Crossed
  BY <1>1, IrqWiring DEF Irq!Pin, Irq!Given, Irq!OwnVector, Irq!Numbered
<1>9. Irq!RightHandler'
  BY Zenon, <1>1, <1>7, <1>8 DEF Irq!IInv, Irq!RightHandler
<1>10. Irq!TypeOK' /\ Irq!Types'
  BY <1>1, <1>2, <1>7 DEF Irq!IInv, Irq!TypeOK, Irq!Types
<1> QED BY <1>1, <1>2, <1>8, <1>9, <1>10, IrqWiring DEF Irq!IInv, Irq!Given

\* Every step.
LEMMA IrqNextIInv == ASSUME Irq!Finiteness, Irq!Sane, Irq!IInv, Irq!Next PROVE Irq!IInv'
BY Zenon, IrqIoapicInit, IrqRegisters, IrqRegistersMsi, IrqMsixEnable, IrqRaises, IrqDispatches DEF Irq!Next

\* A step that leaves the variables alone keeps the invariant.
LEMMA IrqStutterIInv == ASSUME Irq!IInv, UNCHANGED Irq!vars PROVE Irq!IInv'
<1>1. /\ \A l : Irq!Pin(l)' = Irq!Pin(l)
      /\ \A v : Irq!Given(v)' = Irq!Given(v)
      /\ \A v, l : Irq!OwnVector(v, l)' = Irq!OwnVector(v, l)
      /\ Irq!Numbered' = Irq!Numbered /\ Irq!RightHandler' = Irq!RightHandler
  BY IrqWiring DEF Irq!vars, Irq!Pin, Irq!Given, Irq!OwnVector, Irq!Numbered, Irq!RightHandler
<1>2. Irq!TypeOK' /\ Irq!Types'
  BY DEF Irq!vars, Irq!IInv, Irq!TypeOK, Irq!Types
<1> QED BY <1>1, <1>2, IrqWiring DEF Irq!vars, Irq!IInv, Irq!Given

\* A line that was registered is open.
LEMMA IrqIInvSafe == ASSUME Irq!Sane, Irq!IInv PROVE Irq!TypeOK /\ Irq!RightHandler /\ Irq!RegisteredIsOpen
<1> SUFFICES ASSUME NEW line \in registered
             PROVE  Irq!Opened(line) \/ (line \notin Cards /\ (Irq!Wire(line) >= Pins \/ (line = "kbd" /\ Irq!Wire(line) = 0)))
  BY DEF Irq!IInv, Irq!RegisteredIsOpen
<1>1. CASE line \in Cards
  BY <1>1 DEF Irq!IInv, Irq!Opened
<1>2. CASE line \notin Cards
  <2>1. line \in {"pit", "kbd"} \cap registered
    BY <1>2 DEF Irq!IInv, Irq!TypeOK, Irq!Lines
  <2>2. domain_end >= 0 /\ (Irq!Pin(line) < Pins => redir[Irq!Pin(line)] # Irq!Masked)
    BY <2>1 DEF Irq!IInv
  <2>3. Irq!Wire(line) \in Nat /\ (Irq!Pin(line) = Irq!Wire(line) \/ (line = "kbd" /\ Irq!Wire(line) = 0))
    BY <2>1, <2>2, IrqPinOfWire
  <2> QED BY <1>2, <2>2, <2>3 DEF Irq!Opened, Irq!Sane
<1> QED BY <1>1, <1>2
-----------------------------------------------------------------------------
(* The start of the CPUs: kmain, smp.c, the trampoline.                    *)

CONSTANTS Ids, Absent, MaxCpus

VARIABLES given, smp_madt, bsp, stage, cpus, smp_at, slot, mapped, running_cpu_count, ap, stack,
          ticks, ready, panicked

Smp == INSTANCE Smp WITH madt <- smp_madt, at <- smp_at

ASSUME SmpSane == Smp!Sane

\* The CPUs that count themselves are among those that the first CPU starts.
LEMMA SmpCountedOthers ==
  ASSUME Smp!Finiteness, Smp!Sane, Smp!IInv
  PROVE  /\ Smp!IsFiniteSet(Smp!Counted) /\ Smp!Cardinality(Smp!Counted) \in Nat
         /\ stage \notin {"loader", "bsp"} =>
               /\ Smp!IsFiniteSet(Smp!Others) /\ Smp!Cardinality(Smp!Others) <= Len(cpus) - 1 /\ Smp!Counted \subseteq Smp!Others
         /\ stage \in {"loader", "bsp"} => Smp!Counted = {}
<1>1. Smp!IsFiniteSet(Smp!Counted) /\ Smp!Cardinality(Smp!Counted) \in Nat
  BY DEF Smp!Finiteness, Smp!Counted, Smp!Sane
<1>2. ASSUME stage \notin {"loader", "bsp"}
      PROVE  Smp!IsFiniteSet(Smp!Others) /\ Smp!Cardinality(Smp!Others) <= Len(cpus) - 1
  <2>1. Len(cpus) \in Nat \ {0}
    BY <1>2 DEF Smp!IInv, Smp!Types, Smp!Listed
  <2>2. \A n \in Nat \ {0} : \A f : Smp!IsFiniteSet({f[i] : i \in 2 .. n}) /\ Smp!Cardinality({f[i] : i \in 2 .. n}) <= n - 1
    BY ONLY Smp!Finiteness, Zenon DEF Smp!Finiteness
  <2> QED BY ONLY <2>1, <2>2, Zenon DEF Smp!Others
<1>3. ASSUME stage \notin {"loader", "bsp"} PROVE Smp!Counted \subseteq Smp!Others
  <2>1. CASE Smp!Early
    BY <2>1 DEF Smp!IInv, Smp!Places, Smp!Counted
  <2>2. CASE ~Smp!Early
    BY <2>2 DEF Smp!IInv, Smp!Places, Smp!Types, Smp!Counted, Smp!Sent, Smp!Others, Smp!Early
  <2> QED BY <2>1, <2>2
<1>4. stage \in {"loader", "bsp"} => Smp!Counted = {}
  BY DEF Smp!IInv, Smp!Places, Smp!Counted, Smp!Early
<1> QED BY <1>1, <1>2, <1>3, <1>4

\* The boot loader enters kmain on one CPU, the others are off.
LEMMA SmpInitIInv == ASSUME Smp!Finiteness, Smp!Sane, Smp!Init PROVE Smp!IInv
<1> USE DEF Smp!Init
<1>1. Smp!Types
  <2>1. smp_madt \in Seq(Smp!All)
    OBVIOUS
  <2>2. cpus \in Seq(Smp!All \cup {0}) /\ slot \in [Smp!All -> Nat] /\ stack \in [Ids -> Nat]
    BY DEF Smp!NoStack
  <2>3. ap \in [Ids -> {"boot", "off", "trampoline", "start", "counted", "idle", "reset"}]
    OBVIOUS
  <2>4. bsp \in Ids /\ mapped = FALSE /\ ready = {} /\ stage = "loader"
    OBVIOUS
  <2>5. smp_at \in Nat \ {0} /\ running_cpu_count \in Nat /\ ticks \in Nat
    OBVIOUS
  <2> QED BY ONLY Zenon, <2>1, <2>2, <2>3, <2>4, <2>5 DEF Smp!Types
<1>2. Smp!Listed
  BY DEF Smp!Listed, Smp!Early, Smp!Sane
<1>3. Smp!SetUp
  BY DEF Smp!SetUp
<1>4. Smp!Places
  <2>1. Smp!Counted = {}
    BY DEF Smp!Counted
  <2> QED BY <2>1 DEF Smp!Finiteness, Smp!Places, Smp!Early
<1>5. Smp!PanicHasCpuData
  BY DEF Smp!PanicHasCpuData
<1> QED BY <1>1, <1>2, <1>3, <1>4, <1>5 DEF Smp!IInv

\* The CPUs are where they were.
LEMMA SmpSamePlaces ==
  ASSUME Smp!Sane, Smp!IInv, UNCHANGED <<bsp, cpus, smp_at, slot, running_cpu_count, ap, stack>>, Smp!Early, Smp!Early'
  PROVE  Smp!Places'
<1>1. Smp!Counted' = Smp!Counted /\ Smp!Others' = Smp!Others /\ Smp!Sent' = Smp!Sent
  BY DEF Smp!Counted, Smp!Others, Smp!Sent
<1> QED BY <1>1 DEF Smp!IInv, Smp!Places, Smp!Early

\* parse_bootloader_info.
LEMMA Smpparse_bootloader_info_IInv == ASSUME Smp!Sane, Smp!IInv, Smp!parse_bootloader_info PROVE Smp!IInv'
<1>1. Smp!Types'
  BY DEF Smp!IInv, Smp!Types, Smp!parse_bootloader_info, Smp!Boots, Smp!Alive, Smp!Step, Smp!Panic
<1>2. Smp!Listed'
  BY DEF Smp!IInv, Smp!Types, Smp!Listed, Smp!Early, Smp!Others, Smp!parse_bootloader_info, Smp!Boots, Smp!Alive, Smp!Step, Smp!Panic
<1>3. Smp!SetUp'
  BY DEF Smp!IInv, Smp!Types, Smp!SetUp, Smp!Missing, Smp!parse_bootloader_info, Smp!Boots, Smp!Alive, Smp!Step, Smp!Panic
<1>4. Smp!Places'
  BY SmpSamePlaces DEF Smp!Early, Smp!parse_bootloader_info, Smp!Boots, Smp!Alive, Smp!Step, Smp!Panic
<1>5. Smp!PanicHasCpuData'
  BY DEF Smp!IInv, Smp!SetUp, Smp!PanicHasCpuData, Smp!Missing, Smp!First, Smp!FromLoader, Smp!FromFirmware, Smp!parse_bootloader_info, Smp!Boots, Smp!Alive, Smp!Step, Smp!Panic
<1> QED BY <1>1, <1>2, <1>3, <1>4, <1>5 DEF Smp!IInv

\* acpi_parse_rsdp.
LEMMA Smpacpi_parse_rsdp_IInv == ASSUME Smp!Sane, Smp!IInv, Smp!acpi_parse_rsdp PROVE Smp!IInv'
<1>1. Smp!Types'
  BY DEF Smp!IInv, Smp!Types, Smp!acpi_parse_rsdp, Smp!Boots, Smp!Alive, Smp!Step, Smp!Panic
<1>2. Smp!Listed'
  BY Zenon DEF Smp!IInv, Smp!Types, Smp!Listed, Smp!Early, Smp!Others, Smp!acpi_parse_rsdp, Smp!Boots, Smp!Alive, Smp!Step, Smp!Panic
<1>3. Smp!SetUp'
  BY DEF Smp!IInv, Smp!Types, Smp!SetUp, Smp!Missing, Smp!acpi_parse_rsdp, Smp!Boots, Smp!Alive, Smp!Step, Smp!Panic
<1>4. Smp!Places'
  BY SmpSamePlaces DEF Smp!Early, Smp!acpi_parse_rsdp, Smp!Boots, Smp!Alive, Smp!Step, Smp!Panic
<1>5. Smp!PanicHasCpuData'
  BY DEF Smp!IInv, Smp!SetUp, Smp!PanicHasCpuData, Smp!Missing, Smp!First, Smp!FromLoader, Smp!FromFirmware, Smp!acpi_parse_rsdp, Smp!Boots, Smp!Alive, Smp!Step, Smp!Panic
<1> QED BY <1>1, <1>2, <1>3, <1>4, <1>5 DEF Smp!IInv

\* pit_init.
LEMMA Smppit_init_IInv == ASSUME Smp!Sane, Smp!IInv, Smp!pit_init PROVE Smp!IInv'
<1>1. Smp!Types'
  BY DEF Smp!IInv, Smp!Types, Smp!pit_init, Smp!Boots, Smp!Alive, Smp!Step, Smp!Clock
<1>2. Smp!Listed'
  BY DEF Smp!IInv, Smp!Types, Smp!Listed, Smp!Early, Smp!Others, Smp!pit_init, Smp!Boots, Smp!Alive, Smp!Step, Smp!Clock
<1>3. Smp!SetUp'
  BY DEF Smp!IInv, Smp!Types, Smp!SetUp, Smp!Missing, Smp!pit_init, Smp!Boots, Smp!Alive, Smp!Step, Smp!Clock
<1>4. Smp!Places'
  BY SmpSamePlaces DEF Smp!Early, Smp!pit_init, Smp!Boots, Smp!Alive, Smp!Step, Smp!Clock
<1>5. Smp!PanicHasCpuData'
  BY DEF Smp!IInv, Smp!SetUp, Smp!PanicHasCpuData, Smp!Missing, Smp!First, Smp!FromLoader, Smp!FromFirmware, Smp!pit_init, Smp!Boots, Smp!Alive, Smp!Step, Smp!Clock
<1> QED BY <1>1, <1>2, <1>3, <1>4, <1>5 DEF Smp!IInv

\* The PIT's interrupt.
LEMMA Smpirq_handler_IInv == ASSUME Smp!Sane, Smp!IInv, Smp!irq_handler PROVE Smp!IInv'
<1>1. Smp!Types'
  BY DEF Smp!IInv, Smp!Types, Smp!irq_handler, Smp!Boots, Smp!Alive
<1>2. Smp!Listed'
  BY DEF Smp!IInv, Smp!Types, Smp!Listed, Smp!Early, Smp!Others, Smp!irq_handler, Smp!Boots, Smp!Alive
<1>3. Smp!SetUp'
  BY DEF Smp!IInv, Smp!Types, Smp!SetUp, Smp!Missing, Smp!irq_handler, Smp!Boots, Smp!Alive
<1>4. Smp!Places'
  BY SmpSamePlaces DEF Smp!Early, Smp!irq_handler, Smp!Boots, Smp!Alive
<1>5. Smp!PanicHasCpuData'
  BY DEF Smp!IInv, Smp!SetUp, Smp!PanicHasCpuData, Smp!Missing, Smp!First, Smp!FromLoader, Smp!FromFirmware, Smp!irq_handler, Smp!Boots, Smp!Alive
<1> QED BY <1>1, <1>2, <1>3, <1>4, <1>5 DEF Smp!IInv

\* lapic_timer_calibrate.
LEMMA Smplapic_timer_calibrate_IInv == ASSUME Smp!Sane, Smp!IInv, Smp!lapic_timer_calibrate PROVE Smp!IInv'
<1>1. Smp!Types'
  BY Zenon DEF Smp!IInv, Smp!Types, Smp!lapic_timer_calibrate, Smp!Boots, Smp!Alive, Smp!Step
<1>2. Smp!Listed'
  <2>1. Len(cpus) = 1 /\ smp_at = 1 /\ smp_at' = smp_at /\ cpus' = cpus
    BY DEF Smp!IInv, Smp!Listed, Smp!Early, Smp!lapic_timer_calibrate
  <2>2. 2 .. Len(cpus') = {} /\ 1 .. smp_at' - 1 = {}
    BY <2>1
  <2>3. Smp!Others' = {} /\ {smp_madt'[i] : i \in 1 .. smp_at' - 1} = {}
    BY <2>2 DEF Smp!Others
  <2> QED BY <2>1, <2>3 DEF Smp!IInv, Smp!Types, Smp!Listed, Smp!Early, Smp!lapic_timer_calibrate, Smp!Boots, Smp!Alive, Smp!Step
<1>3. Smp!SetUp'
  BY DEF Smp!IInv, Smp!Types, Smp!SetUp, Smp!Missing, Smp!lapic_timer_calibrate, Smp!Boots, Smp!Alive, Smp!Step
<1>4. Smp!Places'
  BY SmpSamePlaces DEF Smp!Early, Smp!lapic_timer_calibrate, Smp!Boots, Smp!Alive, Smp!Step
<1>5. Smp!PanicHasCpuData'
  BY DEF Smp!IInv, Smp!SetUp, Smp!PanicHasCpuData, Smp!Missing, Smp!First, Smp!FromLoader, Smp!FromFirmware, Smp!lapic_timer_calibrate, Smp!Boots, Smp!Alive, Smp!Step
<1> QED BY <1>1, <1>2, <1>3, <1>4, <1>5 DEF Smp!IInv

\* smp_start_bsp.
LEMMA Smpsmp_start_bsp_IInv == ASSUME Smp!Sane, Smp!IInv, Smp!smp_start_bsp PROVE Smp!IInv'
<1>1. Smp!Types'
  BY DEF Smp!IInv, Smp!Types, Smp!smp_start_bsp, Smp!Step
<1>2. Smp!Listed'
  BY DEF Smp!IInv, Smp!Types, Smp!Listed, Smp!Early, Smp!Others, Smp!Sane, Smp!smp_start_bsp, Smp!Step
<1>3. Smp!SetUp'
  BY Zenon DEF Smp!IInv, Smp!Types, Smp!SetUp, Smp!Missing, Smp!smp_start_bsp, Smp!Boots, Smp!Alive, Smp!Step
<1>4. Smp!Places'
  <2>1. Smp!Counted' = Smp!Counted
    BY DEF Smp!Counted, Smp!smp_start_bsp, Smp!Step
  <2> QED BY <2>1 DEF Smp!IInv, Smp!Places, Smp!Early, Smp!smp_start_bsp, Smp!Step
<1>5. Smp!PanicHasCpuData'
  BY Zenon DEF Smp!IInv, Smp!SetUp, Smp!PanicHasCpuData, Smp!Missing, Smp!smp_start_bsp, Smp!Boots, Smp!Alive, Smp!Step
<1> QED BY <1>1, <1>2, <1>3, <1>4, <1>5 DEF Smp!IInv

\* smp_discover_cpus, one entry of the MADT.
LEMMA Smpsmp_discover_cpus_IInv == ASSUME Smp!Sane, Smp!IInv, Smp!smp_discover_cpus PROVE Smp!IInv'
<1>1. /\ smp_at \in 1 .. Len(smp_madt) /\ Len(smp_madt) \in Nat /\ Len(cpus) \in Nat \ {0} /\ cpus[1] = 0
      /\ stage = "discover" /\ Smp!Alive /\ Smp!Early /\ "gs" \in ready
  BY DEF Smp!IInv, Smp!Types, Smp!Listed, Smp!SetUp, Smp!Early, Smp!smp_discover_cpus, Smp!Boots
<1>2. UNCHANGED <<given, smp_madt, bsp, stage, slot, mapped, running_cpu_count, ap, stack, ticks, ready>> /\ smp_at' = smp_at + 1
  BY DEF Smp!smp_discover_cpus
<1>3. \/ smp_madt[smp_at] = 0 /\ UNCHANGED <<cpus, panicked>>
      \/ smp_madt[smp_at] # 0 /\ Len(cpus) < MaxCpus /\ cpus' = Append(cpus, smp_madt[smp_at]) /\ UNCHANGED panicked
      \/ UNCHANGED cpus /\ panicked' = "max_cpus"
  BY <1>1 DEF Smp!smp_discover_cpus, Smp!Panic, Smp!Sane
<1>4. Smp!Types'
  <2>1. smp_madt[smp_at] \in Smp!All
    BY <1>1 DEF Smp!IInv, Smp!Types
  <2>2. cpus' \in Seq(Smp!All \cup {0})
    <3>1. cpus \in Seq(Smp!All \cup {0}) /\ smp_madt[smp_at] \in Smp!All \cup {0}
      BY <2>1 DEF Smp!IInv, Smp!Types
    <3>2. cpus' = cpus \/ cpus' = Append(cpus, smp_madt[smp_at])
      BY <1>3
    <3> QED BY <3>1, <3>2
  <2> QED BY <1>1, <1>2, <2>2 DEF Smp!IInv, Smp!Types
<1>5. Smp!Listed'
  <2>1. ASSUME smp_madt[smp_at] # 0, cpus' = Append(cpus, smp_madt[smp_at])
        PROVE  /\ \A i, j \in DOMAIN cpus' : cpus'[i] = cpus'[j] => i = j
               /\ Smp!Others' = Smp!Others \cup {smp_madt[smp_at]} /\ cpus' # <<>> /\ cpus'[1] = 0
    <3>1. Smp!Others = {smp_madt[i] : i \in 1 .. smp_at - 1} \ {0}
      BY <1>1 DEF Smp!IInv, Smp!Listed
    <3>2. smp_madt[smp_at] \notin Smp!Others
      BY <1>1, <3>1 DEF Smp!IInv, Smp!Listed, Smp!Types
    <3>3. \A i \in DOMAIN cpus : cpus[i] # smp_madt[smp_at]
      <4>1. \A i \in DOMAIN cpus : i = 1 \/ i \in 2 .. Len(cpus)
        BY DEF Smp!IInv, Smp!Types
      <4> QED BY <1>1, <2>1, <3>2, <4>1 DEF Smp!Others
    <3>4. DOMAIN cpus' = DOMAIN cpus \cup {Len(cpus) + 1} /\ Len(cpus') = Len(cpus) + 1
          /\ cpus'[Len(cpus) + 1] = smp_madt[smp_at] /\ \A i \in DOMAIN cpus : cpus'[i] = cpus[i]
      BY <1>1, <2>1 DEF Smp!IInv, Smp!Types
    <3>5. DOMAIN cpus = 1 .. Len(cpus)
      BY DEF Smp!IInv, Smp!Types
    <3>6. \A i, j \in DOMAIN cpus' : cpus'[i] = cpus'[j] => i = j
      BY <3>3, <3>4 DEF Smp!IInv, Smp!Listed
    <3>7. Smp!Others' = Smp!Others \cup {smp_madt[smp_at]}
      BY <1>1, <3>4, <3>5 DEF Smp!Others
    <3> QED BY <1>1, <3>4, <3>5, <3>6, <3>7
  <2>2. {smp_madt'[i] : i \in 1 .. smp_at' - 1} = {smp_madt[i] : i \in 1 .. smp_at - 1} \cup {smp_madt[smp_at]}
    BY <1>1, <1>2
  <2>3. CASE smp_madt[smp_at] = 0 /\ UNCHANGED <<cpus, panicked>>
    <3>1. Smp!Others' = Smp!Others
      BY Zenon, <2>3 DEF Smp!Others
    <3>2. Smp!Others' = {smp_madt'[i] : i \in 1 .. smp_at' - 1} \ {0} /\ smp_at' <= Len(smp_madt') + 1
      BY <1>1, <1>2, <2>2, <2>3, <3>1 DEF Smp!IInv, Smp!Listed
    <3> QED BY <1>1, <1>2, <2>3, <3>2 DEF Smp!IInv, Smp!Listed, Smp!Early
  <2>4. CASE smp_madt[smp_at] # 0 /\ Len(cpus) < MaxCpus /\ cpus' = Append(cpus, smp_madt[smp_at]) /\ UNCHANGED panicked
    <3>1. Len(cpus') <= MaxCpus
      BY <1>1, <2>4 DEF Smp!IInv, Smp!Types, Smp!Sane
    <3> QED BY <1>1, <1>2, <2>1, <2>2, <2>4, <3>1 DEF Smp!IInv, Smp!Listed, Smp!Early, Smp!Alive
  <2>5. CASE UNCHANGED cpus /\ panicked' = "max_cpus"
    BY <1>1, <1>2, <2>5 DEF Smp!IInv, Smp!Listed, Smp!Early, Smp!Alive
  <2> QED BY <1>3, <2>3, <2>4, <2>5
<1>6. Smp!SetUp'
  BY Zenon, <1>1, <1>2, <1>3 DEF Smp!IInv, Smp!SetUp, Smp!Missing, Smp!Alive
<1>7. Smp!Places'
  <2>1. Smp!Counted' = Smp!Counted
    BY <1>2 DEF Smp!Counted
  <2> QED BY <1>1, <1>2, <2>1 DEF Smp!IInv, Smp!Places, Smp!Early
<1>8. Smp!PanicHasCpuData'
  BY Zenon, <1>1, <1>2, <1>3 DEF Smp!IInv, Smp!SetUp, Smp!PanicHasCpuData, Smp!Missing, Smp!Alive
<1> QED BY <1>4, <1>5, <1>6, <1>7, <1>8 DEF Smp!IInv

\* smp_init, to its loop.
LEMMA Smpsmp_init_IInv == ASSUME Smp!Sane, Smp!IInv, Smp!smp_init PROVE Smp!IInv'
<1>1. /\ smp_at = Len(smp_madt) + 1 /\ Len(smp_madt) \in Nat /\ Len(cpus) \in Nat \ {0} /\ cpus[1] = 0
      /\ stage = "discover" /\ Smp!Alive /\ Smp!Early /\ "gs" \in ready
      /\ DOMAIN smp_madt = 1 .. Len(smp_madt) /\ DOMAIN cpus = 1 .. Len(cpus)
  BY DEF Smp!IInv, Smp!Types, Smp!Listed, Smp!SetUp, Smp!Early, Smp!smp_init, Smp!Boots
<1>2. /\ UNCHANGED <<given, smp_madt, bsp, cpus, running_cpu_count, ap, stack, ticks, panicked>>
      /\ stage' = "start" /\ mapped' = TRUE /\ ready' = ready \cup {"sched"} /\ smp_at' = 2
      /\ slot' = [l \in Smp!All |-> IF l \in Smp!Others THEN Smp!StackOf(l) ELSE Smp!NoStack]
  BY DEF Smp!smp_init, Smp!Step, Smp!Others
<1>3. Smp!Others = {smp_madt[i] : i \in DOMAIN smp_madt} \ {0} /\ Smp!Others' = Smp!Others
  <2>1. smp_at - 1 = Len(smp_madt)
    BY <1>1
  <2>2. Smp!Others = {smp_madt[i] : i \in 1 .. smp_at - 1} \ {0}
    BY <1>1 DEF Smp!IInv, Smp!Listed
  <2> QED BY Zenon, <1>1, <1>2, <2>1, <2>2 DEF Smp!Others
<1>4. \A i \in 2 .. Len(cpus) : cpus[i] \in Smp!Others /\ cpus[i] \in Smp!All /\ Smp!StackOf(cpus[i]) = i
  <2>1. Smp!Others \subseteq Smp!All
    BY <1>3 DEF Smp!IInv, Smp!Types
  <2>2. \A i \in 2 .. Len(cpus) : cpus[i] \in Smp!Others
    BY DEF Smp!Others
  <2>3. \A i \in DOMAIN cpus : Smp!StackOf(cpus[i]) = i
    BY DEF Smp!StackOf, Smp!IInv, Smp!Listed
  <2> QED BY <1>1, <2>1, <2>2, <2>3
<1>5. Smp!Types'
  <2>1. \A l \in Smp!Others : \E i \in 2 .. Len(cpus) : l = cpus[i]
    BY DEF Smp!Others
  <2>2. \A l \in Smp!Others : Smp!StackOf(l) \in Nat
    BY <1>1, <1>4, <2>1
  <2>3. slot' \in [Smp!All -> Nat]
    BY Zenon, <1>2, <2>2 DEF Smp!NoStack
  <2> QED BY <1>2, <2>3 DEF Smp!IInv, Smp!Types
<1>6. Smp!Listed'
  BY <1>1, <1>2, <1>3 DEF Smp!IInv, Smp!Listed, Smp!Early
<1>7. Smp!SetUp'
  <2>1. \A i \in 2 .. Len(cpus') : slot'[cpus'[i]] = i
    BY Zenon, <1>2, <1>4
  <2> QED BY <1>1, <1>2, <2>1 DEF Smp!IInv, Smp!SetUp, Smp!Missing, Smp!Alive
<1>8. Smp!Places'
  <2>1. Smp!Counted' = Smp!Counted /\ Smp!Sent' = {}
    BY <1>2 DEF Smp!Counted, Smp!Sent
  <2> QED BY <1>1, <1>2, <2>1 DEF Smp!IInv, Smp!Places, Smp!Early
<1>9. Smp!PanicHasCpuData'
  BY Zenon, <1>2 DEF Smp!IInv, Smp!PanicHasCpuData, Smp!Missing
<1> QED BY <1>5, <1>6, <1>7, <1>8, <1>9 DEF Smp!IInv

\* The loop of smp_init, one CPU.
LEMMA Smplapic_send_ipi_IInv == ASSUME Smp!Sane, Smp!IInv, Smp!lapic_send_ipi PROVE Smp!IInv'
<1> DEFINE l == cpus[smp_at]
<1>1. /\ smp_at \in 2 .. Len(cpus) /\ Len(cpus) \in Nat /\ DOMAIN cpus = 1 .. Len(cpus)
      /\ stage = "start" /\ Smp!Alive /\ ~Smp!Early /\ ap[bsp] = "boot"
  BY DEF Smp!IInv, Smp!Types, Smp!Places, Smp!Early, Smp!lapic_send_ipi, Smp!Boots
<1>2. /\ UNCHANGED <<given, smp_madt, bsp, stage, cpus, slot, mapped, running_cpu_count, stack, ticks, ready, panicked>>
      /\ smp_at' = smp_at + 1
      /\ ap' = IF l \in Ids THEN [ap EXCEPT ![l] = IF l = bsp THEN "reset" ELSE "trampoline"] ELSE ap
  BY DEF Smp!lapic_send_ipi
<1>3. Smp!Others' = Smp!Others /\ Smp!Sent' = Smp!Sent \cup {l} /\ l \notin Smp!Sent
  <2>1. 2 .. smp_at' - 1 = (2 .. smp_at - 1) \cup {smp_at}
    BY <1>1, <1>2
  <2>2. \A i \in 2 .. smp_at - 1 : i \in DOMAIN cpus /\ i # smp_at
    BY <1>1
  <2>3. l \notin Smp!Sent
    BY <1>1, <2>2 DEF Smp!Sent, Smp!IInv, Smp!Listed
  <2> QED BY <1>2, <2>1, <2>3 DEF Smp!Others, Smp!Sent
<1>4. Smp!Types'
  BY <1>1, <1>2 DEF Smp!IInv, Smp!Types
<1>5. Smp!Listed'
  BY <1>1, <1>2, <1>3 DEF Smp!IInv, Smp!Listed, Smp!Early
<1>6. Smp!SetUp'
  BY <1>1, <1>2 DEF Smp!IInv, Smp!SetUp, Smp!Missing, Smp!Alive
<1>7. Smp!Places'
  <2>1. l \in Ids \ {bsp} => ap[l] = "off"
    BY Zenon, <1>3 DEF Smp!IInv, Smp!Places
  <2>2. Smp!Counted' = Smp!Counted
    BY <1>1, <1>2, <2>1 DEF Smp!Counted, Smp!IInv, Smp!Types
  <2>3. \A m \in Ids \ {bsp} : ap'[m] \in (IF m \in Smp!Sent' THEN {"trampoline", "start", "counted", "idle"} ELSE {"off"})
    BY Zenon, <1>1, <1>2, <1>3 DEF Smp!IInv, Smp!Places, Smp!Types
  <2>4. ap'[bsp] \in (IF bsp \in Smp!Sent' THEN {"reset"} ELSE {"boot", "idle"}) /\ ap'[bsp] # "idle"
    BY Zenon, <1>1, <1>2, <1>3 DEF Smp!IInv, Smp!Places, Smp!Types
  <2>5. \A m \in Ids \ {bsp} : ap'[m] \in {"start", "counted", "idle"} => stack'[m] = slot'[m]
    BY Zenon, <1>1, <1>2 DEF Smp!IInv, Smp!Places, Smp!Types
  <2>6. ~Smp!Early' /\ stage' = "start" /\ smp_at' \in 2 .. Len(cpus') + 1
    BY <1>1, <1>2 DEF Smp!Early
  <2>7. running_cpu_count' = 1 + Smp!Cardinality(Smp!Counted')
    <3>1. running_cpu_count = 1 + Smp!Cardinality(Smp!Counted)
      BY Zenon DEF Smp!IInv, Smp!Places
    <3>2. running_cpu_count' = running_cpu_count
      BY <1>2
    <3> QED BY Zenon, <3>1, <3>2, <2>2
  <2>8. stage' # "done" /\ bsp' = bsp
    BY <1>2, <2>6
  <2>9. \A m \in Ids \ {bsp'} : ap'[m] \in (IF ~Smp!Early' /\ m \in Smp!Sent' THEN {"trampoline", "start", "counted", "idle"} ELSE {"off"})
    BY <2>3, <2>6, <2>8
  <2>10. ap'[bsp'] \in (IF ~Smp!Early' /\ bsp' \in Smp!Sent' THEN {"reset"} ELSE {"boot", "idle"}) /\ ap'[bsp'] # "idle"
    BY <2>4, <2>6, <2>8
  <2>11. \A m \in Ids \ {bsp'} : ap'[m] \in {"start", "counted", "idle"} => stack'[m] = slot'[m]
    BY <2>5, <2>8
  <2> QED BY Zenon, <2>6, <2>7, <2>8, <2>9, <2>10, <2>11 DEF Smp!Places
<1>8. Smp!PanicHasCpuData'
  BY <1>2 DEF Smp!IInv, Smp!PanicHasCpuData, Smp!Missing
<1> QED BY <1>4, <1>5, <1>6, <1>7, <1>8 DEF Smp!IInv

\* The end of smp_init, when all have counted themselves.
LEMMA SmpAllStarted_IInv == ASSUME Smp!Finiteness, Smp!Sane, Smp!IInv, Smp!AllStarted PROVE Smp!IInv'
<1>1. /\ Len(cpus) \in Nat \ {0} /\ smp_at = Len(cpus) + 1 /\ stage = "start" /\ Smp!Alive /\ ~Smp!Early /\ ap[bsp] = "boot"
      /\ running_cpu_count >= Len(cpus) /\ bsp \in Ids /\ "timer" \in ready
  BY DEF Smp!IInv, Smp!Types, Smp!Listed, Smp!Places, Smp!SetUp, Smp!Early, Smp!AllStarted, Smp!Boots, Smp!AllCount
<1>2. /\ UNCHANGED <<given, smp_madt, bsp, cpus, smp_at, slot, running_cpu_count, stack, ticks, ready, panicked>>
      /\ stage' = "done" /\ mapped' = FALSE /\ ap' = [ap EXCEPT ![bsp] = "idle"]
  BY <1>1 DEF Smp!AllStarted, Smp!Step
<1>3. Smp!Others' = Smp!Others /\ Smp!Sent' = Smp!Sent /\ Smp!Counted' = Smp!Counted
  BY <1>2 DEF Smp!Others, Smp!Sent, Smp!Counted, Smp!IInv, Smp!Types
<1>4. Smp!Others = Smp!Counted
  <2>1. /\ Smp!IsFiniteSet(Smp!Counted) /\ Smp!Cardinality(Smp!Counted) \in Nat
        /\ Smp!IsFiniteSet(Smp!Others) /\ Smp!Cardinality(Smp!Others) <= Len(cpus) - 1 /\ Smp!Counted \subseteq Smp!Others
    BY <1>1, SmpCountedOthers
  <2>2. running_cpu_count = 1 + Smp!Cardinality(Smp!Counted)
    BY DEF Smp!IInv, Smp!Places
  <2>3. Smp!Cardinality(Smp!Others) \in Nat /\ Smp!Cardinality(Smp!Counted) <= Smp!Cardinality(Smp!Others)
    BY Zenon, <2>1 DEF Smp!Finiteness
  <2>4. Smp!Cardinality(Smp!Others) = Smp!Cardinality(Smp!Counted)
    BY <1>1, <2>1, <2>2, <2>3
  <2> QED BY Zenon, <2>1, <2>4 DEF Smp!Finiteness
<1>5. Smp!Types'
  BY Zenon, <1>2 DEF Smp!IInv, Smp!Types
<1>6. Smp!Listed'
  BY Zenon, <1>1, <1>2, <1>3 DEF Smp!IInv, Smp!Listed, Smp!Early
<1>7. Smp!SetUp'
  BY Zenon, <1>1, <1>2 DEF Smp!IInv, Smp!SetUp, Smp!Missing, Smp!Alive
<1>8. Smp!Places'
  <2>1. bsp \notin Smp!Sent
    BY <1>1 DEF Smp!IInv, Smp!Places
  <2>2. ap'[bsp] = "idle" /\ \A m \in Ids \ {bsp} : ap'[m] = ap[m]
    BY <1>2 DEF Smp!IInv, Smp!Types
  <2> QED BY <1>1, <1>2, <1>3, <1>4, <2>1, <2>2 DEF Smp!IInv, Smp!Places, Smp!Early
<1>9. Smp!PanicHasCpuData'
  BY Zenon, <1>2 DEF Smp!IInv, Smp!PanicHasCpuData, Smp!Missing
<1> QED BY <1>5, <1>6, <1>7, <1>8, <1>9 DEF Smp!IInv

\* A step of one of the other CPUs, which is among those that were started.
LEMMA SmpApStep ==
  ASSUME Smp!Finiteness, Smp!Sane, Smp!IInv, NEW l \in Ids, NEW p \in {"start", "counted", "idle"},
         ap[l] \in {"trampoline", "start", "counted"},
         ap' = [ap EXCEPT ![l] = p], stack' = stack \/ (stack' = [stack EXCEPT ![l] = slot[l]]),
         stack'[l] = slot[l],
         ap[l] = "counted" => p = "idle",
         running_cpu_count' = running_cpu_count + (IF p = "counted" THEN 1 ELSE 0),
         (p = "counted") <=> (ap[l] = "start"), (p = "idle") <=> (ap[l] = "counted"),
         UNCHANGED <<given, smp_madt, bsp, stage, cpus, smp_at, slot, mapped, ticks, ready, panicked>>
  PROVE  Smp!IInv'
<1>1. l # bsp /\ ~Smp!Early /\ l \in Smp!Sent /\ bsp \in Ids
  BY DEF Smp!IInv, Smp!Places, Smp!Types
<1>2. Smp!Others' = Smp!Others /\ Smp!Sent' = Smp!Sent
  BY Zenon DEF Smp!Others, Smp!Sent
<1>3. Smp!Types'
  <2>1. ap' \in [Ids -> {"boot", "off", "trampoline", "start", "counted", "idle", "reset"}]
    BY DEF Smp!IInv, Smp!Types
  <2>2. stack' \in [Ids -> Nat]
    <3>1. slot[l] \in Nat
      BY DEF Smp!IInv, Smp!Types, Smp!All
    <3> QED BY Zenon, <3>1 DEF Smp!IInv, Smp!Types
  <2>3. running_cpu_count' \in Nat
    BY DEF Smp!IInv, Smp!Types
  <2> QED BY Zenon, <2>1, <2>2, <2>3 DEF Smp!IInv, Smp!Types
<1>4. Smp!Listed'
  BY <1>2 DEF Smp!IInv, Smp!Listed, Smp!Early, Smp!Alive
<1>5. Smp!SetUp'
  BY Zenon DEF Smp!IInv, Smp!SetUp, Smp!Missing, Smp!Alive
<1>6. /\ Smp!Counted' = IF p = "counted" THEN Smp!Counted \cup {l} ELSE Smp!Counted
      /\ p = "counted" => l \notin Smp!Counted
  BY Zenon, <1>1 DEF Smp!Counted, Smp!IInv, Smp!Types
<1>7. running_cpu_count' = 1 + Smp!Cardinality(Smp!Counted')
  <2>1. Smp!IsFiniteSet(Smp!Counted) /\ Smp!Cardinality(Smp!Counted) \in Nat
    BY Zenon, SmpCountedOthers
  <2>2. running_cpu_count = 1 + Smp!Cardinality(Smp!Counted)
    BY Zenon DEF Smp!IInv, Smp!Places
  <2>3. CASE p = "counted"
    <3>1. Smp!Cardinality(Smp!Counted') = Smp!Cardinality(Smp!Counted) + 1
      BY Zenon, <1>6, <2>1, <2>3 DEF Smp!Finiteness
    <3> QED BY <2>1, <2>2, <2>3, <3>1
  <2>4. CASE p # "counted"
    BY <1>6, <2>1, <2>2, <2>4
  <2> QED BY Zenon, <2>3, <2>4
<1>8. stage = "done" => Smp!Counted' = Smp!Counted
  <2>1. ASSUME stage = "done" PROVE l \in Smp!Counted
    <3>1. Smp!Sent = Smp!Others /\ Smp!Others = Smp!Counted
      BY <2>1 DEF Smp!IInv, Smp!Places, Smp!Sent, Smp!Others, Smp!Types
    <3> QED BY Zenon, <1>1, <3>1
  <2>2. CASE p = "counted"
    BY Zenon, <1>6, <2>1, <2>2
  <2>3. CASE p # "counted"
    BY Zenon, <1>6, <2>3
  <2> QED BY Zenon, <2>2, <2>3
<1>9. Smp!Places'
  <2>1. ap'[bsp] = ap[bsp] /\ ap'[l] = p /\ \A m \in Ids \ {l} : ap'[m] = ap[m] /\ stack'[m] = stack[m]
    BY <1>1 DEF Smp!IInv, Smp!Types
  <2>2. \A m \in Ids \ {bsp} : ap'[m] \in {"start", "counted", "idle"} => stack'[m] = slot'[m]
    BY Zenon, <2>1 DEF Smp!IInv, Smp!Places
  <2>3. Smp!Early' = Smp!Early
    BY Zenon DEF Smp!Early
  <2> QED BY <1>1, <1>2, <1>7, <1>8, <2>1, <2>2, <2>3 DEF Smp!IInv, Smp!Places
<1>10. Smp!PanicHasCpuData'
  BY Zenon DEF Smp!IInv, Smp!PanicHasCpuData, Smp!Missing
<1> QED BY Zenon, <1>3, <1>4, <1>5, <1>9, <1>10 DEF Smp!IInv

\* Every step of the start.
LEMMA SmpNextIInv == ASSUME Smp!Finiteness, Smp!Sane, Smp!IInv, Smp!Next PROVE Smp!IInv'
<1>1. ASSUME NEW l \in Ids, Smp!ap_trampoline_start(l) PROVE Smp!IInv'
  <2>1. stack'[l] = slot[l]
    BY <1>1 DEF Smp!ap_trampoline_start, Smp!IInv, Smp!Types
  <2>2. running_cpu_count' = running_cpu_count + 0
    BY <1>1 DEF Smp!ap_trampoline_start, Smp!IInv, Smp!Types
  <2> QED BY Zenon, <1>1, <2>1, <2>2, SmpApStep DEF Smp!ap_trampoline_start
<1>2. ASSUME NEW l \in Ids, Smp!smp_start_ap(l) PROVE Smp!IInv'
  <2>1. stack[l] = slot[l]
    BY <1>2 DEF Smp!smp_start_ap, Smp!IInv, Smp!Places
  <2> QED BY Zenon, <1>2, <2>1, SmpApStep DEF Smp!smp_start_ap
<1>3. ASSUME NEW l \in Ids, Smp!sched_start_cpu(l) PROVE Smp!IInv'
  <2>1. l # bsp /\ ~Smp!Early /\ stack[l] = slot[l]
    BY <1>3 DEF Smp!sched_start_cpu, Smp!IInv, Smp!Places
  <2>2. "timer" \in ready
    BY <2>1 DEF Smp!IInv, Smp!SetUp, Smp!Early, Smp!Types
  <2>3. running_cpu_count' = running_cpu_count + 0 /\ ap' = [ap EXCEPT ![l] = "idle"]
    BY <1>3, <2>2 DEF Smp!sched_start_cpu, Smp!IInv, Smp!Types
  <2> QED BY Zenon, <1>3, <2>1, <2>2, <2>3, SmpApStep DEF Smp!sched_start_cpu
<1> QED BY Zenon, <1>1, <1>2, <1>3, Smpparse_bootloader_info_IInv, Smpsmp_start_bsp_IInv, Smpacpi_parse_rsdp_IInv, Smppit_init_IInv,
           Smpirq_handler_IInv, Smplapic_timer_calibrate_IInv, Smpsmp_discover_cpus_IInv, Smpsmp_init_IInv,
           Smplapic_send_ipi_IInv, SmpAllStarted_IInv DEF Smp!Next, Smp!Progress

\* A step that leaves the variables alone keeps the invariant.
LEMMA SmpStutterIInv == ASSUME Smp!IInv, UNCHANGED Smp!vars PROVE Smp!IInv'
<1>1. Smp!Types' /\ Smp!Early' = Smp!Early /\ Smp!Others' = Smp!Others /\ Smp!Sent' = Smp!Sent /\ Smp!Counted' = Smp!Counted
  BY Zenon DEF Smp!vars, Smp!IInv, Smp!Types, Smp!Early, Smp!Others, Smp!Sent, Smp!Counted
<1>2. Smp!Listed'
  BY <1>1 DEF Smp!vars, Smp!IInv, Smp!Listed, Smp!Alive
<1>3. Smp!SetUp'
  BY Zenon DEF Smp!vars, Smp!IInv, Smp!SetUp, Smp!Missing, Smp!Alive
<1>4. Smp!Places'
  BY <1>1 DEF Smp!vars, Smp!IInv, Smp!Places
<1>5. Smp!PanicHasCpuData'
  BY DEF Smp!vars, Smp!IInv, Smp!PanicHasCpuData, Smp!Missing
<1> QED BY Zenon, <1>1, <1>2, <1>3, <1>4, <1>5 DEF Smp!IInv

\* The properties follow.
LEMMA SmpIInvSafe ==
  ASSUME Smp!Finiteness, Smp!Sane, Smp!IInv
  PROVE  Smp!TypeOK /\ Smp!TrampolineMapped /\ Smp!OwnStack /\ Smp!SchedulerReady /\ Smp!PanicHasCpuData
<1>1. Smp!TypeOK
  <2>1. running_cpu_count = 1 + Smp!Cardinality(Smp!Counted) /\ Len(cpus) <= MaxCpus /\ Len(cpus) \in Nat
    BY DEF Smp!IInv, Smp!Places, Smp!Listed, Smp!Types
  <2>2. CASE stage \in {"loader", "bsp"}
    <3>1. running_cpu_count = 1
      <4>1. Smp!Counted = {}
        BY <2>2, SmpCountedOthers
      <4> QED BY <2>1, <4>1 DEF Smp!Finiteness
    <3> QED BY <3>1 DEF Smp!IInv, Smp!Types, Smp!Sane, Smp!TypeOK
  <2>3. CASE stage \notin {"loader", "bsp"}
    <3>1. /\ Smp!IsFiniteSet(Smp!Counted) /\ Smp!Cardinality(Smp!Counted) \in Nat
          /\ Smp!IsFiniteSet(Smp!Others) /\ Smp!Cardinality(Smp!Others) <= Len(cpus) - 1 /\ Smp!Counted \subseteq Smp!Others
      BY Zenon, <2>3, SmpCountedOthers
    <3>2. Smp!Cardinality(Smp!Others) \in Nat /\ Smp!Cardinality(Smp!Counted) <= Smp!Cardinality(Smp!Others)
      BY <3>1 DEF Smp!Finiteness
    <3>3. running_cpu_count \in 1 .. MaxCpus
      BY <2>1, <3>1, <3>2 DEF Smp!Sane
    <3> QED BY <3>3 DEF Smp!IInv, Smp!Types, Smp!TypeOK
  <2> QED BY Zenon, <2>2, <2>3
<1>2. Smp!TrampolineMapped
  <2>1. ASSUME NEW l \in Ids, ap[l] = "trampoline" PROVE mapped
    <3>1. l # bsp /\ ~Smp!Early /\ l \in Smp!Sent
      BY <2>1 DEF Smp!IInv, Smp!Places
    <3>2. stage # "done"
      <4>1. ASSUME stage = "done" PROVE FALSE
        <5>1. Smp!Sent = Smp!Others /\ Smp!Others = Smp!Counted
          BY <4>1 DEF Smp!IInv, Smp!Places, Smp!Sent, Smp!Others, Smp!Types
        <5> QED BY Zenon, <2>1, <3>1, <5>1 DEF Smp!Counted
      <4> QED BY <4>1
    <3> QED BY Zenon, <3>1, <3>2 DEF Smp!IInv, Smp!SetUp, Smp!Types, Smp!Early
  <2> QED BY <2>1 DEF Smp!TrampolineMapped
<1>3. Smp!OwnStack
  <2>1. ASSUME NEW l \in Ids, ap[l] \in {"start", "counted", "idle"}, l # bsp
        PROVE  \E i \in 2 .. Len(cpus) : l = cpus[i] /\ stack[l] = i
    <3>1. ~Smp!Early /\ l \in Smp!Sent /\ stack[l] = slot[l]
      BY Zenon, <2>1 DEF Smp!IInv, Smp!Places
    <3>2. PICK i \in 2 .. smp_at - 1 : l = cpus[i]
      BY Zenon, <3>1 DEF Smp!Sent
    <3>3. i \in 2 .. Len(cpus) /\ stage \in {"start", "done"}
      BY <3>1, <3>2 DEF Smp!IInv, Smp!Places, Smp!Types, Smp!Early
    <3> QED BY Zenon, <3>1, <3>2, <3>3 DEF Smp!IInv, Smp!SetUp
  <2> QED BY <2>1 DEF Smp!OwnStack, Smp!NoStack
<1>4. Smp!SchedulerReady
  <2>1. ASSUME NEW l \in Ids, ap[l] = "idle" PROVE stage \in {"start", "done"}
    BY Zenon, <2>1 DEF Smp!IInv, Smp!Places, Smp!Types, Smp!Early
  <2>2. ASSUME ap[bsp] = "idle", NEW i \in DOMAIN smp_madt, smp_madt[i] # 0
        PROVE  smp_madt[i] \in Ids /\ ap[smp_madt[i]] \in {"counted", "idle"}
    <3>1. stage = "done" /\ Smp!Others = Smp!Counted
      BY Zenon, <2>2 DEF Smp!IInv, Smp!Places
    <3>2. smp_madt[i] \in Smp!Counted
      BY <2>2, <3>1 DEF Smp!IInv, Smp!Listed
    <3> QED BY Zenon, <3>2 DEF Smp!Counted
  <2> QED BY Zenon, <2>1, <2>2 DEF Smp!SchedulerReady, Smp!IInv, Smp!SetUp
<1> QED BY <1>1, <1>2, <1>3, <1>4 DEF Smp!IInv
-----------------------------------------------------------------------------
(* What holds in every state, for all Sane constants.                      *)

\* The trampoline is mapped as long as a CPU runs in it, every CPU has a stack of its
\* own, one is in the scheduler only when its data and the timer are there and the
\* first only after all others, and a panic finds the data it reads, except before
\* smp_start_bsp (smp_init, sched_start_cpu).
StartSafe == Smp!TypeOK /\ Smp!TrampolineMapped /\ Smp!OwnStack /\ Smp!SchedulerReady /\ Smp!PanicHasCpuData

\* An interrupt runs the handler of its own line and is acknowledged, and a line
\* that was registered is open, unless two lines share a pin, a pin is missing or
\* read as no override, or the vectors are used up (irq_dispatch, ioapic_enable).
RightHandler == Irq!TypeOK /\ Irq!RightHandler /\ Irq!RegisteredIsOpen

-----------------------------------------------------------------------------
LOCAL INSTANCE FiniteSetTheorems

\* The facts about finite sets that the proofs of both parts assume.
LEMMA IrqFiniteness == Irq!Finiteness
<1>1. \A S : Irq!Cardinality(S) = Cardinality(S) /\ Irq!IsFiniteSet(S) = IsFiniteSet(S)
  BY DEF Irq!Cardinality, Cardinality, Irq!IsFiniteSet, IsFiniteSet
<1>2. /\ Irq!IsFiniteSet({}) /\ Irq!Cardinality({}) = 0
      /\ \A S : Irq!IsFiniteSet(S) => Irq!Cardinality(S) \in Nat
  BY Zenon, <1>1, FS_EmptySet, FS_CardinalityType
<1>3. \A S, T : Irq!IsFiniteSet(S) /\ T \subseteq S =>
          Irq!IsFiniteSet(T) /\ Irq!Cardinality(T) <= Irq!Cardinality(S) /\ (Irq!Cardinality(T) = Irq!Cardinality(S) => T = S)
  BY Zenon, <1>1, FS_Subset
<1>4. \A S, x : Irq!IsFiniteSet(S) =>
          Irq!Cardinality(S \cup {x}) = IF x \in S THEN Irq!Cardinality(S) ELSE Irq!Cardinality(S) + 1
  BY Zenon, <1>1, FS_AddElement
<1>5. \A x : Irq!IsFiniteSet({x})
  BY <1>1, FS_Singleton
<1>6. \A S, T : Irq!IsFiniteSet(S) /\ Irq!IsFiniteSet(T) => Irq!IsFiniteSet(S \cup T)
  BY Zenon, <1>1, FS_Union
<1> QED BY ONLY <1>2, <1>3, <1>4, <1>5, <1>6, Zenon DEF Irq!Finiteness

LEMMA SmpFiniteness == Smp!Finiteness
<1>1. \A S : Smp!Cardinality(S) = Cardinality(S) /\ Smp!IsFiniteSet(S) = IsFiniteSet(S)
  BY Zenon DEF Smp!Cardinality, Cardinality, Smp!IsFiniteSet, IsFiniteSet
<1>2. /\ Smp!IsFiniteSet({}) /\ Smp!Cardinality({}) = 0
      /\ \A S : Smp!IsFiniteSet(S) => Smp!Cardinality(S) \in Nat
  BY <1>1, FS_EmptySet, FS_CardinalityType
<1>3. \A S, T : Smp!IsFiniteSet(S) /\ T \subseteq S =>
          Smp!IsFiniteSet(T) /\ Smp!Cardinality(T) <= Smp!Cardinality(S) /\ (Smp!Cardinality(T) = Smp!Cardinality(S) => T = S)
  BY <1>1, FS_Subset
<1>4. \A S, x : Smp!IsFiniteSet(S) =>
          Smp!Cardinality(S \cup {x}) = IF x \in S THEN Smp!Cardinality(S) ELSE Smp!Cardinality(S) + 1
  BY <1>1, FS_AddElement
<1>5. ASSUME NEW n \in Nat \ {0}, NEW f
      PROVE  Smp!IsFiniteSet({f[i] : i \in 2 .. n}) /\ Smp!Cardinality({f[i] : i \in 2 .. n}) <= n - 1
  <2> DEFINE S == {f[i] : i \in 2 .. n}
             g == [i \in 2 .. n |-> f[i]]
  <2>1. IsFiniteSet(2 .. n) /\ Cardinality(2 .. n) = n - 1
    BY FS_Interval
  <2>2. g \in Surjection(2 .. n, S)
    BY Zenon DEF Surjection
  <2>3. IsFiniteSet(S) /\ Cardinality(S) <= n - 1
    BY <2>1, <2>2, FS_Surjection
  <2> QED BY Zenon, <1>1, <2>3
<1>6. \A n \in Nat \ {0} : \A f : Smp!IsFiniteSet({f[i] : i \in 2 .. n}) /\ Smp!Cardinality({f[i] : i \in 2 .. n}) <= n - 1
  BY <1>5
<1> QED BY ONLY <1>2, <1>3, <1>4, <1>6, Zenon DEF Smp!Finiteness

\* However the CPUs interleave in smp_init, and whatever the MADT lists, the trampoline
\* is mapped while one runs in it, each has its own stack, and none is in the
\* scheduler too early.
THEOREM CpusStartSafely == Smp!Spec => []StartSafe
<1>1. Smp!Init => Smp!IInv
  BY Zenon, SmpFiniteness, SmpSane, SmpInitIInv
<1>2. Smp!IInv /\ [Smp!Next]_(Smp!vars) => Smp!IInv'
  BY Zenon, SmpFiniteness, SmpSane, SmpNextIInv, SmpStutterIInv
<1>3. Smp!IInv => StartSafe
  BY SmpFiniteness, SmpSane, SmpIInvSafe DEF StartSafe
<1> QED BY <1>1, <1>2, <1>3, PTL DEF Smp!Spec

\* An interrupt runs the handler of its line, whatever the MADT's overrides, the order
\* of irq_register and irq_register_msi and the number of pins, cards and vectors.
THEOREM InterruptsAreHandled == Irq!Spec => []RightHandler
<1>1. Irq!Init => Irq!IInv
  BY IrqFiniteness, IrqSane, IrqInitIInv
<1>2. Irq!IInv /\ [Irq!Next]_(Irq!vars) => Irq!IInv'
  BY IrqFiniteness, IrqSane, IrqNextIInv, IrqStutterIInv
<1>3. Irq!IInv => RightHandler
  BY IrqSane, IrqIInvSafe DEF RightHandler
<1> QED BY <1>1, <1>2, <1>3, PTL DEF Irq!Spec
=============================================================================
