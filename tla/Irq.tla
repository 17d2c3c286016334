--------------------------------- MODULE Irq ---------------------------------
(***************************************************************************)
(* From a device's line to its handler (sys/irq.c, arch/x86_64/ioapic.c,   *)
(* interrupts.c): the lines of the PIT and the keyboard through the IOAPIC *)
(* with the overrides of the MADT, those of network cards by MSI-X, and    *)
(* the vectors that the kernel hands out for both.  Code that registers is *)
(* run with interrupts on, so interrupts come between its steps.           *)
(***************************************************************************)
EXTENDS Integers, Sequences, FiniteSets

CONSTANTS Cards,      \* network cards
          Pins,       \* redirection entries of the IOAPIC
          Gsis,       \* GSIs that an override in the MADT may name
          HwVectors   \* INTERRUPT_VECTOR_HW_END - INTERRUPT_VECTOR_HW_START

VARIABLES madt,        \* the MADT's overrides: a sequence of [irq, gsi]
          override,    \* isa_irq_override
          domain_end,  \* ioapic_domain.end, -1 before ioapic_init
          virq_table, virq_alloc,
          redir,       \* redirection entries: vector, or Masked
          msi,         \* msi[c]: the card's entry 0: is its vector written, is it unmasked
          doing,       \* the registration that is under way
          registered,  \* lines whose registration succeeded
          pending,     \* interrupts at the local APIC: vector and line
          service,     \* vectors taken and not acknowledged
          wrong        \* history: what an interrupt met that was not its handler

vars == <<madt, override, domain_end, virq_table, virq_alloc, redir, msi, doing, registered, pending, service, wrong>>

Lines == {"pit", "kbd"} \cup Cards
Hw(line) == IF line = "kbd" THEN 1 ELSE 0  \* ISA_IRQ_PIT, ISA_IRQ_PS2, entry 0
First == 32                                \* the first of virq_alloc
Syscall == First + HwVectors               \* INTERRUPT_VECTOR_SYSCALL
Masked == 0
NoVirq == "none"
Idle == [line |-> "none", id |-> 0, word |-> 0]

\* The GSI of the last override that the MADT names for an ISA interrupt, or `none'.
Named(irq) == {k \in DOMAIN madt : madt[k].irq = irq}
Gsi(irq, none) == IF Named(irq) = {} THEN none
                  ELSE madt[CHOOSE k \in Named(irq) : \A j \in Named(irq) : j <= k].gsi
Wire(line) == Gsi(Hw(line), Hw(line))

Init ==
    /\ madt \in {<<>>} \cup {<<[irq |-> i, gsi |-> g]>> : i \in {0, 1}, g \in Gsis}
                       \cup {<<[irq |-> 0, gsi |-> g], [irq |-> i, gsi |-> h]>> : i \in {0, 1}, g, h \in Gsis}
    /\ override = [i \in {0, 1} |-> 0] /\ domain_end = -1
    /\ virq_table = [v \in First .. First + Cardinality(Lines) - 1 |-> NoVirq] /\ virq_alloc = First
    /\ redir = [p \in 0 .. Pins - 1 |-> Masked] /\ msi = [c \in Cards |-> [vector |-> Masked, open |-> FALSE]]
    /\ doing = Idle /\ registered = {} /\ pending = {} /\ service = {} /\ wrong = {}
-----------------------------------------------------------------------------
\* ioapic_init with ioapic_get_base and irq_domain_register.
ioapic_init ==
    /\ domain_end = -1
    /\ override' = [i \in {0, 1} |-> Gsi(i, 0)]
    /\ domain_end' = Pins
    /\ UNCHANGED <<madt, virq_table, virq_alloc, redir, msi, doing, registered, pending, service, wrong>>

\* The entry of virq_table that both kinds of registration fill.
Fill(line) ==
    /\ virq_table' = [virq_table EXCEPT ![virq_alloc] = line]
    /\ virq_alloc' = virq_alloc + 1

\* Mutant: the override of an ISA interrupt is not looked up.
PinPlain(line) == Hw(line)
Pin(line) == IF override[Hw(line)] # 0 THEN override[Hw(line)] ELSE Hw(line)

\* An entry beyond the IOAPIC's last is not written.
ioapic_write_redirection_entry(pin, vector) == IF pin < Pins THEN [redir EXCEPT ![pin] = vector] ELSE redir

\* irq_register with find_hwirq_domain and ioapic_enable; it succeeds whether or
\* not the entry was written.
irq_register(line) ==
    /\ domain_end >= 0 /\ Hw(line) <= domain_end /\ doing = Idle /\ line \notin registered
    /\ Fill(line)
    /\ redir' = ioapic_write_redirection_entry(Pin(line), virq_alloc)
    /\ registered' = registered \cup {line}
    /\ UNCHANGED <<madt, override, domain_end, msi, doing, pending, service, wrong>>

\* irq_register_msi, to the call of msix_enable; and the words that one writes.
irq_register_msi(card) ==
    /\ domain_end >= 0 /\ doing = Idle /\ card \notin registered
    /\ Fill(card) /\ doing' = [line |-> card, id |-> virq_alloc, word |-> 0]
    /\ UNCHANGED <<madt, override, domain_end, redir, msi, registered, pending, service, wrong>>

Words == <<"address", "high", "vector", "mask">>
msix_enable ==
    LET word == Words[doing.word + 1]
    IN  /\ doing # Idle
        /\ msi' = CASE word = "vector" -> [msi EXCEPT ![doing.line].vector = doing.id]
                    [] word = "mask" -> [msi EXCEPT ![doing.line].open = TRUE]
                    [] OTHER -> msi
        /\ doing' = IF doing.word = 3 THEN Idle ELSE [doing EXCEPT !.word = @ + 1]
        /\ registered' = IF doing.word = 3 THEN registered \cup {doing.line} ELSE registered
        /\ UNCHANGED <<madt, override, domain_end, virq_table, virq_alloc, redir, pending, service, wrong>>
-----------------------------------------------------------------------------
\* A device raises its line.
Vector(line) ==
    IF line \in Cards THEN IF msi[line].open THEN msi[line].vector ELSE Masked
    ELSE IF Wire(line) < Pins THEN redir[Wire(line)] ELSE Masked
Opened(line) == IF line \in Cards THEN msi[line].open ELSE Wire(line) < Pins /\ redir[Wire(line)] # Masked
Raise(line) ==
    /\ Opened(line)
    /\ pending' = pending \cup {[vector |-> Vector(line), line |-> line]}
    /\ UNCHANGED <<madt, override, domain_end, virq_table, virq_alloc, redir, msi, doing, registered, service, wrong>>

\* Mutant: only interrupts with a handler of their own line are acknowledged.
AcksNone(vector) == FALSE
\* irq_dispatch returns before the acknowledgement if the vector is not mapped.
Acks(vector) == virq_table[vector] # NoVirq

\* interrupt_handler and irq_dispatch: what the CPU does with a vector.
irq_dispatch(i) ==
    /\ i \in pending /\ service = {} /\ pending' = pending \ {i}
    /\ IF i.vector < First THEN wrong' = wrong \cup {"exception"} /\ UNCHANGED service
       ELSE IF i.vector >= Syscall THEN wrong' = wrong \cup {"syscall"} /\ service' = {i.vector}
       ELSE /\ wrong' = IF virq_table[i.vector] = i.line THEN wrong ELSE wrong \cup {"handler"}
            /\ service' = IF Acks(i.vector) THEN {} ELSE {i.vector}
    /\ UNCHANGED <<madt, override, domain_end, virq_table, virq_alloc, redir, msi, doing, registered>>

Next ==
    \/ ioapic_init \/ msix_enable
    \/ \E line \in {"pit", "kbd"} : irq_register(line)
    \/ \E card \in Cards : irq_register_msi(card)
    \/ \E line \in Lines : Raise(line)
    \/ \E i \in pending : irq_dispatch(i)

Spec == Init /\ [][Next]_vars
-----------------------------------------------------------------------------
\* Type invariant.
TypeOK ==
    /\ virq_alloc \in First .. First + Cardinality(Lines) /\ domain_end \in {-1, Pins}
    /\ \A v \in DOMAIN virq_table : virq_table[v] \in Lines \cup {NoVirq}
    /\ registered \subseteq Lines /\ wrong \subseteq {"exception", "syscall", "handler"}

\* Two lines on one pin, or the keyboard on pin 0.
Crossed == Wire("pit") = Wire("kbd") \/ Wire("kbd") = 0

\* While there are vectors, an interrupt runs the handler of its own line and is
\* acknowledged, whichever way the MADT wires the lines, unless it wires two of
\* them to one pin or the keyboard to the pin 0, which reads as no override, and
\* whenever it comes, in the middle of a registration too.
\* The line that gets the vector after the last is taken for a system call.
RightHandler ==
    /\ wrong # {} => (Crossed \/ virq_alloc > Syscall)
    /\ "exception" \notin wrong
    /\ virq_alloc <= Syscall => service = {}

\* A line that was registered is open to its interrupts, except on a pin that the
\* IOAPIC does not have, and for the keyboard on the pin 0.
RegisteredIsOpen ==
    \A line \in registered :
        Opened(line) \/ (line \notin Cards /\ (Wire(line) >= Pins \/ (line = "kbd" /\ Wire(line) = 0)))
-----------------------------------------------------------------------------
(* Why they hold, whatever the numbers of cards, pins and vectors.         *)

\* Finitely many cards, with names of their own; the pins and the vectors are counted
\* and the interrupt lines of the firmware numbered.
Sane ==
    /\ IsFiniteSet(Cards) /\ {"pit", "kbd", "none"} \cap Cards = {}
    /\ Pins \in Nat /\ HwVectors \in Nat /\ Gsis \subseteq Nat

\* What the proof uses of finite sets and the number of their elements: FiniteSetTheorems
\* states it.
Finiteness ==
    /\ IsFiniteSet({}) /\ Cardinality({}) = 0
    /\ \A x : IsFiniteSet({x})
    /\ \A S, T : IsFiniteSet(S) /\ IsFiniteSet(T) => IsFiniteSet(S \cup T)
    /\ \A S : IsFiniteSet(S) => Cardinality(S) \in Nat
    /\ \A S, T : IsFiniteSet(S) /\ T \subseteq S =>
          IsFiniteSet(T) /\ Cardinality(T) <= Cardinality(S) /\ (Cardinality(T) = Cardinality(S) => T = S)
    /\ \A S, x : IsFiniteSet(S) =>
          Cardinality(S \cup {x}) = IF x \in S THEN Cardinality(S) ELSE Cardinality(S) + 1

\* The lines that have a vector: one for each, from the first on.
Numbered == IF doing = Idle THEN registered ELSE registered \cup {doing.line}
Given(v) == v \in First .. virq_alloc - 1

\* An interrupt of a line comes with the line's vector, unless two lines are crossed.
OwnVector(v, line) == Given(v) /\ (Crossed \/ virq_table[v] = line)

Types ==
    /\ \A k \in DOMAIN madt : k \in {1, 2} /\ madt[k].gsi \in Nat
    /\ override \in [{0, 1} -> Nat]
    /\ virq_table \in [First .. First + Cardinality(Lines) - 1 -> Lines \cup {NoVirq}]
    /\ redir \in [0 .. Pins - 1 -> Nat]
    /\ msi \in [Cards -> [vector : Nat, open : BOOLEAN]]
    /\ doing \in [line : Cards, id : Nat, word : 0 .. 3] \cup {Idle}
    /\ pending \subseteq [vector : Nat, line : Lines]

\* What the registrations keep true: vectors are given out in order, a pin or a
\* card that is open has a vector that leads to it, and the card that is being
\* registered opens its entry after it wrote its vector.
IInv ==
    /\ TypeOK /\ Types
    /\ domain_end >= 0 => \A i \in {0, 1} : override[i] = Gsi(i, 0)
    /\ ~(domain_end >= 0) => registered = {} /\ doing = Idle
    /\ virq_alloc = First + Cardinality(Numbered)
    /\ \A v \in DOMAIN virq_table : virq_table[v] = NoVirq <=> v >= virq_alloc
    /\ \A p \in DOMAIN redir : redir[p] # Masked =>
          /\ Given(redir[p])
          /\ \E line \in {"pit", "kbd"} : Pin(line) = p /\ virq_table[redir[p]] = line
    /\ \A line \in {"pit", "kbd"} \cap registered : domain_end >= 0 /\ (Pin(line) < Pins => redir[Pin(line)] # Masked)
    /\ \A c \in Cards : /\ msi[c].open <=> c \in registered
                        /\ msi[c].open => Given(msi[c].vector) /\ virq_table[msi[c].vector] = c
    /\ doing # Idle => /\ doing.line \notin registered /\ Given(doing.id) /\ virq_table[doing.id] = doing.line
                       /\ doing.word = 3 => msi[doing.line].vector = doing.id
    /\ \A i \in pending : OwnVector(i.vector, i.line)
    /\ RightHandler
=============================================================================
