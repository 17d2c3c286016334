------------------------------ MODULE Keyboard -------------------------------
(***************************************************************************)
(* The PS/2 keyboard (dev/ps2.c): the interrupt handler, that keeps the    *)
(* modifiers and gives a key to the terminal or, while a task owns         *)
(* /dev/keyboard, to a ring of events, and the calls on that device.  No   *)
(* lock is taken: on one CPU the handler and the calls do not meet, as     *)
(* both run with interrupts off; on two they do.                           *)
(***************************************************************************)
EXTENDS Integers, Sequences, FiniteSets

CONSTANTS Tasks,   \* tasks that use /dev/keyboard, each on a CPU of its own if there are two
          Cpus,    \* 1 or 2
          Ring,    \* entries of ringbuffer
          Keys     \* keys that are pressed

VARIABLES mod, owner, cur_tty,           \* keyboard0_mod, owner, cur_tty
          ringbuffer, ring_head, ring_tail,
          irq,      \* the key whose interrupt is being handled
          opening,  \* tasks that have found the keyboard free and not yet taken it
          has,      \* tasks with the device open
          held,     \* keys with the code of a modifier that are down
          lost,     \* history: modifiers of which one key was let go while another is down
          queue,    \* history: the events in the ring, NoEvent for one that was not written
          raced     \* history: two tasks found the keyboard free together

vars == <<mod, owner, cur_tty, ringbuffer, ring_head, ring_tail, irq, opening, has, held, lost, queue, raced>>

Nobody == "nobody"
None == "none"
\* The keys with the codes of a modifier.  Right ctrl sends the code of ctrl after the
\* prefix 0xe0, which to the handler is the release of a key behind the tables and
\* changes nothing; print screen sends that of shift, pause presses and lets go of ctrl.
Shifts == {"lshift", "rshift"}
Ctrls == {"lctrl", "rctrl"}
Modifier(key) == CASE key \in Shifts -> {"shift"} [] key \in Ctrls -> {"ctrl"} [] OTHER -> {}
Events == [key : {"c", "C", "tab", "ctrl", None}, down : BOOLEAN]
NoEvent == [key |-> None, down |-> FALSE]
Idle == [key |-> None, down |-> FALSE, char |-> None, tty |-> FALSE, moved |-> FALSE]

\* regular_scancodes and shifted_scancodes: the modifiers have no character in
\* either, tab has none with shift, and f1 lies behind the end of both.
Char(key, shift) ==
    CASE key = "c" -> IF shift THEN "C" ELSE "c"
      [] key = "tab" -> IF shift THEN None ELSE "tab"
      [] OTHER -> None
InTable(key) == key # "f1"

Init ==
    /\ mod = {} /\ owner = Nobody /\ cur_tty = FALSE
    /\ ringbuffer = [i \in 0 .. Ring - 1 |-> NoEvent]
    /\ ring_head = 0 /\ ring_tail = 0
    /\ irq = Idle /\ opening = {} /\ has = {} /\ held = {} /\ lost = {} /\ queue = <<>> /\ raced = FALSE

\* One CPU is in one place at a time.
Free == Cpus = 1 => irq = Idle /\ opening = {}
-----------------------------------------------------------------------------
\* Mutant: releasing a shift key leaves the modifier.
ModifiersStuck(key, down) == IF down THEN mod \cup Modifier(key) ELSE mod \ (Modifier(key) \ {"shift"})
Modifiers(key, down) == IF down THEN mod \cup Modifier(key) ELSE mod \ Modifier(key)

\* Another key with the code of the same modifier is down.
Another(key) == \E k \in held \ {key} : Modifier(k) = Modifier(key)

\* Mutant: the terminal gets every key.
ToTtyAlways == cur_tty
ToTty == owner = Nobody /\ cur_tty

\* interrupt_handler, to the end of the first question for the owner.  A key
\* that is held repeats.
interrupt_handler(key, down) ==
    LET mods == Modifiers(key, down)
        char == Char(key, "shift" \in mods)
        toTty == ToTty /\ down
        ctrlc == key = "c" /\ "ctrl" \in mods
    IN  /\ Free /\ irq = Idle
        /\ held' = IF down /\ Modifier(key) # {} THEN held \cup {key} ELSE held \ {key}
        /\ lost' = IF ~down /\ Another(key) THEN lost \cup Modifier(key) ELSE lost \ Modifier(key)
        /\ mod' = mods
        /\ irq' = IF toTty /\ ctrlc THEN Idle
                  ELSE [key |-> key, down |-> down, char |-> char, tty |-> toTty /\ char # None, moved |-> FALSE]
        /\ UNCHANGED <<owner, cur_tty, ringbuffer, ring_head, ring_tail, opening, has, queue, raced>>

\* Mutant: the ring is full one entry later.
RoomToTheLast == TRUE
Room == (ring_tail + 1) % Ring # ring_head

\* The rest of the handler.  A key without a character other than ctrl takes
\* an entry of the ring and does not write it.
ToRing ==
    LET event == [key |-> IF irq.char # None THEN irq.char ELSE "ctrl", down |-> irq.down]
        written == irq.char # None \/ irq.key \in Ctrls
    IN  /\ irq # Idle /\ irq' = Idle
        /\ IF owner # Nobody /\ InTable(irq.key) /\ Room
           THEN /\ ringbuffer' = IF written THEN [ringbuffer EXCEPT ![ring_tail] = event] ELSE ringbuffer
                /\ ring_tail' = (ring_tail + 1) % Ring
                /\ queue' = Append(queue, IF written THEN event ELSE NoEvent)
           ELSE UNCHANGED <<ringbuffer, ring_tail, queue>>
        /\ UNCHANGED <<mod, owner, cur_tty, ring_head, opening, has, held, lost, raced>>
-----------------------------------------------------------------------------
Moved == irq' = IF irq = Idle THEN Idle ELSE [irq EXCEPT !.moved = TRUE]

\* Mutant: the device is open to all.
FreeForAll == TRUE
IsFree == owner = Nobody

\* kbd_open, to the question whether there is an owner, and from there.
kbd_open(t) ==
    /\ Free /\ t \notin has \cup opening /\ IsFree
    /\ opening' = opening \cup {t}
    /\ raced' = (raced \/ opening # {})
    /\ UNCHANGED <<mod, owner, cur_tty, ringbuffer, ring_head, ring_tail, irq, has, held, lost, queue>>
Take(t) ==
    /\ t \in opening
    /\ opening' = opening \ {t} /\ has' = has \cup {t} /\ owner' = t /\ Moved
    /\ UNCHANGED <<mod, cur_tty, ringbuffer, ring_head, ring_tail, held, lost, queue, raced>>

\* kbd_close: whoever closes, there is no owner.
kbd_close(t) ==
    /\ Free /\ t \in has
    /\ has' = has \ {t} /\ owner' = Nobody /\ Moved
    /\ raced' = (raced /\ (opening # {} \/ has # {t}))
    /\ UNCHANGED <<mod, cur_tty, ringbuffer, ring_head, ring_tail, opening, held, lost, queue>>

\* kbd_read, of an event; of none, or by another task, it changes nothing.
kbd_read(t) ==
    /\ Free /\ t \in has /\ owner = t /\ ring_head # ring_tail
    /\ ring_head' = (ring_head + 1) % Ring
    /\ queue' = Tail(queue)
    /\ UNCHANGED <<mod, owner, cur_tty, ringbuffer, ring_tail, irq, opening, has, held, lost, raced>>

ps2_set_tty ==
    /\ Free /\ irq = Idle /\ ~cur_tty /\ cur_tty' = TRUE
    /\ UNCHANGED <<mod, owner, ringbuffer, ring_head, ring_tail, irq, opening, has, held, lost, queue, raced>>

Next ==
    \/ \E key \in Keys, down \in BOOLEAN : interrupt_handler(key, down)
    \/ ToRing \/ ps2_set_tty
    \/ \E t \in Tasks : kbd_open(t) \/ Take(t) \/ kbd_close(t) \/ kbd_read(t)

Spec == Init /\ [][Next]_vars
-----------------------------------------------------------------------------
\* Type invariant.
TypeOK ==
    /\ mod \subseteq {"shift", "ctrl"} /\ owner \in Tasks \cup {Nobody} /\ cur_tty \in BOOLEAN
    /\ ringbuffer \in [0 .. Ring - 1 -> Events] /\ {ring_head, ring_tail} \subseteq 0 .. Ring - 1
    /\ opening \cup has \subseteq Tasks /\ held \subseteq Shifts \cup Ctrls /\ lost \subseteq {"shift", "ctrl"} /\ raced \in BOOLEAN

\* The ring holds the events of the keys that were queued and not yet read, in
\* their order and each with its own key and state, except that the entry of a
\* key without a character repeats an event from before (interrupt_handler).
RingHoldsQueue ==
    /\ Len(queue) = (ring_tail - ring_head) % Ring
    /\ \A i \in DOMAIN queue :
          queue[i] # NoEvent => ringbuffer[(ring_head + i - 1) % Ring] = queue[i]

\* A key goes to the terminal and to the ring, or is lost between the two, only
\* if the keyboard was opened or closed on another CPU while it was handled.
KeyToOneReader ==
    (irq # Idle /\ ~irq.moved /\ irq.char # None /\ irq.down /\ cur_tty) => (irq.tty <=> owner = Nobody)

\* The device has one user, the owner, unless two tasks opened it at the same
\* time on two CPUs (kbd_open).
OneOwner == ~raced => has \subseteq {owner} /\ (owner # Nobody => has = {owner})

\* A modifier is set exactly while a key with its code is held, until one of two
\* such keys is let go: that clears it while the other is still down, whichever of
\* the two was pressed first (interrupt_handler).
ModifiersAreHeld ==
    /\ "shift" \in mod <=> held \cap Shifts # {} /\ "shift" \notin lost
    /\ "ctrl" \in mod <=> held \cap Ctrls # {} /\ "ctrl" \notin lost

\* The four together, of dev/ps2.c.
KeyboardSafe == RingHoldsQueue /\ KeyToOneReader /\ OneOwner /\ ModifiersAreHeld
-----------------------------------------------------------------------------
(* Why they hold, in every state: the invariant that the steps keep.       *)

\* The ring has an entry, and nobody is no task.
Sane == Ring \in Nat \ {0} /\ Nobody \notin Tasks

IrqOK == irq \in [key : Keys \cup {None}, down : BOOLEAN, char : {"c", "C", "tab", None},
                  tty : BOOLEAN, moved : BOOLEAN]

\* The entry of the ring n places after p.
After(p, n) == IF p + n < Ring THEN p + n ELSE p + n - Ring

\* The ring without remainders, for a head h, a tail t, contents and a queue.
RingOK(h, t, ring, q) ==
    /\ q \in Seq(Events) /\ Len(q) < Ring /\ t = After(h, Len(q))
    /\ \A i \in 1 .. Len(q) : q[i] # NoEvent => ring[After(h, i - 1)] = q[i]

\* Without a race at most one task is between the two halves of kbd_open, and
\* then nobody has the device.
OneOpens ==
    ~raced => \/ opening = {}
              \/ owner = Nobody /\ \E t \in Tasks : opening = {t}

IInv ==
    /\ TypeOK /\ IrqOK /\ RingOK(ring_head, ring_tail, ringbuffer, queue)
    /\ KeyToOneReader /\ OneOwner /\ OneOpens /\ ModifiersAreHeld
=============================================================================
