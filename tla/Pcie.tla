-------------------------------- MODULE Pcie ---------------------------------
(***************************************************************************)
(* The scan of the PCI Express bus (dev/pcie/pcie.c): scan_bus and         *)
(* scan_device call each other for a bridge, and start the driver of each  *)
(* function that has one, which reads the address and size of a region     *)
(* from a base address register first.                                     *)
(***************************************************************************)
EXTENDS Integers

CONSTANTS Devs, Fns,   \* devices of bus 0 and functions of each: 0 to a last
          MaxDepth,    \* bound for the calls that the kernel's stack holds
          Word         \* 2^32, for a half of a base address register, in units of 4 bytes

VARIABLES kind,     \* kind[d][f]: what is there
          multi,    \* multi[d]: bit 7 of the header type of function 0
          bar,      \* the region of a function with a driver
          reg,      \* reg[d][f]: the base address register, its low half
          depth,    \* calls of scan_bus that are under way
          at,       \* where the innermost is: device and function, or Done
          started,  \* started[d][f]: calls of the driver's init
          read,     \* what the last pcie_get_bar returned
          deep      \* the stack is used up

vars == <<kind, multi, bar, reg, depth, at, started, read, deep>>

LastOf(S) == CHOOSE n \in S : \A m \in S : m <= n
Kinds == {"none", "driver", "bridge", "other"}

\* The address of memory is a multiple of 16 bytes, and so is its size, up to all of the
\* low half and more; ports are any number of units.  high: the half, or the register,
\* that follows, where the code may read it.
Bars == {b \in [base : {0, 8, 9, 10}, high : {0, 1}, size : {1, 2, 4, 8, Word}, type : {"mem32", "mem64", "io"}] :
            /\ b.base % b.size = 0
            /\ b.size < 4 => b.type = "io"
            /\ b.size = Word => b.type = "mem64"
            /\ b.base = 0 => b.size = Word
            /\ b.high = 0 \/ b.type = "mem64" \/ b.base % 2 = 1}
Done == [dev |-> -1, fn |-> -1]
NoRead == [base |-> 0, size |-> 0]

Kind(c) == kind[c.dev][c.fn]

\* pcie_is_bridge: the whole header type is compared, with the bit for more
\* functions, which function 0 may have.
pcie_is_bridge(c) == Kind(c) = "bridge" /\ ~(c.fn = 0 /\ multi[c.dev])

\* Mutant: the other functions are looked at in every device.
MoreAlways(d) == TRUE
More(d) == multi[d]

\* Where the scan of a device begins: the functions after 0 come first, and are
\* looked for only if function 0 is there and is no bridge.
DeviceAt(d) ==
    IF d \notin Devs THEN Done
    ELSE LET zero == [dev |-> d, fn |-> 0]
         IN  IF Kind(zero) # "none" /\ ~pcie_is_bridge(zero) /\ More(d) THEN [zero EXCEPT !.fn = 1] ELSE zero

Init ==
    /\ kind \in [Devs -> [Fns -> Kinds]] /\ multi \in [Devs -> BOOLEAN] /\ bar \in Bars
    /\ \A d \in Devs : kind[d][0] = "none" => ~multi[d] /\ \A f \in Fns : kind[d][f] = "none"
    /\ reg = [d \in Devs |-> [f \in Fns |-> bar.base]]
    /\ depth = 1 /\ at = DeviceAt(0) \* scan_bus(0), of pcie_init
    /\ started = [d \in Devs |-> [f \in Fns |-> 0]] /\ read = NoRead /\ deep = FALSE
-----------------------------------------------------------------------------
(* Registers.                                                              *)

\* What the register holds after a write: the bits below the size stay 0.
Writes(value) == (value \div bar.size) * bar.size

\* The low 4 bits of a register, two of which are part of the address of ports.
Masked(value) == (value \div 4) * 4

\* Mutant: the address is not written back.
BackNothing(low) == Word - 1
Back(low) == Masked(low)

\* pcie_get_bar; bits that only give the type are left out of the words, and bit 2 of
\* the address of ports is taken for that of a 64 bit address.
pcie_get_bar(d, f) ==
    LET low == reg[d][f]
        ones == Masked(Writes(Word - 1))
    IN  /\ reg' = [reg EXCEPT ![d][f] = Writes(Back(low))]
        /\ read' = [base |-> CASE bar.type = "mem64" \/ (bar.type = "io" /\ low % 2 = 1) -> bar.high * Word + Masked(low)
                               [] bar.type = "mem32" -> Masked(low)
                               [] OTHER -> 0,
                    size |-> (Word - ones) % Word]
-----------------------------------------------------------------------------
(* The scan.                                                               *)

\* After a function.
After == IF at.fn = 0 THEN DeviceAt(at.dev + 1)
         ELSE [at EXCEPT !.fn = IF @ = LastOf(Fns) THEN 0 ELSE @ + 1]

Busy == at # Done /\ ~deep

\* Mutant: the loop goes on with the function that is not there.
SkippedNot == at
Skipped == After

\* Mutant: the bridge's bus is another, with nothing on it.
BusOther == DeviceAt(at.dev + 1)
\* pcie_sub_bus gives the bit for more functions, which a bridge that is found
\* does not have: the bus that is scanned for it is bus 0, where the same bridge
\* is found again before the call can return.
BusOfBridge == DeviceAt(0)

\* scan_device of a bridge.
scan_bus ==
    /\ Busy /\ pcie_is_bridge(at)
    /\ IF depth = MaxDepth THEN deep' = TRUE /\ UNCHANGED <<depth, at>>
       ELSE depth' = depth + 1 /\ at' = BusOfBridge /\ UNCHANGED deep
    /\ UNCHANGED <<kind, multi, bar, reg, started, read>>

\* scan_device of a function without a driver, or of none.
scan_device ==
    /\ Busy /\ ~pcie_is_bridge(at) /\ Kind(at) # "driver"
    /\ at' = Skipped
    /\ UNCHANGED <<kind, multi, bar, reg, depth, started, read, deep>>

\* pcie_dispatch_driver and what nvme_controller_init and e1000_init ask first.
pcie_dispatch_driver ==
    /\ Busy /\ Kind(at) = "driver"
    /\ at' = After
    /\ started' = [started EXCEPT ![at.dev][at.fn] = @ + 1]
    /\ pcie_get_bar(at.dev, at.fn)
    /\ UNCHANGED <<kind, multi, bar, depth, deep>>

Next == scan_bus \/ scan_device \/ pcie_dispatch_driver
Progress == Next
Spec == Init /\ [][Next]_vars
-----------------------------------------------------------------------------
\* Type invariant.
TypeOK ==
    /\ at \in [dev : Devs, fn : Fns] \cup {Done} /\ depth \in 1 .. MaxDepth /\ deep \in BOOLEAN
    /\ \A d \in Devs, f \in Fns : reg[d][f] \in 0 .. Word - 1 /\ started[d][f] \in 0 .. MaxDepth

FoundBridge == \E d \in Devs, f \in Fns : (f = 0 \/ multi[d]) /\ pcie_is_bridge([dev |-> d, fn |-> f])

\* At its end it has started the driver of each function once: of function 0
\* always, of the others where the device says that there are more (scan_device).
DriversOnce ==
    at = Done =>
        \A d \in Devs, f \in Fns :
            started[d][f] = IF kind[d][f] = "driver" /\ (f = 0 \/ multi[d]) THEN 1 ELSE 0

\* With one, bus 0 is scanned again and again in calls that do not return, and
\* drivers are started anew each time, until the stack is used up; and only then.
DeepOnlyForBridge == (deep => FoundBridge) /\ (at = Done => ~FoundBridge)

\* A base address register is as it was after it has been sized, except that one for
\* ports loses the two lowest bits of its address; and what was read of memory is its
\* place and its size, of which a region of 4 GiB has 0 (pcie_get_bar).
BarKept ==
    /\ \A d \in Devs, f \in Fns : reg[d][f] = IF started[d][f] = 0 THEN bar.base ELSE Masked(bar.base)
    /\ (read # NoRead /\ bar.type # "io") => read.size = bar.size % Word
    /\ (read # NoRead /\ bar.type = "mem64") => read.base = bar.high * Word + bar.base
    /\ (read # NoRead /\ bar.type = "mem32") => read.base = bar.base
-----------------------------------------------------------------------------
(* Why they hold, in every state: the invariant that the steps keep.       *)

\* Devices and functions are numbered from 0 (32 and 8), and sizes of registers divide
\* the word.
Sane ==
    /\ \E n \in Devs : n \in Nat /\ Devs = 0 .. n
    /\ \E n \in Fns : n \in Nat \ {0} /\ Fns = 0 .. n
    /\ MaxDepth \in Nat \ {0} /\ Word \in Nat /\ \E k \in 2 .. Word : Word = 8 * k

Types ==
    /\ kind \in [Devs -> [Fns -> Kinds]] /\ multi \in [Devs -> BOOLEAN] /\ bar \in Bars
    /\ reg \in [Devs -> [Fns -> Int]] /\ started \in [Devs -> [Fns -> Int]]
    /\ at \in [dev : Devs, fn : Fns] \cup {Done} /\ depth \in 1 .. MaxDepth /\ deep \in BOOLEAN

\* The functions that a scan looks at, and those it is past in this call.
Seen(d, f) == f = 0 \/ multi[d]
Passed(d, f) ==
    /\ Seen(d, f)
    /\ at = Done \/ d < at.dev \/ (d = at.dev /\ f # 0 /\ (at.fn = 0 \/ f < at.fn))

IInv ==
    /\ Types /\ BarKept
    /\ at # Done => Seen(at.dev, at.fn)
    /\ \A d \in Devs : kind[d][0] = "none" => ~multi[d]
    /\ \A d \in Devs, f \in Fns :
          /\ Passed(d, f) => ~pcie_is_bridge([dev |-> d, fn |-> f])
          /\ started[d][f] >= 0 /\ started[d][f] <= IF Passed(d, f) THEN depth ELSE depth - 1
          /\ depth = 1 => started[d][f] = IF kind[d][f] = "driver" /\ Passed(d, f) THEN 1 ELSE 0
    /\ depth > 1 \/ deep => FoundBridge

=============================================================================
