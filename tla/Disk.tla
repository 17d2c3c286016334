-------------------------------- MODULE Disk ---------------------------------
(***************************************************************************)
(* Block devices and partitions: the table of devices (sys/device.c), the  *)
(* disks that NVMe controllers register (dev/nvme/nvme.c), and their       *)
(* partitions, found in the page that holds the GPT (dev/disk.c).          *)
(***************************************************************************)
EXTENDS Integers, Sequences, SequencesExt

CONSTANTS Ctls,     \* NVMe controllers, numbered from 0
          Spaces,   \* ids of namespaces
          Minors,   \* minor numbers of a disk: 128
          Slots,    \* entries of 128 bytes in the page, after the GPT's header
          Starts,   \* first blocks of partitions
          BlockSize \* bytes of a block

VARIABLES disks,    \* disks[c][n]: the page at the beginning of a namespace
          chain,    \* block_devices[4]: the newest first
          nodes,    \* the nodes in /dev: name and number
          scan,     \* the disk whose partitions are being made
          done      \* disks that are registered

vars == <<disks, chain, nodes, scan, done>>

Empty == 0
Pages == {[gpt |-> FALSE, entry |-> 1, slots |-> [i \in 1 .. Slots |-> Empty]]} \cup
         {p \in [gpt : {TRUE}, entry : {1, 2}, slots : [1 .. Slots -> Starts \cup {Empty}]] :
             \A i \in 1 .. Slots : (i - 1) % p.entry # 0 => p.slots[i] = Empty}
Idle == [ctl |-> -1, ns |-> 0, slot |-> 0, parts |-> 0]

Init ==
    /\ disks \in [Ctls -> [Spaces -> Pages]]
    /\ chain = <<>> /\ nodes = {} /\ scan = Idle /\ done = <<>>
-----------------------------------------------------------------------------
\* Mutant: the namespaces of a controller share their numbers.
DevFlat(c, ns) == 0
\* make_dev(4, (ns - 1) * 128) in nvme_namespace_register: the controller is not
\* in it.
Dev(c, ns) == (ns - 1) * Minors

\* blockdev_new
blockdev_new(device) == chain' = <<device>> \o chain

\* blockdev_lookup; 0 if there is none.
blockdev_lookup(dev) == SelectInSeq(chain, LAMBDA d : d.dev = dev)

\* nvme_namespace_register with disk_create, to the loop of disk_parse_gpt.
disk_create(c, ns) ==
    /\ scan = Idle
    /\ \A i \in DOMAIN done : done[i][1] < c \/ (done[i][1] = c /\ done[i][2] < ns)
    /\ blockdev_new([dev |-> Dev(c, ns), ctl |-> c, ns |-> ns, start |-> 0, part |-> 0])
    /\ nodes' = nodes \cup {[ctl |-> c, ns |-> ns, part |-> 0, dev |-> Dev(c, ns)]}
    /\ scan' = IF disks[c][ns].gpt THEN [ctl |-> c, ns |-> ns, slot |-> 1, parts |-> 0] ELSE Idle
    /\ done' = Append(done, <<c, ns>>)
    /\ UNCHANGED disks

Page == disks[scan.ctl][scan.ns]
\* The rounds of the loop, by the size of the entries.
Rounds(page) == Slots \div page.entry

\* Mutant: partitions are numbered by their entry.
IndexOfSlot == scan.slot
Index == scan.parts + 1

disk_create_partition(start, dev) ==
    /\ blockdev_new([dev |-> dev, ctl |-> scan.ctl, ns |-> scan.ns, start |-> start, part |-> Index])
    /\ nodes' = nodes \cup {[ctl |-> scan.ctl, ns |-> scan.ns, part |-> Index, dev |-> dev]}

\* A round of the loop: the array is followed in steps of 128
\* bytes whatever the size of an entry.
disk_parse_gpt ==
    LET start == Page.slots[scan.slot]
        last == scan.slot = Rounds(Page)
    IN  /\ scan # Idle
        /\ IF start # Empty
           THEN disk_create_partition(start, Dev(scan.ctl, scan.ns) + Index)
           ELSE UNCHANGED <<chain, nodes>>
        /\ scan' = IF last THEN Idle
                   ELSE [scan EXCEPT !.slot = @ + 1, !.parts = IF start # Empty THEN @ + 1 ELSE @]
        /\ UNCHANGED <<disks, done>>

Next == (\E c \in Ctls, ns \in Spaces : disk_create(c, ns)) \/ disk_parse_gpt
Spec == Init /\ [][Next]_vars
-----------------------------------------------------------------------------
(* Reading.                                                                *)

StartOf(device) == device.start

\* part_pread_blocks and nvme_read_blocks: the namespace and the block that a
\* block of a device number is.
Reads(dev, block) ==
    LET device == chain[blockdev_lookup(dev)]
        disk == chain[blockdev_lookup(Dev(device.ctl, device.ns))]
    IN  <<disk.ctl, disk.ns, StartOf(device) + block>>

\* Mutant: a disk's position is taken for a block.
FilePosBytes(device, pos) == IF device.part = 0 THEN pos ELSE pos * BlockSize
\* The block of a position, for which part_read multiplies by the size of a block
\* where it would have to divide.
FilePos(device, pos) == IF device.part = 0 THEN pos \div BlockSize ELSE pos * BlockSize

\* nvme_file_read and part_read: where a position of an open file is read.
FileReads(dev, pos) == Reads(dev, FilePos(chain[blockdev_lookup(dev)], pos))

RealParts(c, ns) ==
    LET page == disks[c][ns]
    IN  IF page.gpt THEN SelectSeq(page.slots, LAMBDA s : s # Empty) ELSE <<>>
Made(c, ns) == SelectSeq(Reverse(chain), LAMBDA d : d.ctl = c /\ d.ns = ns /\ d.part # 0)

\* Type invariant.
TypeOK ==
    /\ \A i \in DOMAIN chain : chain[i].ctl \in Ctls /\ chain[i].ns \in Spaces /\ chain[i].part \in 0 .. Slots
    /\ scan.slot \in 0 .. Slots

\* Through any node of /dev a block is read from the namespace that the node is
\* named after, at the partition's place, unless another controller has a
\* namespace of the same id, which has the same number.
ReadsOwnDisk ==
    \A n \in nodes :
        (\A m \in nodes : m.ns = n.ns => m.ctl = n.ctl) =>
            LET parts == RealParts(n.ctl, n.ns)
            IN  Reads(n.dev, 1) = <<n.ctl, n.ns, IF n.part = 0 THEN 1 ELSE parts[n.part] + 1>>

\* Read as a file, a disk gives the block that holds the position, and a partition
\* gives its first block at its beginning; past the beginning of a partition
\* part_read goes too far, never back, and never before the partition.
FileBeginsRight ==
    \A n \in nodes, pos \in 0 .. 2 * BlockSize :
        LET block == Reads(n.dev, pos \div BlockSize)
        IN  /\ FileReads(n.dev, pos)[3] >= block[3]
            /\ n.part = 0 \/ pos = 0 => FileReads(n.dev, pos) = block

\* The entries of the GPT's page that are in use become partitions in their order,
\* without a gap in their numbers: all of them with entries of 128 bytes, and of
\* larger ones those in the part of the page that is looked at.
PartitionsInOrder ==
    scan = Idle => \A i \in DOMAIN done :
        LET c == done[i][1]
            ns == done[i][2]
            made == Made(c, ns)
        IN  /\ \A j \in DOMAIN made : made[j].part = j /\ made[j].start = RealParts(c, ns)[j]
            /\ disks[c][ns].entry = 1 => Len(made) = Len(RealParts(c, ns))
=============================================================================
