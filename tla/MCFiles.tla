------------------------------- MODULE MCFiles -------------------------------
(***************************************************************************)
(* Instances for TLC of what lies behind file descriptors: the tree of     *)
(* names, the table of open files on one and on two CPUs, the contents of  *)
(* a file of ramfs, and the table of UDP ports on one and on two CPUs.  A  *)
(* behaviour is one of one of them, and `which' says of which; the         *)
(* variables of the others are Off.                                        *)
(***************************************************************************)
EXTENDS Integers, Sequences, TLC

CONSTANTS s1, s2, s3, Nil,  \* sockets
          Off

VARIABLES which,
          entry, chain, next_id, held, mounted, fault,       \* NameSpace
          files, node, fds, maps, op, alive, lost, stray,    \* FileTable, with raced
          pages, size, pos, locked, out,                     \* Ramfs, with undef
          sock, table, next_eph_port, call, lock,            \* UdpTable, with both
          raced, undef

nameVars == <<entry, chain, next_id, held, mounted, fault>>
fileVars == <<files, node, fds, maps, op, alive, lost, stray>>
pageVars == <<pages, size, pos, locked, out>>
udpVars == <<sock, table, next_eph_port, call, lock>>
vars == <<which, nameVars, fileVars, pageVars, udpVars, raced, undef>>

Names == INSTANCE NameSpace WITH MaxEntry <- 6, MaxRefs <- 2, Files <- {"a"}, Dirs <- {"d"},
                                 Procs <- {"1"}, ProcFiles <- <<"status">>
\* Two descriptors each, two slots, one file, two sockets on one CPU and one on two.
OneCpu == INSTANCE FileTable WITH Tasks <- {1, 2}, First <- 1, Slots <- {1, 2}, Fds <- {1, 2}, Files <- {11},
                                  Socks <- {21, 22}, MaxLost <- 1, Cpus <- 1
TwoCpus == INSTANCE FileTable WITH Tasks <- {1, 2}, First <- 1, Slots <- {1, 2}, Fds <- {1, 2}, Files <- {11},
                                   Socks <- {21}, MaxLost <- 1, Cpus <- 2
\* Two open files on a file of up to two pages of two bytes.
Data == INSTANCE Ramfs WITH Page <- 2, MaxPages <- 2, Lengths <- {0, 1, 3}, Values <- {1, 2}, Fds <- {1, 2},
                            Junk <- 9, Zero <- 0
\* Ports of two bits, in a table of two chains.
Udp == INSTANCE UdpTable WITH Socks <- {s1, s2, s3}, Addrs <- {0, 1}, Byte <- 2, Asked <- {0, 1, 3}, EphStart <- 2,
                              Buckets <- 2, Cpus <- {1}
Udp2 == INSTANCE UdpTable WITH Socks <- {s1, s2}, Addrs <- {0, 1}, Byte <- 2, Asked <- {1, 3}, EphStart <- 2,
                               Buckets <- 2, Cpus <- {1, 2}

NamesOff == entry = Off /\ chain = Off /\ next_id = Off /\ held = Off /\ mounted = Off /\ fault = Off
FilesOff == files = Off /\ node = Off /\ fds = Off /\ maps = Off /\ op = Off /\ alive = Off /\ lost = Off
            /\ stray = Off
DataOff == pages = Off /\ size = Off /\ pos = Off /\ locked = Off /\ out = Off
UdpOff == sock = Off /\ table = Off /\ next_eph_port = Off /\ call = Off /\ lock = Off

Init ==
    \/ /\ which = "names" /\ Names!Init
       /\ FilesOff /\ DataOff /\ UdpOff /\ raced = Off /\ undef = Off
    \/ /\ \/ which = "one cpu" /\ OneCpu!Init
          \/ which = "two cpus" /\ TwoCpus!Init
       /\ NamesOff /\ DataOff /\ UdpOff /\ undef = Off
    \/ /\ which = "data" /\ Data!Init
       /\ NamesOff /\ FilesOff /\ UdpOff /\ raced = Off
    \/ /\ \/ which = "udp" /\ Udp!Init
          \/ which = "udp two cpus" /\ Udp2!Init
       /\ NamesOff /\ FilesOff /\ DataOff

Next ==
    /\ UNCHANGED which
    /\ \/ which = "names" /\ Names!Next /\ UNCHANGED <<fileVars, pageVars, udpVars, raced, undef>>
       \/ which = "one cpu" /\ OneCpu!Next /\ UNCHANGED <<nameVars, pageVars, udpVars, undef>>
       \/ which = "two cpus" /\ TwoCpus!Next /\ UNCHANGED <<nameVars, pageVars, udpVars, undef>>
       \/ which = "data" /\ Data!Next /\ UNCHANGED <<nameVars, fileVars, udpVars, raced>>
       \/ which = "udp" /\ Udp!Next /\ UNCHANGED <<nameVars, fileVars, pageVars>>
       \/ which = "udp two cpus" /\ Udp2!Next /\ UNCHANGED <<nameVars, fileVars, pageVars>>

Spec == Init /\ [][Next]_vars

Symmetry == Permutations({s1, s2, s3})
-----------------------------------------------------------------------------
\* Through the cache of names, filled in any order and never told of a mount, a
\* look-up finds what the tree holds; no entry is in the cache twice, neither cache
\* nor tree leads to a freed entry, and a name that procfs removed stays only while
\* it is referenced (vfs_lookup_at, ventry_put).
LookupCorrect ==
    which = "names" => /\ Names!TypeOK /\ Names!LookupCorrect /\ Names!CacheOnce
                       /\ Names!NothingFreedInTree /\ Names!StaleEntryReferenced

\* Unless two CPUs met in a slot, an open file counts its descriptors, its mappings
\* and, for ever, the ranges that a mapping refused or replaced; what a descriptor or
\* a mapping leads to was not freed, and a slot that is not counted is empty; on one
\* CPU no two callers meet (vfs_open_internal, vfs_put_file, vm_space_map).
OpenFilesCounted ==
    /\ which = "one cpu" => /\ OneCpu!TypeOK /\ OneCpu!RefsCounted /\ OneCpu!DescriptorUsable
                            /\ OneCpu!NodesCounted /\ OneCpu!IdleSlotsEmpty /\ OneCpu!NeverRaced
    /\ which = "two cpus" => /\ TwoCpus!TypeOK /\ TwoCpus!RefsCounted /\ TwoCpus!DescriptorUsable
                             /\ TwoCpus!NodesCounted /\ TwoCpus!IdleSlotsEmpty

\* Reads and writes page by page, and page faults, see one array of bytes, and the
\* pages that a write adds are enough for it, wherever a seek has left the position
\* (ramfs_read, ramfs_write, ramfs_vm_fault).
ImplementsByteFile ==
    /\ which = "data" => Data!File!Init
    /\ [][which = "data" => Data!File!Next \/ UNCHANGED Data!File!vars]_vars
    /\ [](which = "data" => Data!TypeOK /\ Data!WritesFit)

\* Binds, refused binds, sends and releases in any order keep the hash table of
\* ports exact while nobody is let into it beside a waiter; a socket is rebound or
\* freed while it is in it only if a send gave it its port; and on one CPU, where
\* nobody waits, no port is given out twice and no datagram is queued for a socket
\* that is gone (udp_bind, udp_release, mutex_lock).
PortsExact ==
    /\ which = "udp" => /\ Udp!TypeOK /\ Udp!TableExact /\ Udp!StrayOnlyBySending
                        /\ Udp!CallsDoNotRace
    /\ which = "udp two cpus" => Udp2!TableExact /\ Udp2!StrayOnlyBySending
=============================================================================
