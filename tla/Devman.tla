------------------------------- MODULE Devman -------------------------------
(***************************************************************************)
(* The device manager's storages, kernel/src/hw/devman/devman.c, with the  *)
(* scan of the partition table, kernel/src/fs/gpt.c, on top of the AHCI    *)
(* driver.  ahci_init takes the SATA ports one by one: it configures the   *)
(* port, registers a storage, and gpt_init reads the header and the        *)
(* entries of the drive.  After the boot a user reads and writes drives    *)
(* through the storages and partitions that were registered.               *)
(*                                                                         *)
(* Scale: a page holds PageSectors sectors instead of 8 and a sector one   *)
(* entry instead of 4, so that the header lies over the second entry of a  *)
(* page and not over the fifth.  The entry over the header is unused or    *)
(* its partition has a name of at most 12 characters: what the header's    *)
(* fields are then read as is 0.                                           *)
(*                                                                         *)
(* The page of the header is never reserved.  What gpt_init logs before it *)
(* takes the page of the entries needs memory: if the heap grows then, it  *)
(* takes the header's page.  What a command that was given up writes into  *)
(* a page that the heap has is not followed beyond that page.              *)
(***************************************************************************)
EXTENDS Ahci, FiniteSetsExt, SequencesExt

CONSTANTS Images,      \* what may be on a drive
          PageSectors, \* sectors of a page, and entries in it
          Indices,     \* the storage numbers of the user's handles
          Partitions,  \* and their partition numbers
          Lbas,        \* the sectors that calls begin at, and a lost header names
          Counts,      \* and how many they ask for
          OwnPage,     \* port -> the page of its entries, if not the header's
          NoEntry,     \* a null pointer in a table
          Wild,        \* what kmalloc leaves in a slot, when it is not 0
          MaxCalls,    \* bound: the calls of the user
          MaxEntries   \* bound: the entries that an overwritten header has

\* entries and array: of the header; used: the sectors of the array that hold
\* an entry in use; bootcode: the bootstrap's bytes 16 to 31 are not all 0.
\* The array of a drive lies behind its header, which is in sector 1.
ASSUME ImagesAssumption ==
  Images \subseteq [valid : BOOLEAN, bootcode : BOOLEAN, entries : Nat,
                    array : Sectors \ {0, 1}, used : SUBSET Sectors]

ASSUME SectorsAssumption == Sectors \subseteq Nat /\ Lbas \subseteq Nat /\ Indices \subseteq Nat
ASSUME BoundsAssumption == MaxCalls \in Nat /\ MaxEntries \in Nat

\* A buffer has room for a page, and a page for the two sectors of the header;
\* a PRDT entry is not smaller than a page.
ASSUME SlotsAssumption == /\ Max(Slots) \in Nat /\ Slots = 0 .. Max(Slots)
                          /\ PageSectors \in 2 .. Max(Slots) + 1 /\ PageSectors <= Unit
                          /\ Counts \subseteq 1 .. Max(Slots) + 1

VARIABLES at,       \* where ahci_init is; the ports left to it; of gpt_init, i,
                    \* the page that gpt points to and the page of parts
          header,   \* port -> what became of the page of its header
          image,    \* port -> what is on its drive
          storages, \* storage_pointers
          highest,  \* highest_storage
          calls     \* the user's calls so far

devmanVars == <<at, header, image, storages, highest, calls>>
vars == <<ahciVars, devmanVars>>

GptPage == "page"  \* the first free page when ahci_init begins
UserPage == "user"

\* What the heap has taken, nobody gets again.
ASSUME BuffersAssumption ==
  /\ {GptPage, UserPage} \subseteq Buffers
  /\ OwnPage \in [Ports -> Buffers \ {GptPage, UserPage}]
  /\ \A p, q \in Ports : OwnPage[p] = OwnPage[q] => p = q

\* shared: it is the page of the entries as well.  heap: the heap has it, and
\* the header is still there.  lost: the heap has written over the header.
HeaderPages == {"unread", "shared", "heap", "lost"}

Halted == {"panic", "fault", "corrupt"}
Booting == {"stop", "configure", "add", "header", "check", "log", "loop", "entry", "free"}

-----------------------------------------------------------------------------
(***************************************************************************)
(* The tables of pointers.  The block of a table has room for an even      *)
(* number of slots, for the heap rounds sizes up to 16 bytes.              *)
(***************************************************************************)
RoomFor(slots) == 2 * ((slots + 1) \div 2)

NoTable == [slots |-> <<>>, room |-> 0]
FreshTable(slot) == [slots |-> <<slot>>, room |-> RoomFor(1)]

\* krealloc, which takes the new size first, gets the old one first: the new
\* block has room for the slots there were.
Krealloc(t) == [slots |-> Append(t.slots, NoEntry), room |-> RoomFor(Len(t.slots))]

FreeSlots(t) == {i \in DOMAIN t.slots : t.slots[i] = NoEntry}

PutEntry(t, e) ==
  LET u == IF FreeSlots(t) = {} THEN Krealloc(t) ELSE t
  IN  [u EXCEPT !.slots[Min(FreeSlots(u))] = e]

Fits(t) == Len(t.slots) <= t.room

\* The tables in use: the one of the storages, and each storage's own.
Partition == [id : Nat]
PartitionTable == [slots : Seq(Partition \cup {NoEntry, Wild}), room : Nat]
Storage == [number : Nat, port : Ports, partitions : PartitionTable]

\* A null pointer is not an address, and a wild one is none that was entered.
ASSUME NoEntryAssumption == /\ NoEntry \notin Storage \cup Partition
                            /\ Wild \notin Partition

Storages == ToSet(storages.slots) \ {NoEntry}
\* The partitions that are registered for a storage.
Registered(s) == {e.id : e \in ToSet(s.partitions.slots) \ {NoEntry, Wild}}

Tables == {storages} \cup {s.partitions : s \in Storages}

-----------------------------------------------------------------------------
(***************************************************************************)
(* Storages and partitions.                                                *)
(***************************************************************************)
GetStorage(number) == CHOOSE s \in Storages : s.number = number
HasStorage(number) == \E s \in Storages : s.number = number

\* Mutant: every drive gets the first number.
AddStorageSameNumber(p) ==
  /\ storages' = PutEntry(IF storages = NoTable THEN FreshTable(NoEntry) ELSE storages,
                          [number |-> 0, port |-> p, partitions |-> NoTable])
  /\ UNCHANGED highest

AddStorage(p) ==
  /\ storages' = PutEntry(IF storages = NoTable THEN FreshTable(NoEntry) ELSE storages,
                          [number |-> highest, port |-> p, partitions |-> NoTable])
  /\ highest' = highest + 1

\* The first table of partitions comes from kmalloc: its slot is not cleared.
AddPartition(number, id) ==
  LET s == GetStorage(number)
      i == CHOOSE j \in DOMAIN storages.slots : storages.slots[j] = s
  IN  \E slot \in {NoEntry, Wild} :
        LET t == IF s.partitions = NoTable THEN FreshTable(slot) ELSE s.partitions
        IN  storages' = [storages EXCEPT !.slots[i].partitions = PutEntry(t, [id |-> id])]

\* The slots are tried in order until one has the id; a wild one is followed.
GetPartition(number, partition) ==
  LET slots == GetStorage(number).partitions.slots
      hits == {j \in DOMAIN slots : slots[j] \in {Wild, [id |-> partition]}}
  IN  IF partition = 0 THEN "whole"
      ELSE IF hits = {} THEN "none"
      ELSE IF slots[Min(hits)] = Wild THEN "fault" ELSE "found"

\* devman_read and devman_write with a handle that names a drive: the sector
\* is the drive's, also for a partition.
Access(number, sector, count, buf, write) ==
  StartIo(GetStorage(number).port, sector, count, buf, write)

-----------------------------------------------------------------------------
(***************************************************************************)
(* ahci_init and gpt_init.                                                 *)
(***************************************************************************)
\* The ports that ahci_probe found are taken in the order of their numbers.
Port == Min(at.left)

\* The storage of the handle that devman_add_storage makes.
Drive == highest - 1

Goto(pc) == at' = [at EXCEPT !.pc = pc]

\* Mutant: FRE stays set.
StopPortHalf == /\ at.pc = "stop" /\ at.left # {}
                /\ port' = [port EXCEPT ![Port].st = FALSE]
                /\ Goto("configure")
                /\ UNCHANGED <<table, drive, io, mem, disk, late,
                               header, image, storages, highest, calls>>

StopPort == /\ at.pc = "stop" /\ at.left # {}
            /\ AhciPortStopCmd(Port)
            /\ Goto("configure")
            /\ UNCHANGED <<header, image, storages, highest, calls>>

ConfigurePort == /\ at.pc = "configure"
                 /\ AhciPortConfigure(Port)
                 /\ Goto("add")
                 /\ UNCHANGED <<header, image, storages, highest, calls>>

DevmanAddStorage == /\ at.pc = "add"
                    /\ AddStorage(Port)
                    /\ Goto(IF Fits(storages') THEN "header" ELSE "corrupt")
                    /\ UNCHANGED <<ahciVars, header, image, calls>>

\* The page is the first free one, and stays so: the request is for
\* sizeof(GptHeader) / 0x1000 = 0 pages.
ReadHeader == /\ at.pc = "header"
              /\ mem' = [mem EXCEPT ![at.gpt] = [s \in Slots |-> Zero]]
              /\ Access(Drive, 0, 2, at.gpt, FALSE)
              /\ Goto("check")
              /\ UNCHANGED <<port, table, drive, disk, late, header, image, storages, highest, calls>>

\* The protective MBR and the signature.
HeaderIsGpt == mem[at.gpt][0] = 0 /\ mem[at.gpt][1] = 1 /\ image[Port].valid

CheckHeader == /\ at.pc = "check" /\ io.pc = "done"
               /\ Goto(IF io.ok /\ HeaderIsGpt THEN "log" ELSE "panic")
               /\ UNCHANGED <<ahciVars, header, image, storages, highest, calls>>

\* The texts that are logged are put together on the heap.  If it has to grow
\* for them, its first new page is the header's, and what it has there may go
\* over the header; the entries get the next page.
LogHeader ==
  /\ at.pc = "log"
  /\ \/ /\ header' = [header EXCEPT ![Port] = "shared"]
        /\ at' = [at EXCEPT !.pc = "loop", !.parts = at.gpt]
     \/ /\ \E page \in {"heap", "lost"} : header' = [header EXCEPT ![Port] = page]
        /\ at' = [at EXCEPT !.pc = "loop", !.parts = OwnPage[Port]]
  /\ UNCHANGED <<ahciVars, image, storages, highest, calls>>

\* partition_entries, gp_array_lba and partition_entry_size as they are in
\* memory now: none of them is known when the heap has written over them.
HeaderKept == mem[at.gpt][1] = 1
Lost == header[Port] = "lost"

PartitionEntries == IF Lost THEN 0 .. MaxEntries
                    ELSE IF HeaderKept THEN {image[Port].entries} ELSE {0}

EntriesLba == IF Lost THEN Lbas ELSE {image[Port].array + at.i \div PageSectors}

MayDivide == Lost \/ HeaderKept
MayFault == Lost \/ ~HeaderKept

ReadEntries ==
  /\ at.pc = "loop"
  /\ \/ \E entries \in PartitionEntries, lba \in EntriesLba :
          /\ at.i < entries
          /\ Access(Drive, lba, PageSectors, at.parts, FALSE)
          /\ Goto("entry")
     \/ /\ \E entries \in PartitionEntries : at.i >= entries
        /\ Goto("free")
        /\ UNCHANGED io
     \/ /\ Lost
        /\ Goto("fault")
        /\ UNCHANGED io
  /\ UNCHANGED <<port, table, drive, mem, disk, late, header, image, storages, highest, calls>>

\* Mutant: the quotient and the remainder are mixed up.
EntryPlaceByPage(i) == i \div PageSectors

EntryPlace(i) == i % PageSectors

\* pt_guid of what lies at the entry's place.
Used(content) == \/ content = 0 /\ image[Port].bootcode
                 \/ content = 1
                 \/ content \in image[Port].used

\* What a page held before it was taken for the entries, nobody knows.
Unknown(content) == content = Zero /\ at.parts # at.gpt

EntryUsed == LET content == mem[at.parts][EntryPlace(at.i)]
             IN  IF Lost \/ Unknown(content) THEN BOOLEAN ELSE {Used(content)}

NextEntry == at' = [at EXCEPT !.pc = "loop", !.i = @ + 1]

\* The page is looked at whether the read went well or not.  The division by
\* the entry size faults when that is 0.  What is logged and entered of a
\* partition in use may go over a header that the heap has.
TakeEntry ==
  /\ at.pc = "entry" /\ io.pc = "done"
  /\ \/ /\ MayFault
        /\ Goto("fault")
        /\ UNCHANGED <<storages, header>>
     \/ /\ MayDivide /\ FALSE \in EntryUsed
        /\ NextEntry
        /\ UNCHANGED <<storages, header>>
     \/ /\ MayDivide /\ TRUE \in EntryUsed
        /\ AddPartition(Drive, at.i)
        /\ IF \A s \in ToSet(storages'.slots) \ {NoEntry} : Fits(s.partitions)
             THEN NextEntry ELSE Goto("corrupt")
        /\ \/ UNCHANGED header
           \/ header[Port] = "heap" /\ header' = [header EXCEPT ![Port] = "lost"]
  /\ UNCHANGED <<ahciVars, image, highest, calls>>

\* The page of the entries is free again, and the first one.
NextPort == /\ at.pc = "free"
            /\ at' = [pc |-> "stop", left |-> at.left \ {Port}, i |-> 0,
                      gpt |-> at.parts, parts |-> at.parts]
            /\ UNCHANGED <<ahciVars, header, image, storages, highest, calls>>

BootDone == /\ at.pc = "stop" /\ at.left = {}
            /\ Goto("run")
            /\ UNCHANGED <<ahciVars, header, image, storages, highest, calls>>

BootStep == \/ StopPort \/ ConfigurePort \/ DevmanAddStorage \/ ReadHeader
            \/ CheckHeader \/ LogHeader \/ ReadEntries \/ TakeEntry \/ NextPort \/ BootDone

-----------------------------------------------------------------------------
(***************************************************************************)
(* The user, once the boot is over: devman_read and devman_write.          *)
(***************************************************************************)
Refuse(number) == io' = [IoIdle EXCEPT !.pc = "done", !.lba = number]

Call(number, partition, lba, count, write) ==
  /\ at.pc = "run" /\ io.pc \in {"idle", "done"} /\ calls < MaxCalls
  /\ calls' = calls + 1
  /\ IF ~HasStorage(number) \/ (number < highest /\ GetPartition(number, partition) = "none")
       THEN Refuse(lba) /\ UNCHANGED <<at, mem>>
       ELSE IF GetPartition(number, partition) = "fault"
              THEN Goto("fault") /\ UNCHANGED <<io, mem>>
              ELSE /\ Access(number, lba, count, UserPage, write)
                   /\ mem' = [mem EXCEPT ![UserPage] =
                                [s \in Slots |-> IF write THEN New ELSE Zero]]
                   /\ UNCHANGED at
  /\ UNCHANGED <<port, table, drive, disk, late, header, image, storages, highest>>

DevmanRead == \E number \in Indices, partition \in Partitions, lba \in Lbas, count \in Counts :
                Call(number, partition, lba, count, FALSE)

DevmanWrite == \E number \in Indices, partition \in Partitions, lba \in Lbas, count \in Counts :
                 Call(number, partition, lba, count, TRUE)

-----------------------------------------------------------------------------
DriverStep == /\ at.pc \notin Halted
              /\ IoStep
              /\ UNCHANGED devmanVars

DriveRuns(p) == DriveStep(p) /\ UNCHANGED devmanVars

Init == /\ AhciInit
        /\ at = [pc |-> "stop", left |-> AhciProbe, i |-> 0, gpt |-> GptPage, parts |-> GptPage]
        /\ header = [p \in AhciProbe |-> "unread"]
        /\ image \in [AhciProbe -> Images]
        /\ storages = NoTable
        /\ highest = 0
        /\ calls = 0

Next == \/ BootStep \/ DriverStep
        \/ DevmanRead \/ DevmanWrite
        \/ \E p \in Ports : DriveRuns(p)

\* The CPU keeps running, and a port follows its ST and FRE bits; nothing is
\* assumed of how fast a drive is, or that it answers at all.
Fairness == /\ WF_vars(BootStep) /\ WF_vars(DriverStep)
            /\ \A p \in Ports : WF_vars(Follow(p) /\ UNCHANGED devmanVars)

Spec == Init /\ [][Next]_vars /\ Fairness

-----------------------------------------------------------------------------
\* The types of the driver's and the device manager's state.
TypeOK ==
  /\ AhciTypeOK
  /\ at.pc \in Booting \cup Halted \cup {"run"}
  /\ at.left \subseteq AhciProbe /\ at.i \in Nat
  /\ {at.gpt, at.parts} \subseteq Buffers \ {UserPage}
  /\ header \in [AhciProbe -> HeaderPages]
  /\ highest = Cardinality(Storages)
  /\ calls \in 0 .. MaxCalls

\* A call that reports success has moved its sectors: what is left of count
\* after the full entries of the PRDT, from the start of the buffer.  This is
\* not so once a command was given up anywhere: it may answer for a later one
\* of its port, or write into a page that another drive's call has by then
\* (ahci.c, _ahci_port_io_sata).
DoneMeansDone ==
  io.pc = "done" /\ io.ok /\ late = {} =>
    \A s \in 0 .. Residue(io.count) - 1 : mem[io.buf][s] = disk[io.port][io.lba + s]

\* A drive touches memory only for the call that is waiting for it, and only
\* the buffer of that call, unless the driver has given up a command on its
\* port: only then may it write into memory that gpt_init has freed or that
\* has another use (ahci.c, the end of the second spin).
NoStrayDma ==
  [][\A p \in Ports : p \notin late /\ drive[p].busy /\ drive'[p].moved > drive[p].moved =>
       /\ io.pc = "spin" /\ io.port = p
       /\ \E k \in DOMAIN drive[p].prdt :
            Covers(drive[p].prdt, k, drive[p].moved) /\ drive[p].prdt[k].buf = io.buf]_vars

\* A number in a handle names one drive for good, the drives that work have
\* the numbers from 0 in the order of their ports, and each is a drive that
\* is present, awake and ATA (ahci_probe with devman_add_storage).
NumbersNameDrives ==
  \A i \in DOMAIN storages.slots :
    LET s == storages.slots[i]
    IN  /\ s # NoEntry => /\ s.number = i - 1
                          /\ Attached[s.port] = [detection |-> "present", power |-> "active",
                                                 signature |-> "ata"]
        /\ i > 1 => storages.slots[i - 1].port < s.port

\* What the scan of a drive that answered every time has registered.  Nothing,
\* if the header and the entries have one page: the entries that are read well
\* go over the header, and the next division by the entry size faults; only a
\* command that was given up on another port, with a sector from a lost header,
\* could bring a header back.  With a page for each, and as long as no command
\* was given up anywhere, the entries in use of the first page, and no other
\* of them (gpt.c, gpt_init).
ScanRegisters ==
  \A s \in Storages :
    LET gpt == image[s.port]
    IN  s.port \notin late /\ ~drive[s.port].halted =>
          /\ /\ header[s.port] \in {"unread", "shared"}
             /\ \A p \in late : header[p] # "lost"
             => s.partitions = NoTable
          /\ header[s.port] = "heap" /\ s.port \notin at.left /\ late = {} =>
               \A i \in 0 .. PageSectors - 1 :
                 i \in Registered(s) <=> i < gpt.entries /\ gpt.array + i \in gpt.used

\* The boot ends: every wait for a drive runs out, and a stopped port stops.
BootEnds == <>(at.pc \in Halted \cup {"run"} \/ io.pc = "corrupt")

\* A table of pointers stays inside of its block on the heap: what the sizes
\* that krealloc is declared to take promise (devman_add_storage,
\* devman_add_partition).
TablesFit == \A t \in Tables : Fits(t)
=============================================================================
