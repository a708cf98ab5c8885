----------------------------- MODULE DiskProofs -----------------------------
(***************************************************************************)
(* Proofs about the AHCI driver, the storages and the scan of the          *)
(* partition tables, for any ports, any drives behind them, and drives     *)
(* that answer early, late, with an error or never.                        *)
(***************************************************************************)
EXTENDS Devman, Numbers, FiniteSetTheorems, SequenceTheorems, TLAPS

-----------------------------------------------------------------------------
(***************************************************************************)
(* The invariant of the driver and the drives.                             *)
(***************************************************************************)
Sizes == 1 .. Max(Slots) + 1

Transfer == [whole : BOOLEAN, prdt : Prdt, fis : Fis]
DriveState == [busy : BOOLEAN, halted : BOOLEAN, fis : Fis, prdt : Prdt, moved : Nat]
IoState == [pc : Loading \cup {"idle", "done", "corrupt"}, ok : BOOLEAN, port : Nat, lba : Nat,
            count : Nat, buf : Buffers \cup {NoBuffer}, write : BOOLEAN]
Content == Sectors \cup {Zero, New}

AhciType ==
  /\ port \in [Ports -> AhciHbaPort]
  /\ table \in [Ports -> Transfer]
  /\ drive \in [Ports -> DriveState]
  /\ io \in IoState
  /\ io.pc \in Loading => io.port \in Ports /\ io.count \in Sizes /\ io.buf \in Buffers
  /\ mem \in [Buffers -> [Slots -> Content]]
  /\ disk \in [Ports -> [Sectors -> Content]]
  /\ late \in SUBSET Ports

\* What the driver has asked for with a table stays inside of a buffer.
Within(x) == \/ x.fis.count = 0
             \/ \E c \in Sizes, b \in Buffers :
                  x.fis.count = Residue(c) /\ x.prdt = BuildPrdt(b, c)

\* x asks for what the call in progress is about.
AsksIo(x) == /\ x.fis = [cmd |-> IF io.write THEN "write" ELSE "read",
                         lba |-> io.lba, count |-> Residue(io.count)]
             /\ x.prdt = BuildPrdt(io.buf, io.count)

\* The registers of a port and the state of its drive.
PortAndDrive ==
  \A p \in Ports :
    /\ Within(table[p]) /\ Within(drive[p]) /\ drive[p].moved <= drive[p].fis.count
    /\ port[p].bsy <=> drive[p].busy
    /\ drive[p].busy => port[p].ci /\ ~drive[p].halted
    /\ drive[p].halted => port[p].ci
    /\ port[p].tfes => drive[p].halted

\* Unless the driver has given up a command of the port before, only the call
\* that spins can have one there.
OnlyItsCommand ==
  \A p \in Ports : p \notin late /\ port[p].ci /\ ~drive[p].halted
                     => io.pc = "spin" /\ io.port = p

\* What the tables hold, and what the drive has fetched.
CommandBuilt ==
  /\ io.pc = "fis" => table[io.port].fis = NoFis
                      /\ table[io.port].prdt = BuildPrdt(io.buf, io.count)
  /\ io.pc \in {"issue", "spin"} => AsksIo(table[io.port])
  /\ io.pc = "spin" /\ io.port \notin late /\ drive[io.port].busy => AsksIo(drive[io.port])

\* The first n sectors of the call have been moved.
Moved(n) == \A s \in 0 .. n - 1 : /\ io.lba + s \in Sectors
                                   /\ mem[io.buf][s] = disk[io.port][io.lba + s]

MovedSoFar ==
  late = {} =>
    /\ io.pc = "spin" /\ drive[io.port].busy => Moved(drive[io.port].moved)
    /\ io.pc = "spin" /\ ~port[io.port].ci => Moved(Residue(io.count))
    /\ io.pc = "done" /\ io.ok => Moved(Residue(io.count))

AhciInv == AhciType /\ PortAndDrive /\ OnlyItsCommand /\ CommandBuilt /\ MovedSoFar

-----------------------------------------------------------------------------
(***************************************************************************)
(* The invariant of the storages.                                          *)
(***************************************************************************)
Scanning == {"header", "check", "log", "loop", "entry", "free"}

AtState == [pc : Booting \cup Halted \cup {"run"}, left : SUBSET AhciProbe, i : Nat,
            gpt : Buffers \ {UserPage}, parts : Buffers \ {UserPage}]

DevmanType ==
  /\ at \in AtState
  /\ header \in [AhciProbe -> HeaderPages]
  /\ at.pc \in Booting \ {"stop"} => at.left # {}
  /\ image \in [AhciProbe -> Images]
  /\ highest \in Nat /\ calls \in 0 .. MaxCalls
  /\ storages \in [slots : Seq(Storage), room : Nat]
  /\ Len(storages.slots) = highest
  /\ highest = 0 => storages = NoTable

\* The storages have the numbers from 0 on, in the order of their ports.
Numbered ==
  \A i \in 1 .. highest :
    /\ storages.slots[i].number = i - 1
    /\ storages.slots[i].port \in AhciProbe
    /\ i > 1 => storages.slots[i - 1].port < storages.slots[i].port

\* The last storage is the one that is scanned; the ports left come after.
LastStorage ==
  /\ at.pc \in {"stop", "configure", "add"} /\ highest > 0 =>
       \A p \in at.left : storages.slots[highest].port < p
  /\ at.pc \in Scanning => highest > 0 /\ storages.slots[highest].port = Port

\* The driver is called where the scan waits for it, and by the user.
Waiting ==
  /\ at.pc \notin {"check", "entry", "run"} => io.pc \in {"idle", "done"}
  /\ at.pc \in {"check", "entry"} => io.pc # "idle" /\ io.port = Port /\ ~io.write
  /\ at.pc = "check" => io.buf = at.gpt
  /\ at.pc = "entry" => io.buf = at.parts

DevmanInv == DevmanType /\ Numbered /\ LastStorage /\ Waiting

-----------------------------------------------------------------------------
(***************************************************************************)
(* The invariant of the scan.                                              *)
(***************************************************************************)

\* Nothing has been asked of the port yet.
Fresh(p) == p \notin late /\ ~port[p].ci /\ ~drive[p].busy /\ ~drive[p].halted

\* The header of the drive was written over, and no command that was given up
\* came from such a header.
LostAt(p) == p \in AhciProbe /\ header[p] = "lost"
NoStrays == \A p \in late : ~LostAt(p)

\* x reads, and x reads behind the header of the drive.
Reads(x) == x.fis.count = 0 \/ x.fis.cmd = "read"
Far(x) == x.fis.count = 0 \/ (x.fis.cmd = "read" /\ x.fis.lba >= 2)

\* No drive has been written.
DiskKept == disk = [p \in Ports |-> [s \in Sectors |-> s]]

\* The ports left are as the firmware left them.
Ahead == \A p \in at.left :
           p # Port \/ at.pc \in {"stop", "configure", "add", "header"} => Fresh(p)

\* All that a drive may do without being asked again is to read, and only the
\* drive that is asked for its header reads that, or one whose header is lost.
OnlyReads ==
  \A p \in Ports :
    /\ drive[p].busy => Reads(drive[p])
    /\ port[p].ci /\ ~drive[p].halted => Reads(table[p])
    /\ (at.pc # "check" \/ p # Port) /\ ~LostAt(p) =>
         /\ drive[p].busy => Far(drive[p])
         /\ port[p].ci /\ ~drive[p].halted => Far(table[p])

HeaderAsked ==
  at.pc = "check" => /\ Port \notin late \/ (io.pc = "done" /\ ~io.ok)
                     /\ io.pc = "done" /\ io.ok => Fresh(Port)

EntriesAsked ==
  at.pc = "entry" =>
    /\ io.count = PageSectors
    /\ Lost \/ (io.lba = image[Port].array + at.i \div PageSectors /\ at.i < image[Port].entries)

\* The page that gpt points to, the one of the entries, and what became of the
\* first, from the first entry on and before.
Entering == {"loop", "entry", "free"}

Places ==
  /\ at.pc \notin Entering => at.i = 0
  /\ \A p \in at.left : /\ at.gpt # OwnPage[p]
                        /\ p # Port \/ at.pc \notin Entering => header[p] = "unread"
  /\ at.pc \in Entering =>
       \/ header[Port] = "shared" /\ at.parts = at.gpt
       \/ header[Port] \in {"heap", "lost"} /\ at.parts = OwnPage[Port]

BootReads ==
  at.pc \in Booting => DiskKept /\ Ahead /\ OnlyReads /\ HeaderAsked /\ EntriesAsked /\ Places

\* What a read of the entries leaves in the header's place, if the header and
\* the entries have one page.
HeaderLost ==
  at.pc = "entry" /\ Port \notin late =>
    /\ header[Port] = "shared" /\ NoStrays =>
         /\ io.pc = "spin" /\ drive[Port].busy /\ drive[Port].moved >= 2 => ~HeaderKept
         /\ io.pc = "spin" /\ ~port[Port].ci => ~HeaderKept
         /\ io.pc = "done" => drive[Port].halted \/ ~HeaderKept
    /\ io.pc = "done" => drive[Port].halted \/ io.ok

\* And if they have not.
HeaderStays ==
  late = {} /\ (at.pc = "log" \/ (at.pc \in {"loop", "entry"} /\ header[Port] = "heap")) =>
    HeaderKept

\* The drives that were scanned, and have answered every time.
Behind == \A i \in 1 .. highest - 1 : storages.slots[i].port \notin at.left

Answered(p) == p \notin late /\ ~drive[p].halted

SharedNone ==
  NoStrays =>
    \A i \in 1 .. highest :
      LET s == storages.slots[i]
      IN  Answered(s.port) /\ header[s.port] \in {"unread", "shared"} => s.partitions = NoTable

\* Of the entries of the first page, the first n have been taken.
TableTold(s, n) ==
  \A id \in 0 .. PageSectors - 1 :
    id \in Registered(s) <=>
      id < n /\ id < image[s.port].entries /\ image[s.port].array + id \in image[s.port].used

Taken == IF at.pc = "free" THEN PageSectors ELSE at.i

HeapTold ==
  late = {} =>
    \A i \in 1 .. highest :
      LET s == storages.slots[i]
      IN  Answered(s.port) /\ header[s.port] = "heap" =>
            /\ s.port \notin at.left => TableTold(s, PageSectors)
            /\ i = highest /\ at.pc \in Entering => TableTold(s, Taken)

ScanInv == BootReads /\ HeaderLost /\ HeaderStays /\ Behind /\ SharedNone /\ HeapTold

-----------------------------------------------------------------------------
(***************************************************************************)
(* The PRDT.                                                               *)
(***************************************************************************)

\* What is left of count after the full entries is not nothing, and no more
\* than an entry.
LEMMA ResidueRange ==
  ASSUME NEW c \in Nat \ {0}
  PROVE  /\ PrdtLength(c) \in Nat \ {0} /\ Residue(c) \in 1 .. Unit /\ Residue(c) <= c
         /\ c <= Unit => PrdtLength(c) = 1 /\ Residue(c) = c
<1> DEFINE q == (c - 1) \div Unit
           r == (c - 1) % Unit
<1>1. Unit \in Nat /\ Unit > 0 /\ c - 1 \in Nat
  BY UnitAssumption
<1>2. c - 1 = Unit * q + r /\ q \in Nat /\ r \in 0 .. Unit - 1
  BY <1>1, DivMod
<1>3. PrdtLength(c) = q + 1
  BY DEF PrdtLength
<1>4. Residue(c) = c - Unit * ((q + 1) - 1)
  BY <1>3 DEF Residue
<1>5. c - 1 < Unit * 1 => q < 1
  BY <1>1, DivBound
<1> HIDE DEF q, r
<1>6. (q + 1) - 1 = q
  BY <1>2
<1>7. Unit * q \in Nat
  BY <1>1, <1>2
<1>8. Residue(c) = r + 1
  BY <1>1, <1>2, <1>4, <1>6, <1>7
<1>9. c <= Unit => q = 0
  BY <1>1, <1>2, <1>5
<1>10. q = 0 => Unit * q = 0
  BY <1>1
<1> QED BY <1>1, <1>2, <1>3, <1>7, <1>8, <1>9, <1>10

\* The table of a request describes its buffer without a gap.
LEMMA PrdtType ==
  ASSUME NEW c \in Nat \ {0}, NEW b \in Buffers
  PROVE  /\ BuildPrdt(b, c) \in Prdt
         /\ DOMAIN BuildPrdt(b, c) = 1 .. PrdtLength(c)
         /\ \A k \in 1 .. PrdtLength(c) :
              /\ BuildPrdt(b, c)[k].buf = b /\ BuildPrdt(b, c)[k].at = Unit * (k - 1)
              /\ BuildPrdt(b, c)[k].n = IF k < PrdtLength(c) THEN Unit ELSE Residue(c)
              /\ BuildPrdt(b, c)[k].n \in 1 .. Unit
<1> DEFINE n == PrdtLength(c)
           x == BuildPrdt(b, c)
           E == [buf : Buffers, at : Nat, n : Nat]
<1>1. n \in Nat \ {0} /\ Residue(c) \in 1 .. Unit /\ Unit \in Nat /\ Unit > 0
  BY ResidueRange, UnitAssumption
<1>2. ASSUME NEW k \in 1 .. n
      PROVE  Unit * (k - 1) \in Nat
  BY <1>1
<1>3. x = [k \in 1 .. n |-> [buf |-> b, at |-> Unit * (k - 1),
                            n |-> IF k < n THEN Unit ELSE Residue(c)]]
  BY DEF BuildPrdt
<1> HIDE DEF n, x
<1>4. x \in [1 .. n -> E]
  BY <1>1, <1>2, <1>3
<1> HIDE DEF E
<1>5. x \in Seq(E)
  BY <1>1, <1>4, SeqDef
<1>6. \A k \in 1 .. n : /\ x[k].buf = b /\ x[k].at = Unit * (k - 1)
                       /\ x[k].n = IF k < n THEN Unit ELSE Residue(c)
  BY <1>3
<1>7. \A k \in 1 .. n : x[k].n \in 1 .. Unit
  BY <1>1, <1>6
<1>8. x \in Prdt /\ DOMAIN x = 1 .. n
  BY <1>3, <1>5 DEF Prdt, E
<1> QED BY <1>6, <1>7, <1>8 DEF n, x

\* The sectors before an entry: none, or at least those of the first entry.
LEMMA BeforeEntry ==
  ASSUME NEW prdt \in Prdt, NEW k \in DOMAIN prdt
  PROVE  /\ k = 1 => Before(prdt, k) = 0
         /\ k > 1 => Before(prdt, k) \in Nat /\ Before(prdt, k) >= prdt[1].n
<1> DEFINE E == [buf : Buffers, at : Nat, n : Nat]
           F == [x \in (1 .. k - 1) \X Nat |-> x[2] + prdt[x[1]].n]
           Sum(g) == g = [n \in 0 .. k - 1 |-> IF n = 0 THEN 0 ELSE g[n - 1] + prdt[n].n]
           sum == CHOOSE g : Sum(g)
<1>1. /\ k \in Nat \ {0} /\ k - 1 \in Nat /\ prdt[1].n \in Nat
      /\ \A n \in 1 .. k - 1 : prdt[n].n \in Nat
  <2>1. prdt \in Seq(E)
    BY DEF Prdt
  <2> HIDE DEF E
  <2>2. \A n \in 1 .. Len(prdt) : prdt[n] \in E
    BY <2>1
  <2>3. \A n \in 1 .. Len(prdt) : prdt[n].n \in Nat
    BY <2>2 DEF E
  <2>4. k \in 1 .. Len(prdt) /\ 1 \in 1 .. Len(prdt) /\ \A n \in 1 .. k - 1 : n \in 1 .. Len(prdt)
    BY <2>1
  <2> QED BY <2>3, <2>4
<1>2. F \in [(1 .. k - 1) \X Nat -> Nat]
  BY <1>1
<1>3. \A n \in 1 .. k - 1, x \in Nat : F[<<n, x>>] = x + prdt[n].n
  OBVIOUS
<1> HIDE DEF F
<1>4. PICK g \in [0 .. k - 1 -> Nat] : g[0] = 0 /\ \A n \in 1 .. k - 1 : g[n] = F[<<n, g[n - 1]>>]
  <2>1. Iterates(k - 1, Nat, 0, F)
    BY <1>1, <1>2, Iteration
  <2> QED BY <2>1 DEF Iterates
<1>5. Sum(g)
  <2>1. ASSUME NEW n \in 0 .. k - 1
        PROVE  g[n] = IF n = 0 THEN 0 ELSE g[n - 1] + prdt[n].n
    <3>1. n # 0 => n \in 1 .. k - 1 /\ n - 1 \in 0 .. k - 1
      BY <1>1
    <3> QED BY <1>3, <1>4, <3>1
  <2> QED BY <1>4, <2>1
<1>6. Sum(sum)
  BY <1>5
<1>7. Before(prdt, k) = sum[k - 1]
  BY DEF Before
<1> HIDE DEF sum
<1>8. sum[0] = 0
  BY <1>1, <1>6
<1>9. \A n \in 1 .. k - 1 : sum[n] = sum[n - 1] + prdt[n].n
  <2> SUFFICES ASSUME NEW n \in 1 .. k - 1 PROVE sum[n] = sum[n - 1] + prdt[n].n
    OBVIOUS
  <2>1. n \in 0 .. k - 1 /\ n # 0
    BY <1>1
  <2> QED BY <1>6, <2>1
<1> HIDE DEF Sum
<1>10. CASE k > 1
  <2> DEFINE T == {n \in 0 .. k - 2 : sum[n + 1] \in Nat /\ sum[n + 1] >= prdt[1].n}
  <2>1. 0 \in T
    <3>1. 1 \in 1 .. k - 1 /\ 1 - 1 = 0 /\ 0 \in 0 .. k - 2
      BY <1>1, <1>10
    <3> QED BY <1>1, <1>8, <1>9, <3>1
  <2>2. ASSUME NEW n \in 0 .. (k - 2) - 1, n \in T
        PROVE  n + 1 \in T
    <3>1. n + 2 \in 1 .. k - 1 /\ (n + 2) - 1 = n + 1 /\ n + 1 \in 0 .. k - 2 /\ (n + 1) + 1 = n + 2
      BY <1>1, <1>10
    <3>2. sum[n + 2] = sum[(n + 2) - 1] + prdt[n + 2].n /\ prdt[n + 2].n \in Nat
      BY <1>1, <1>9, <3>1
    <3>3. sum[n + 1] \in Nat /\ sum[n + 1] >= prdt[1].n
      BY <2>2
    <3> DEFINE a == sum[n + 1]
               d == prdt[n + 2].n
    <3>4. sum[(n + 1) + 1] = a + d /\ a \in Nat /\ d \in Nat /\ a >= prdt[1].n
      BY <3>1, <3>2, <3>3
    <3> HIDE DEF a, d
    <3>5. a + d \in Nat /\ a + d >= prdt[1].n
      BY <1>1, <3>4
    <3> QED BY <3>1, <3>4, <3>5
  <2>3. k - 2 \in Nat /\ k - 2 \in 0 .. k - 2 /\ (k - 2) + 1 = k - 1
    BY <1>1, <1>10
  <2> HIDE DEF T
  <2>4. k - 2 \in T
    BY <2>1, <2>2, <2>3, InductionTo
  <2> QED BY <1>7, <1>10, <2>3, <2>4 DEF T
<1> QED BY <1>1, <1>7, <1>8, <1>10

\* The command asks for no more than the first entry holds: its sectors go to
\* the first of the buffer, one by one.
LEMMA FirstEntry ==
  ASSUME NEW c \in Nat \ {0}, NEW b \in Buffers, NEW s \in Nat, s < Residue(c),
         NEW prdt, prdt = BuildPrdt(b, c), NEW k \in DOMAIN prdt
  PROVE  Covers(prdt, k, s) => k = 1 /\ prdt[k].buf = b /\ prdt[k].at + s - Before(prdt, k) = s
<1> SUFFICES ASSUME Covers(prdt, k, s)
             PROVE  k = 1 /\ prdt[k].buf = b /\ prdt[k].at + s - Before(prdt, k) = s
  OBVIOUS
<1>1. /\ prdt \in Prdt /\ DOMAIN prdt = 1 .. PrdtLength(c) /\ PrdtLength(c) \in Nat
      /\ Residue(c) \in 1 .. Unit /\ Unit \in Nat /\ Unit > 0
      /\ \A j \in DOMAIN prdt : /\ prdt[j].buf = b /\ prdt[j].at = Unit * (j - 1)
                               /\ prdt[j].n = IF j < PrdtLength(c) THEN Unit ELSE Residue(c)
  <2>1. PrdtLength(c) \in Nat /\ Residue(c) \in 1 .. Unit /\ Unit \in Nat /\ Unit > 0
    BY ResidueRange, UnitAssumption
  <2> QED BY <2>1, PrdtType
<1>2. k = 1
  <2> SUFFICES ASSUME k > 1 PROVE FALSE
    BY <1>1
  <2>1. prdt[1].n = Unit
    BY <1>1
  <2>2. Before(prdt, k) \in Nat /\ Before(prdt, k) >= Unit
    BY <1>1, <2>1, BeforeEntry
  <2> QED BY <1>1, <2>2 DEF Covers
<1>3. Before(prdt, k) = 0
  BY <1>1, <1>2, BeforeEntry
<1>4. Unit * (k - 1) = 0
  BY <1>1, <1>2
<1> QED BY <1>1, <1>2, <1>3, <1>4

\* The first entry does hold them.
LEMMA FirstCovers ==
  ASSUME NEW c \in Nat \ {0}, NEW b \in Buffers, NEW s \in Nat, s < Residue(c),
         NEW prdt, prdt = BuildPrdt(b, c)
  PROVE  1 \in DOMAIN prdt /\ Covers(prdt, 1, s)
<1>1. /\ prdt \in Prdt /\ DOMAIN prdt = 1 .. PrdtLength(c) /\ PrdtLength(c) \in Nat \ {0}
      /\ Residue(c) \in 1 .. Unit /\ Unit \in Nat
      /\ prdt[1].n = IF 1 < PrdtLength(c) THEN Unit ELSE Residue(c)
  <2>1. PrdtLength(c) \in Nat \ {0} /\ Residue(c) \in 1 .. Unit /\ Unit \in Nat
    BY ResidueRange, UnitAssumption
  <2>2. 1 \in 1 .. PrdtLength(c)
    BY <2>1
  <2> QED BY <2>1, <2>2, PrdtType
<1>2. 1 \in DOMAIN prdt /\ Before(prdt, 1) = 0
  BY <1>1, BeforeEntry
<1> QED BY <1>1, <1>2 DEF Covers

-----------------------------------------------------------------------------
(***************************************************************************)
(* The steps of the driver and of the drives.                              *)
(***************************************************************************)

\* Going on in a call changes nothing of it but where it is.
LEMMA IoGoesOn ==
  ASSUME io \in IoState, NEW pc \in Loading \cup {"corrupt"}, IoTo(pc)
  PROVE  /\ io' \in IoState /\ io'.pc = pc
         /\ io'.port = io.port /\ io'.lba = io.lba /\ io'.count = io.count
         /\ io'.buf = io.buf /\ io'.write = io.write /\ io'.ok = io.ok
BY DEF IoTo, IoState

\* The driver returns, and the request stays what it was.
LEMMA IoReturns ==
  ASSUME io \in IoState, NEW ok \in BOOLEAN, Return(ok)
  PROVE  /\ io' \in IoState /\ io'.pc = "done" /\ io'.ok = ok
         /\ io'.port = io.port /\ io'.lba = io.lba /\ io'.count = io.count
         /\ io'.buf = io.buf /\ io'.write = io.write
BY DEF Return, IoState

\* A new command clears what the port has said.
LEMMA ClearInterruptsInv ==
  ASSUME AhciInv, ClearInterrupts
  PROVE  AhciInv'
<1> DEFINE p == io.port
<1>1. AhciType /\ PortAndDrive /\ OnlyItsCommand /\ CommandBuilt /\ MovedSoFar
  BY DEF AhciInv
<1>2. /\ io.pc = "clear" /\ port' = [port EXCEPT ![p].tfes = FALSE] /\ IoTo("wait")
      /\ UNCHANGED <<table, drive, mem, disk, late>>
  BY DEF ClearInterrupts
<1>3. /\ io' \in IoState /\ io'.pc = "wait" /\ io'.port = p /\ io'.count = io.count
      /\ io'.buf = io.buf
  BY <1>1, <1>2, IoGoesOn DEF AhciType, Loading
<1>4. p \in Ports
  BY <1>1, <1>2 DEF AhciType, Loading
<1>5. AhciType'
  BY ZenonT(60), <1>1, <1>2, <1>3, <1>4 DEF AhciType, AhciHbaPort, Loading
<1>6. \A q \in Ports : /\ port'[q].ci = port[q].ci /\ port'[q].bsy = port[q].bsy
                       /\ port'[q].tfes => port[q].tfes
  BY <1>1, <1>2, <1>4 DEF AhciType, AhciHbaPort
<1>7. PortAndDrive'
  BY <1>1, <1>2, <1>6 DEF PortAndDrive, Within
<1>8. OnlyItsCommand'
  BY <1>1, <1>2, <1>3, <1>6 DEF OnlyItsCommand
<1>9. CommandBuilt' /\ MovedSoFar'
  BY <1>3 DEF CommandBuilt, MovedSoFar
<1> QED BY <1>5, <1>7, <1>8, <1>9 DEF AhciInv

\* The wait for the port ends, well or not.
LEMMA WaitReadyInv ==
  ASSUME AhciInv, WaitReady
  PROVE  AhciInv'
<1>1. AhciType /\ PortAndDrive /\ OnlyItsCommand /\ CommandBuilt /\ MovedSoFar
  BY DEF AhciInv
<1>2. /\ io.pc = "wait" /\ (IoTo("table") \/ Return(FALSE))
      /\ UNCHANGED <<port, table, drive, mem, disk, late>>
  BY DEF WaitReady
<1>3. /\ io' \in IoState /\ io'.port = io.port /\ io'.count = io.count /\ io'.buf = io.buf
      /\ io'.pc = "table" \/ (io'.pc = "done" /\ ~io'.ok)
  BY <1>1, <1>2, IoGoesOn, IoReturns DEF AhciType, Loading
<1>4. AhciType'
  BY <1>1, <1>2, <1>3 DEF AhciType, Loading
<1>5. PortAndDrive'
  BY <1>1, <1>2 DEF PortAndDrive, Within
<1>6. OnlyItsCommand'
  BY <1>1, <1>2, <1>3 DEF OnlyItsCommand
<1>7. CommandBuilt' /\ MovedSoFar'
  BY <1>3 DEF CommandBuilt, MovedSoFar
<1> QED BY <1>4, <1>5, <1>6, <1>7 DEF AhciInv

\* The PRDT of the call is put into the table of its port.
LEMMA FillTableInv ==
  ASSUME AhciInv, FillTable
  PROVE  AhciInv'
<1> DEFINE p == io.port
           t == table[p]
           x == [whole |-> t.whole, prdt |-> BuildPrdt(io.buf, io.count), fis |-> NoFis]
<1>1. AhciType /\ PortAndDrive /\ OnlyItsCommand /\ CommandBuilt /\ MovedSoFar
  BY DEF AhciInv
<1>2. /\ io.pc = "table" /\ IoTo("fis") /\ UNCHANGED <<port, drive, mem, disk, late>>
      /\ table' = [table EXCEPT ![p].prdt = BuildPrdt(io.buf, io.count), ![p].fis = NoFis]
  BY DEF FillTable
<1>3. /\ io' \in IoState /\ io'.pc = "fis" /\ io'.port = p /\ io'.count = io.count
      /\ io'.buf = io.buf
  BY <1>1, <1>2, IoGoesOn DEF AhciType, Loading
<1>4. p \in Ports /\ io.count \in Sizes /\ io.buf \in Buffers /\ io.count \in Nat \ {0}
  BY <1>1, <1>2, SlotsAssumption DEF AhciType, Loading, Sizes
<1>5. t \in Transfer /\ t.whole \in BOOLEAN
  BY <1>1, <1>4 DEF AhciType, Transfer
<1>6. x \in Transfer /\ x.fis = NoFis /\ x.fis.count = 0
  BY <1>4, <1>5, PrdtType DEF Transfer, NoFis, Fis
<1>7. table' = [table EXCEPT ![p] = x]
  <2> DEFINE y == [[t EXCEPT !.prdt = BuildPrdt(io.buf, io.count)] EXCEPT !.fis = NoFis]
  <2>1. table' = [table EXCEPT ![p] = y]
    BY <1>1, <1>2 DEF AhciType
  <2>2. y = x
    <3> DEFINE r == BuildPrdt(io.buf, io.count)
    <3> HIDE DEF t, r
    <3>1. t = [whole |-> t.whole, prdt |-> t.prdt, fis |-> t.fis]
      BY <1>5 DEF Transfer
    <3> DEFINE v == [t EXCEPT !.prdt = r]
    <3>2. v = [whole |-> t.whole, prdt |-> r, fis |-> t.fis]
      BY <3>1
    <3> HIDE DEF v
    <3>3. [v EXCEPT !.fis = NoFis] = [whole |-> t.whole, prdt |-> r, fis |-> NoFis]
      BY <3>2
    <3> QED BY <3>3 DEF r, v
  <2> QED BY <2>1, <2>2
<1> HIDE DEF x, t
<1>8. AhciType'
  BY <1>1, <1>2, <1>3, <1>4, <1>6, <1>7 DEF AhciType, Loading
<1>9. \A q \in Ports : table'[q] = IF q = p THEN x ELSE table[q]
  BY <1>1, <1>7 DEF AhciType
<1>10. PortAndDrive'
  <2>1. \A q \in Ports : Within(table'[q])
    BY <1>1, <1>6, <1>9 DEF PortAndDrive, Within
  <2> QED BY <1>1, <1>2, <2>1 DEF PortAndDrive, Within
<1>11. OnlyItsCommand'
  BY <1>1, <1>2, <1>3 DEF OnlyItsCommand
<1>12. CommandBuilt' /\ MovedSoFar'
  BY <1>3, <1>4, <1>6, <1>9 DEF CommandBuilt, MovedSoFar, x
<1> QED BY <1>8, <1>10, <1>11, <1>12 DEF AhciInv

\* A table that is somewhere else ends the call.
LEMMA FillForeignInv ==
  ASSUME AhciInv, FillForeign
  PROVE  /\ AhciInv' /\ io'.pc = "corrupt"
         /\ io'.port = io.port /\ io'.lba = io.lba /\ io'.count = io.count
         /\ io'.buf = io.buf /\ io'.write = io.write
<1>1. AhciType /\ PortAndDrive /\ OnlyItsCommand
  BY DEF AhciInv
<1>2. /\ io.pc = "table" /\ IoTo("corrupt")
      /\ UNCHANGED <<port, table, drive, mem, disk, late>>
  BY DEF FillForeign
<1>3. /\ io' \in IoState /\ io'.pc = "corrupt" /\ io'.port = io.port /\ io'.lba = io.lba
      /\ io'.count = io.count /\ io'.buf = io.buf /\ io'.write = io.write
  BY <1>1, <1>2 DEF AhciType, IoTo, IoState
<1>4. AhciType'
  BY <1>1, <1>2, <1>3 DEF AhciType, Loading
<1>5. PortAndDrive' /\ OnlyItsCommand'
  BY <1>1, <1>2, <1>3 DEF PortAndDrive, OnlyItsCommand, Within
<1>6. CommandBuilt' /\ MovedSoFar'
  BY <1>3 DEF CommandBuilt, MovedSoFar
<1> QED BY <1>3, <1>4, <1>5, <1>6 DEF AhciInv

\* The command is put into the table.
LEMMA FillFisInv ==
  ASSUME AhciInv, FillFis
  PROVE  AhciInv'
<1> DEFINE p == io.port
           f == [cmd |-> IF io.write THEN "write" ELSE "read",
                 lba |-> io.lba, count |-> Residue(io.count)]
<1>1. AhciType /\ PortAndDrive /\ OnlyItsCommand /\ CommandBuilt /\ MovedSoFar
  BY DEF AhciInv
<1>2. /\ io.pc = "fis" /\ table' = [table EXCEPT ![p].fis = f] /\ IoTo("issue")
      /\ UNCHANGED <<port, drive, mem, disk, late>>
  BY DEF FillFis
<1>3. /\ io' \in IoState /\ io'.pc = "issue" /\ io'.port = p /\ io'.count = io.count
      /\ io'.buf = io.buf /\ io'.lba = io.lba /\ io'.write = io.write
  BY <1>1, <1>2, IoGoesOn DEF AhciType, Loading
<1>4. /\ p \in Ports /\ io.count \in Sizes /\ io.buf \in Buffers /\ io.count \in Nat \ {0}
      /\ io.lba \in Nat /\ io.write \in BOOLEAN
  BY <1>1, <1>2, SlotsAssumption DEF AhciType, Loading, Sizes, IoState
<1>5. f \in Fis /\ f.count = Residue(io.count)
  BY <1>4, ResidueRange, UnitAssumption DEF Fis
<1>6. f = [cmd |-> IF io'.write THEN "write" ELSE "read",
           lba |-> io'.lba, count |-> Residue(io'.count)]
  BY <1>3
<1> HIDE DEF f
<1>7. /\ table' \in [Ports -> Transfer] /\ table'[p].fis = f /\ table'[p].prdt = table[p].prdt
      /\ \A q \in Ports \ {p} : table'[q] = table[q]
  BY <1>1, <1>2, <1>4, <1>5 DEF AhciType, Transfer
<1>8. table[p].prdt = BuildPrdt(io.buf, io.count)
  BY <1>1, <1>2 DEF CommandBuilt
<1>9. AhciType'
  BY <1>1, <1>2, <1>3, <1>4, <1>7 DEF AhciType, Loading
<1>10. Within(table'[p])
  BY <1>4, <1>5, <1>7, <1>8 DEF Within
<1>11. PortAndDrive'
  BY <1>1, <1>2, <1>7, <1>10 DEF PortAndDrive, Within
<1>12. OnlyItsCommand'
  BY <1>1, <1>2, <1>3 DEF OnlyItsCommand
<1>13. CommandBuilt' /\ MovedSoFar'
  BY <1>3, <1>6, <1>7, <1>8 DEF CommandBuilt, MovedSoFar, AsksIo
<1> QED BY <1>9, <1>11, <1>12, <1>13 DEF AhciInv

\* The port is told.
LEMMA IssueInv ==
  ASSUME AhciInv, Issue
  PROVE  AhciInv'
<1> DEFINE p == io.port
<1>1. AhciType /\ PortAndDrive /\ OnlyItsCommand /\ CommandBuilt /\ MovedSoFar
  BY DEF AhciInv
<1>2. /\ io.pc = "issue" /\ port' = [port EXCEPT ![p].ci = TRUE] /\ IoTo("spin")
      /\ UNCHANGED <<table, drive, mem, disk, late>>
  BY DEF Issue
<1>3. /\ io' \in IoState /\ io'.pc = "spin" /\ io'.port = p /\ io'.count = io.count
      /\ io'.buf = io.buf /\ io'.lba = io.lba /\ io'.write = io.write
  BY <1>1, <1>2, IoGoesOn DEF AhciType, Loading
<1>4. p \in Ports
  BY <1>1, <1>2 DEF AhciType, Loading
<1>5. AhciType'
  BY ZenonT(60), <1>1, <1>2, <1>3, <1>4 DEF AhciType, AhciHbaPort, Loading
<1>6. /\ port'[p].ci
      /\ \A q \in Ports : /\ q # p => port'[q].ci = port[q].ci
                          /\ port'[q].bsy = port[q].bsy /\ port'[q].tfes = port[q].tfes
  BY <1>1, <1>2, <1>4 DEF AhciType, AhciHbaPort
<1>7. PortAndDrive'
  BY <1>1, <1>2, <1>4, <1>6 DEF PortAndDrive, Within
<1>8. OnlyItsCommand'
  BY <1>1, <1>2, <1>3, <1>6 DEF OnlyItsCommand
<1>9. AsksIo(table[p]) /\ (p \notin late => ~drive[p].busy)
  BY <1>1, <1>2, <1>4 DEF CommandBuilt, OnlyItsCommand, PortAndDrive
<1>10. CommandBuilt'
  BY <1>2, <1>3, <1>9 DEF CommandBuilt, AsksIo
<1>11. MovedSoFar'
  BY <1>2, <1>3, <1>4, <1>6, <1>9 DEF MovedSoFar
<1> QED BY <1>5, <1>7, <1>8, <1>10, <1>11 DEF AhciInv

\* The driver returns, or gives the command up.
LEMMA SpinInv ==
  ASSUME AhciInv, Spin
  PROVE  AhciInv'
<1> DEFINE p == io.port
<1>1. AhciType /\ PortAndDrive /\ OnlyItsCommand /\ CommandBuilt /\ MovedSoFar
  BY DEF AhciInv
<1>2. io.pc = "spin" /\ UNCHANGED <<port, table, drive, mem, disk>> /\ p \in Ports
  BY <1>1 DEF Spin, AhciType, Loading
<1>3. port[p].ci \in BOOLEAN /\ port[p].tfes \in BOOLEAN
  BY <1>1, <1>2 DEF AhciType, AhciHbaPort
<1>4. \/ /\ ~port[p].ci \/ port[p].tfes
         /\ Return(~port[p].ci /\ ~port[p].tfes) /\ late' = late
      \/ /\ port[p].ci /\ ~port[p].tfes
         /\ Return(FALSE) /\ late' = late \cup {p}
  BY DEF Spin
<1>5. /\ io' \in IoState /\ io'.pc = "done" /\ io'.port = p /\ io'.count = io.count
      /\ io'.buf = io.buf /\ io'.lba = io.lba
      /\ io'.ok => ~port[p].ci /\ late' = late
  <2>1. CASE Return(~port[p].ci /\ ~port[p].tfes) /\ late' = late
    <3>1. (~port[p].ci /\ ~port[p].tfes) \in BOOLEAN
      OBVIOUS
    <3> QED BY <1>1, <2>1, <3>1, IoReturns DEF AhciType
  <2>2. CASE Return(FALSE)
    BY <1>1, <2>2, IoReturns DEF AhciType
  <2> QED BY <1>4, <2>1, <2>2
<1>6. AhciType'
  BY <1>1, <1>2, <1>4, <1>5 DEF AhciType, Loading
<1>7. PortAndDrive'
  BY <1>1, <1>2 DEF PortAndDrive, Within
<1>8. late \subseteq late' /\ (p \notin late' => ~port[p].ci \/ port[p].tfes)
  BY <1>4
<1>9. OnlyItsCommand'
  BY <1>1, <1>2, <1>8 DEF OnlyItsCommand, PortAndDrive
<1>10. CommandBuilt'
  BY <1>5 DEF CommandBuilt
<1>11. MovedSoFar'
  BY <1>1, <1>2, <1>5 DEF MovedSoFar, Moved
<1> QED BY <1>6, <1>7, <1>9, <1>10, <1>11 DEF AhciInv

\* The port follows the command register.
LEMMA FollowInv ==
  ASSUME AhciInv, NEW p \in Ports, Follow(p)
  PROVE  AhciInv'
<1>1. AhciType /\ PortAndDrive /\ OnlyItsCommand /\ CommandBuilt /\ MovedSoFar
  BY DEF AhciInv
<1>2. /\ port' = [port EXCEPT ![p].cr = port[p].st, ![p].fr = port[p].fre]
      /\ UNCHANGED <<table, drive, io, mem, disk, late>>
  BY DEF Follow
<1>3. port[p].st \in BOOLEAN /\ port[p].fre \in BOOLEAN
  BY <1>1 DEF AhciType, AhciHbaPort
<1>4. port' \in [Ports -> AhciHbaPort]
  <2> DEFINE h == [[port[p] EXCEPT !.cr = port[p].st] EXCEPT !.fr = port[p].fre]
  <2>1. port[p] \in AhciHbaPort
    BY <1>1 DEF AhciType
  <2>2. h \in AhciHbaPort
    BY <1>3, <2>1 DEF AhciHbaPort
  <2>3. port' = [port EXCEPT ![p] = h]
    BY <1>1, <1>2 DEF AhciType
  <2> HIDE DEF h
  <2> QED BY <1>1, <2>2, <2>3 DEF AhciType
<1>5. \A q \in Ports : /\ port'[q].ci = port[q].ci /\ port'[q].bsy = port[q].bsy
                       /\ port'[q].tfes = port[q].tfes
  BY <1>1, <1>2 DEF AhciType, AhciHbaPort
<1>6. AhciType'
  BY <1>1, <1>2, <1>4 DEF AhciType
<1>7. PortAndDrive'
  BY ZenonT(60), <1>1, <1>2, <1>5 DEF PortAndDrive, Within
<1>8. OnlyItsCommand'
  BY <1>1, <1>2, <1>5 DEF OnlyItsCommand
<1>9. CommandBuilt'
  BY <1>1, <1>2 DEF CommandBuilt, AsksIo
<1>10. MovedSoFar'
  BY <1>1, <1>2, <1>5 DEF MovedSoFar, Moved, AhciType, Loading
<1> QED BY <1>6, <1>7, <1>8, <1>9, <1>10 DEF AhciInv

\* The drive takes the command that is in the table.
LEMMA FetchInv ==
  ASSUME AhciInv, NEW p \in Ports, Fetch(p)
  PROVE  AhciInv'
<1> DEFINE d == [busy |-> TRUE, halted |-> FALSE, fis |-> table[p].fis,
                 prdt |-> table[p].prdt, moved |-> 0]
<1>1. AhciType /\ PortAndDrive /\ OnlyItsCommand /\ CommandBuilt /\ MovedSoFar
  BY DEF AhciInv
<1>2. /\ port[p].cr /\ port[p].ci /\ ~drive[p].busy /\ ~drive[p].halted
      /\ drive' = [drive EXCEPT ![p] = d] /\ port' = [port EXCEPT ![p].bsy = TRUE]
      /\ UNCHANGED <<table, io, mem, disk, late>>
  BY DEF Fetch
<1>3. table[p] \in Transfer /\ table[p].fis \in Fis /\ table[p].prdt \in Prdt
  BY <1>1 DEF AhciType, Transfer
<1>4. /\ d \in DriveState /\ d.busy /\ ~d.halted /\ d.moved = 0
      /\ d.fis = table[p].fis /\ d.prdt = table[p].prdt
  BY <1>3 DEF DriveState
<1> HIDE DEF d
<1>5. drive' \in [Ports -> DriveState] /\ drive'[p] = d /\ \A q \in Ports \ {p} : drive'[q] = drive[q]
  BY <1>1, <1>2, <1>4 DEF AhciType
<1>6. /\ port' \in [Ports -> AhciHbaPort] /\ port'[p].bsy
      /\ \A q \in Ports : /\ port'[q].ci = port[q].ci /\ port'[q].tfes = port[q].tfes
                          /\ q # p => port'[q].bsy = port[q].bsy
  BY <1>1, <1>2 DEF AhciType, AhciHbaPort
<1>7. AhciType'
  BY <1>1, <1>2, <1>5, <1>6 DEF AhciType
<1>8. Within(d) /\ d.moved <= d.fis.count
  BY <1>1, <1>3, <1>4 DEF PortAndDrive, Within, Fis
<1>9. PortAndDrive'
  BY <1>1, <1>2, <1>4, <1>5, <1>6, <1>8 DEF PortAndDrive, Within
<1>10. OnlyItsCommand'
  BY <1>1, <1>2, <1>5, <1>6 DEF OnlyItsCommand
<1>11. CommandBuilt'
  BY <1>1, <1>2, <1>4, <1>5 DEF CommandBuilt, AsksIo
<1>12. MovedSoFar'
  <2> SUFFICES ASSUME late = {} PROVE MovedSoFar'
    BY <1>2 DEF MovedSoFar
  <2>1. io.pc = "spin" /\ io.port = p
    BY <1>1, <1>2 DEF OnlyItsCommand
  <2>2. io'.pc = "spin" /\ io'.port = p /\ drive'[p].moved = 0 /\ port'[p].ci
    BY <1>2, <1>4, <1>5, <1>6, <2>1
  <2> QED BY <2>2 DEF MovedSoFar, Moved
<1> QED BY <1>7, <1>9, <1>10, <1>11, <1>12 DEF AhciInv

\* The drive has moved all, and answers.
LEMMA FinishInv ==
  ASSUME AhciInv, NEW p \in Ports, Finish(p)
  PROVE  AhciInv'
<1>1. AhciType /\ PortAndDrive /\ OnlyItsCommand /\ CommandBuilt /\ MovedSoFar
  BY DEF AhciInv
<1>2. /\ drive[p].busy /\ drive[p].moved = drive[p].fis.count
      /\ drive' = [drive EXCEPT ![p] = Resting]
      /\ port' = [port EXCEPT ![p].ci = FALSE, ![p].bsy = FALSE]
      /\ UNCHANGED <<table, io, mem, disk, late>>
  BY DEF Finish
<1>3. /\ Resting \in DriveState /\ ~Resting.busy /\ ~Resting.halted /\ Resting.moved = 0
      /\ Resting.fis.count = 0
  BY DEF Resting, DriveState, NoFis, Fis, Prdt
<1>4. drive' \in [Ports -> DriveState] /\ drive'[p] = Resting
      /\ \A q \in Ports \ {p} : drive'[q] = drive[q]
  BY <1>1, <1>2, <1>3 DEF AhciType
<1>5. /\ port' \in [Ports -> AhciHbaPort] /\ ~port'[p].bsy /\ ~port'[p].ci
      /\ \A q \in Ports : /\ port'[q].tfes = port[q].tfes
                          /\ q # p => port'[q].bsy = port[q].bsy /\ port'[q].ci = port[q].ci
  <2> DEFINE h == [[port[p] EXCEPT !.ci = FALSE] EXCEPT !.bsy = FALSE]
  <2>1. port[p] \in AhciHbaPort
    BY <1>1 DEF AhciType
  <2>2. h \in AhciHbaPort /\ ~h.bsy /\ ~h.ci /\ h.tfes = port[p].tfes
    BY <2>1 DEF AhciHbaPort
  <2>3. port' = [port EXCEPT ![p] = h]
    BY <1>1, <1>2 DEF AhciType
  <2> HIDE DEF h
  <2> QED BY <1>1, <2>2, <2>3 DEF AhciType
<1>6. AhciType'
  BY <1>1, <1>2, <1>4, <1>5 DEF AhciType
<1>7. PortAndDrive'
  BY <1>1, <1>2, <1>3, <1>4, <1>5 DEF PortAndDrive, Within
<1>8. OnlyItsCommand'
  BY <1>1, <1>2, <1>4, <1>5 DEF OnlyItsCommand
<1>9. CommandBuilt'
  BY <1>1, <1>2, <1>3, <1>4 DEF CommandBuilt, AsksIo, AhciType, Loading
<1>10. MovedSoFar'
  <2> SUFFICES ASSUME late = {} PROVE MovedSoFar'
    BY <1>2 DEF MovedSoFar
  <2>1. io.pc = "spin" /\ io.port = p
    BY <1>1, <1>2 DEF OnlyItsCommand, PortAndDrive
  <2>2. drive[p].fis.count = Residue(io.count)
    BY <1>1, <1>2, <2>1 DEF CommandBuilt, AsksIo
  <2>3. Moved(Residue(io.count))
    BY <1>1, <1>2, <2>1, <2>2 DEF MovedSoFar
  <2> QED BY <1>2, <1>3, <1>4, <2>1, <2>3 DEF MovedSoFar, Moved
<1> QED BY <1>6, <1>7, <1>8, <1>9, <1>10 DEF AhciInv

\* The drive has failed, and takes no more commands.
LEMMA FailInv ==
  ASSUME AhciInv, NEW p \in Ports, Fail(p)
  PROVE  AhciInv'
<1> DEFINE d == [Resting EXCEPT !.halted = TRUE]
<1>1. AhciType /\ PortAndDrive /\ OnlyItsCommand /\ CommandBuilt /\ MovedSoFar
  BY DEF AhciInv
<1>2. /\ drive[p].busy /\ drive' = [drive EXCEPT ![p] = d]
      /\ port' = [port EXCEPT ![p].tfes = TRUE, ![p].bsy = FALSE]
      /\ UNCHANGED <<table, io, mem, disk, late>>
  BY DEF Fail
<1>3. d \in DriveState /\ ~d.busy /\ d.halted /\ d.moved = 0 /\ d.fis.count = 0
  <2>1. Resting \in DriveState /\ ~Resting.busy /\ Resting.moved = 0 /\ Resting.fis.count = 0
    BY DEF Resting, DriveState, NoFis, Fis, Prdt
  <2> QED BY <2>1 DEF DriveState
<1> HIDE DEF d
<1>4. drive' \in [Ports -> DriveState] /\ drive'[p] = d
      /\ \A q \in Ports \ {p} : drive'[q] = drive[q]
  BY <1>1, <1>2, <1>3 DEF AhciType
<1>5. /\ port' \in [Ports -> AhciHbaPort] /\ ~port'[p].bsy
      /\ \A q \in Ports : /\ port'[q].ci = port[q].ci
                          /\ q # p => port'[q].bsy = port[q].bsy /\ port'[q].tfes = port[q].tfes
  <2> DEFINE h == [[port[p] EXCEPT !.tfes = TRUE] EXCEPT !.bsy = FALSE]
  <2>1. port[p] \in AhciHbaPort
    BY <1>1 DEF AhciType
  <2>2. h \in AhciHbaPort /\ ~h.bsy /\ h.ci = port[p].ci
    BY <2>1 DEF AhciHbaPort
  <2>3. port' = [port EXCEPT ![p] = h]
    BY <1>1, <1>2 DEF AhciType
  <2> HIDE DEF h
  <2> QED BY <1>1, <2>2, <2>3 DEF AhciType
<1>6. AhciType'
  BY <1>1, <1>2, <1>4, <1>5 DEF AhciType
<1>7. PortAndDrive'
  BY <1>1, <1>2, <1>3, <1>4, <1>5 DEF PortAndDrive, Within
<1>8. OnlyItsCommand'
  BY <1>1, <1>2, <1>3, <1>4, <1>5 DEF OnlyItsCommand
<1>9. CommandBuilt'
  BY <1>1, <1>2, <1>3, <1>4 DEF CommandBuilt, AsksIo, AhciType, Loading
<1>10. MovedSoFar'
  BY <1>1, <1>2, <1>3, <1>4, <1>5 DEF MovedSoFar, Moved, AhciType, Loading
<1> QED BY <1>6, <1>7, <1>8, <1>9, <1>10 DEF AhciInv

\* The drive at p moves sector s of its command, from or to the same sector of
\* buffer b.
MovesOne(p, b, s) ==
  LET lba == drive[p].fis.lba + s
  IN  /\ b \in Buffers /\ s \in Slots /\ lba \in Sectors
      /\ s = drive[p].moved /\ drive[p].busy /\ s < drive[p].fis.count
      /\ \E c \in Sizes : drive[p].prdt = BuildPrdt(b, c)
      /\ drive' = [drive EXCEPT ![p].moved = s + 1]
      /\ IF drive[p].fis.cmd = "read"
           THEN mem' = [mem EXCEPT ![b][s] = disk[p][lba]] /\ disk' = disk
           ELSE disk' = [disk EXCEPT ![p][lba] = mem[b][s]] /\ mem' = mem
      /\ UNCHANGED <<port, table, io, late>>

\* The drive moves one sector of the request, of one buffer.
LEMMA MoveIsOne ==
  ASSUME AhciInv, NEW p \in Ports, Move(p)
  PROVE  \E b \in Buffers : MovesOne(p, b, drive[p].moved)
<1> DEFINE d == drive[p]
           s == drive[p].moved
           lba == d.fis.lba + s
<1>1. AhciType /\ PortAndDrive
  BY DEF AhciInv
<1>2. s \in Nat /\ d.fis.count \in Nat
  BY <1>1 DEF AhciType, DriveState, Fis
<1>3. /\ d.busy /\ s < d.fis.count /\ lba \in Sectors
      /\ drive' = [drive EXCEPT ![p].moved = s + 1] /\ UNCHANGED <<port, table, io, late>>
  BY <1>1 DEF Move, AhciType
<1>4. PICK c \in Sizes, b \in Buffers : d.fis.count = Residue(c) /\ d.prdt = BuildPrdt(b, c)
  BY <1>1, <1>2, <1>3 DEF PortAndDrive, Within
<1>5. c \in Nat \ {0} /\ s < Residue(c) /\ Residue(c) \in Nat /\ Residue(c) <= c
      /\ Max(Slots) \in Nat /\ Slots = 0 .. Max(Slots)
  BY <1>3, <1>4, ResidueRange, SlotsAssumption, UnitAssumption DEF Sizes
<1>6. s \in Slots
  BY <1>2, <1>5 DEF Sizes
<1>7. PICK k \in DOMAIN d.prdt :
        /\ Covers(d.prdt, k, s)
        /\ LET a == d.prdt[k].at + s - Before(d.prdt, k)
           IN  IF d.fis.cmd = "read"
                 THEN /\ mem' = [mem EXCEPT ![d.prdt[k].buf][a] = disk[p][lba]]
                      /\ UNCHANGED disk
                 ELSE /\ disk' = [disk EXCEPT ![p][lba] = mem[d.prdt[k].buf][a]]
                      /\ UNCHANGED mem
  BY DEF Move
<1>8. d.prdt[k].buf = b /\ d.prdt[k].at + s - Before(d.prdt, k) = s
  BY <1>2, <1>4, <1>5, <1>7, FirstEntry
<1>9. IF d.fis.cmd = "read"
        THEN mem' = [mem EXCEPT ![b][s] = disk[p][lba]] /\ disk' = disk
        ELSE disk' = [disk EXCEPT ![p][lba] = mem[b][s]] /\ mem' = mem
  BY <1>7, <1>8
<1>10. MovesOne(p, b, s)
  BY <1>3, <1>4, <1>6, <1>9 DEF MovesOne
<1> QED BY <1>10

\* One value of a function of functions is changed.
LEMMA ChangeOne ==
  ASSUME NEW A, NEW B, NEW C, NEW f \in [A -> [B -> C]], NEW a \in A, NEW b \in B, NEW v \in C,
         NEW g, g = [f EXCEPT ![a][b] = v]
  PROVE  /\ g \in [A -> [B -> C]] /\ g[a][b] = v
         /\ \A x \in A, y \in B : x # a \/ y # b => g[x][y] = f[x][y]
<1>1. f[a] \in [B -> C]
  OBVIOUS
<1> DEFINE h == [f[a] EXCEPT ![b] = v]
<1>2. h \in [B -> C] /\ h[b] = v /\ \A y \in B : y # b => h[y] = f[a][y]
  BY <1>1
<1>3. g = [f EXCEPT ![a] = h]
  OBVIOUS
<1> HIDE DEF h
<1>4. g \in [A -> [B -> C]] /\ g[a] = h /\ \A x \in A : x # a => g[x] = f[x]
  BY <1>2, <1>3
<1> QED BY <1>2, <1>4

\* A move keeps what has been moved before, and moves one sector more.
LEMMA MoveInv ==
  ASSUME AhciInv, NEW p \in Ports, Move(p)
  PROVE  AhciInv'
<1> DEFINE s == drive[p].moved
           lba == drive[p].fis.lba + s
<1>1. AhciType /\ PortAndDrive /\ OnlyItsCommand /\ CommandBuilt /\ MovedSoFar
  BY DEF AhciInv
<1>2. PICK b \in Buffers : MovesOne(p, b, s)
  BY MoveIsOne
<1>3. /\ s \in Slots /\ lba \in Sectors /\ drive[p].busy /\ s < drive[p].fis.count
      /\ drive' = [drive EXCEPT ![p].moved = s + 1] /\ UNCHANGED <<port, table, io, late>>
      /\ \/ mem' = [mem EXCEPT ![b][s] = disk[p][lba]] /\ disk' = disk
         \/ disk' = [disk EXCEPT ![p][lba] = mem[b][s]] /\ mem' = mem
  BY <1>2 DEF MovesOne
<1>4. /\ s \in Nat /\ drive[p].fis.count \in Nat /\ drive[p] \in DriveState
      /\ drive[p].fis.lba \in Nat
  BY <1>1 DEF AhciType, DriveState, Fis
<1> DEFINE e == [drive[p] EXCEPT !.moved = s + 1]
<1>5. /\ e \in DriveState /\ e.moved = s + 1 /\ e.fis = drive[p].fis /\ e.prdt = drive[p].prdt
      /\ e.busy = drive[p].busy /\ e.halted = drive[p].halted
  BY <1>4 DEF DriveState
<1>6. drive' = [drive EXCEPT ![p] = e]
  BY <1>1, <1>3 DEF AhciType
<1> HIDE DEF e
<1>7. /\ drive' \in [Ports -> DriveState] /\ drive'[p] = e
      /\ \A q \in Ports \ {p} : drive'[q] = drive[q]
  BY <1>1, <1>5, <1>6 DEF AhciType
<1>8. disk[p][lba] \in Content /\ mem[b][s] \in Content
  BY <1>1, <1>3 DEF AhciType
<1>9. /\ mem' \in [Buffers -> [Slots -> Content]] /\ disk' \in [Ports -> [Sectors -> Content]]
      /\ mem'[b][s] = disk'[p][lba]
      /\ \A t \in Slots : t # s => mem'[b][t] = mem[b][t]
      /\ \A t \in Sectors : t # lba => disk'[p][t] = disk[p][t]
  <2>1. mem \in [Buffers -> [Slots -> Content]] /\ disk \in [Ports -> [Sectors -> Content]]
    BY <1>1 DEF AhciType
  <2>2. CASE mem' = [mem EXCEPT ![b][s] = disk[p][lba]] /\ disk' = disk
    BY <1>3, <1>8, <2>1, <2>2, ChangeOne
  <2>3. CASE disk' = [disk EXCEPT ![p][lba] = mem[b][s]] /\ mem' = mem
    BY <1>3, <1>8, <2>1, <2>3, ChangeOne
  <2> QED BY <1>3, <2>2, <2>3
<1>10. AhciType'
  BY <1>1, <1>3, <1>7, <1>9 DEF AhciType
<1>11. PortAndDrive'
  BY <1>1, <1>3, <1>4, <1>5, <1>7 DEF PortAndDrive, Within
<1>12. OnlyItsCommand'
  BY <1>1, <1>3, <1>5, <1>7 DEF OnlyItsCommand
<1>13. CommandBuilt'
  BY <1>1, <1>3, <1>5, <1>7 DEF CommandBuilt, AsksIo, AhciType, Loading
<1>14. MovedSoFar'
  <2> SUFFICES ASSUME late = {} PROVE MovedSoFar'
    BY <1>3 DEF MovedSoFar
  <2>1. io.pc = "spin" /\ io.port = p /\ io.count \in Sizes /\ port[p].ci
    BY <1>1, <1>3 DEF OnlyItsCommand, PortAndDrive, AhciType, Loading
  <2>2. drive[p].prdt = BuildPrdt(io.buf, io.count) /\ drive[p].fis.lba = io.lba
    BY <1>1, <1>3, <2>1 DEF CommandBuilt, AsksIo
  <2>3. b = io.buf
    <3>1. PICK c \in Sizes : drive[p].prdt = BuildPrdt(b, c)
      BY <1>2 DEF MovesOne
    <3>2. c \in Nat \ {0} /\ io.count \in Nat \ {0} /\ io.buf \in Buffers
      BY <1>1, <2>1, SlotsAssumption DEF Sizes, AhciType, Loading
    <3>3. BuildPrdt(b, c)[1].buf = b
      BY SMTT(30), <3>2, PrdtType, ResidueRange
    <3>4. BuildPrdt(io.buf, io.count)[1].buf = io.buf
      BY <3>2, PrdtType, ResidueRange
    <3> QED BY <2>2, <3>1, <3>3, <3>4
  <2>4. \A t \in 0 .. s - 1 : io.lba + t \in Sectors /\ mem[b][t] = disk[p][io.lba + t]
    BY <1>1, <1>3, <2>1, <2>3 DEF MovedSoFar, Moved
  <2>5. ASSUME NEW t \in 0 .. s
        PROVE  io.lba + t \in Sectors /\ mem'[b][t] = disk'[p][io.lba + t]
    <3>1. CASE t = s
      BY <1>3, <1>9, <2>2, <3>1
    <3>2. CASE t # s
      <4>1. t \in 0 .. s - 1 /\ t \in Slots /\ io.lba + t # lba
        BY SMTT(30), <1>3, <1>4, <2>2, <3>2, SlotsAssumption
      <4>2. mem'[b][t] = mem[b][t]
        BY <1>9, <3>2, <4>1
      <4>3. disk'[p][io.lba + t] = disk[p][io.lba + t]
        BY <1>9, <2>4, <4>1
      <4> QED BY <2>4, <4>1, <4>2, <4>3
    <3> QED BY <3>1, <3>2
  <2>6. (s + 1) - 1 = s
    BY <1>4
  <2>7. \A t \in 0 .. (s + 1) - 1 : /\ io'.lba + t \in Sectors
                                   /\ mem'[io'.buf][t] = disk'[io'.port][io'.lba + t]
    BY <1>3, <2>1, <2>3, <2>5, <2>6
  <2>8. io'.pc = "spin" /\ io'.port = p /\ port'[p].ci /\ drive'[p].moved = s + 1
    BY <1>3, <1>5, <1>7, <2>1
  <2> QED BY <2>7, <2>8 DEF MovedSoFar, Moved
<1> QED BY <1>10, <1>11, <1>12, <1>13, <1>14 DEF AhciInv

-----------------------------------------------------------------------------
(***************************************************************************)
(* The tables of pointers.                                                 *)
(***************************************************************************)

\* The room of a table is a number of slots.
LEMMA RoomType ==
  ASSUME NEW n \in Nat
  PROVE  RoomFor(n) \in Nat
<1>1. (n + 1) \div 2 \in Nat
  BY DivMod
<1> QED BY <1>1 DEF RoomFor

\* The least of a set of numbers, as Min has it.
LEMMA MinIs ==
  ASSUME NEW T \in SUBSET Nat, T # {}
  PROVE  Min(T) \in T /\ \A x \in T : Min(T) <= x
BY LeastNumber DEF Min

\* The least of one number is that number.
LEMMA MinOne ==
  ASSUME NEW n \in Nat
  PROVE  Min({n}) = n
<1> DEFINE T == {n}
<1>1. T \in SUBSET Nat /\ T # {}
  OBVIOUS
<1> HIDE DEF T
<1>2. Min(T) \in T
  BY <1>1, MinIs
<1> QED BY <1>2 DEF T

\* An entry goes into a table: into the first free slot, or into a new one.
LEMMA PutEntryType ==
  ASSUME NEW V, NEW t \in [slots : Seq(V \cup {NoEntry}), room : Nat], NEW e \in V
  PROVE  PutEntry(t, e) \in [slots : Seq(V \cup {NoEntry}), room : Nat]
<1> DEFINE W == V \cup {NoEntry}
           u == IF FreeSlots(t) = {} THEN Krealloc(t) ELSE t
<1>1. t.slots \in Seq(W) /\ t.room \in Nat /\ Len(t.slots) \in Nat
  OBVIOUS
<1>2. Krealloc(t) \in [slots : Seq(W), room : Nat]
      /\ Krealloc(t).slots = Append(t.slots, NoEntry)
  BY <1>1, RoomType DEF Krealloc
<1>3. u \in [slots : Seq(W), room : Nat] /\ FreeSlots(u) # {}
  <2>1. CASE FreeSlots(t) = {}
    <3>1. /\ Len(t.slots) + 1 \in DOMAIN Append(t.slots, NoEntry)
          /\ Append(t.slots, NoEntry)[Len(t.slots) + 1] = NoEntry
      BY <1>1
    <3> QED BY <1>2, <2>1, <3>1 DEF FreeSlots
  <2>2. CASE FreeSlots(t) # {}
    BY <2>2
  <2> QED BY <2>1, <2>2
<1> HIDE DEF u
<1>4. FreeSlots(u) \in SUBSET DOMAIN u.slots /\ DOMAIN u.slots \in SUBSET Nat
  BY <1>3 DEF FreeSlots
<1> DEFINE i == Min(FreeSlots(u))
           v == [u.slots EXCEPT ![i] = e]
<1>5. i \in DOMAIN u.slots
  BY <1>3, <1>4, MinIs
<1>6. PutEntry(t, e) = [u EXCEPT !.slots = v]
  BY <1>3 DEF PutEntry, u
<1> HIDE DEF i
<1>7. v \in Seq(W)
  <2>1. u.slots \in Seq(W) /\ e \in W
    BY <1>3
  <2> QED BY <1>5, <2>1, ExceptSeq
<1> HIDE DEF v, W
<1>8. [u EXCEPT !.slots = v] \in [slots : Seq(W), room : Nat]
  BY <1>3, <1>7
<1> QED BY <1>6, <1>8 DEF W

\* u holds what t holds, and e.
Adds(u, t, e) == ToSet(u.slots) \ {NoEntry} = (ToSet(t.slots) \ {NoEntry}) \cup {e}

\* The table then holds that entry as well, and those that it held.
LEMMA PutEntryAdds ==
  ASSUME NEW V, NEW t \in [slots : Seq(V \cup {NoEntry}), room : Nat], NEW e \in V,
         e # NoEntry
  PROVE  Adds(PutEntry(t, e), t, e)
<1> DEFINE W == V \cup {NoEntry}
           u == IF FreeSlots(t) = {} THEN Krealloc(t) ELSE t
           a == t.slots
           b == u.slots
           i == Min(FreeSlots(u))
           v == [b EXCEPT ![i] = e]
<1>1. a \in Seq(W) /\ Len(a) \in Nat /\ DOMAIN a = 1 .. Len(a)
  OBVIOUS
<1>2. /\ b \in Seq(W) /\ FreeSlots(u) # {}
      /\ ToSet(b) \ {NoEntry} = ToSet(a) \ {NoEntry}
      /\ PutEntry(t, e) = [u EXCEPT !.slots = v] /\ DOMAIN u = {"slots", "room"}
  <2>1. CASE FreeSlots(t) = {}
    <3> DEFINE k == Append(a, NoEntry)
    <3>1. u = [slots |-> k, room |-> RoomFor(Len(a))]
      BY <2>1 DEF Krealloc
    <3>2. b = k
      BY <3>1
    <3>3. /\ k \in Seq(W) /\ Len(k) = Len(a) + 1 /\ k[Len(a) + 1] = NoEntry
          /\ \A j \in 1 .. Len(a) : k[j] = a[j]
      BY <1>1, AppendProperties
    <3> HIDE DEF k
    <3>4. FreeSlots(u) # {}
      BY <1>1, <3>2, <3>3 DEF FreeSlots
    <3>5. ToSet(k) \ {NoEntry} = ToSet(a) \ {NoEntry}
      BY <1>1, <3>3 DEF ToSet
    <3> HIDE DEF u
    <3>6. PutEntry(t, e) = [u EXCEPT !.slots = v] /\ DOMAIN u = {"slots", "room"}
      BY <3>1 DEF PutEntry, u
    <3> QED BY <3>2, <3>3, <3>4, <3>5, <3>6
  <2>2. CASE FreeSlots(t) # {}
    <3>1. u = t
      BY <2>2
    <3>2. PutEntry(t, e) = [u EXCEPT !.slots = v] /\ DOMAIN u = {"slots", "room"}
      BY <3>1 DEF PutEntry
    <3> QED BY <1>1, <2>2, <3>1, <3>2
  <2> QED BY <2>1, <2>2
<1> HIDE DEF u, a
<1>3. i \in FreeSlots(u)
  <2>1. FreeSlots(u) \in SUBSET Nat
    BY <1>2 DEF FreeSlots
  <2> QED BY <1>2, <2>1, MinIs
<1> HIDE DEF i
<1>4. i \in DOMAIN b /\ b[i] = NoEntry
  BY <1>3 DEF FreeSlots
<1>5. PutEntry(t, e).slots = v
  BY <1>2
<1> HIDE DEF b
<1>6. DOMAIN v = DOMAIN b /\ v[i] = e /\ \A j \in DOMAIN b : j # i => v[j] = b[j]
  BY <1>4
<1> HIDE DEF v
<1>7. ToSet(v) \ {NoEntry} = (ToSet(b) \ {NoEntry}) \cup {e}
  BY <1>4, <1>6 DEF ToSet
<1> QED BY <1>2, <1>5, <1>7 DEF Adds, a, b

\* With no free slot it goes behind all.
LEMMA PutEntryLast ==
  ASSUME NEW t \in [slots : Seq(Storage), room : Nat], NEW e \in Storage,
         NEW u, u = PutEntry(IF t = NoTable THEN FreshTable(NoEntry) ELSE t, e),
         t.slots = <<>> => t = NoTable
  PROVE  u \in [slots : Seq(Storage), room : Nat] /\ u.slots = Append(t.slots, e)
<1>1. CASE t = NoTable
  <2> DEFINE f == FreshTable(NoEntry)
  <2>1. f = [slots |-> <<NoEntry>>, room |-> RoomFor(1)] /\ RoomFor(1) \in Nat
    BY RoomType DEF FreshTable
  <2>2. FreeSlots(f) = {1}
    BY <2>1 DEF FreeSlots
  <2>3. Min({1}) = 1
    BY MinOne
  <2>4. u = [f EXCEPT !.slots[1] = e]
    BY <1>1, <2>2, <2>3 DEF PutEntry
  <2>5. u.slots = <<e>> /\ u = [slots |-> <<e>>, room |-> RoomFor(1)]
    BY <2>1, <2>4
  <2>6. t.slots = <<>>
    BY <1>1 DEF NoTable
  <2>7. Append(<<>>, e) = <<e>> /\ <<e>> \in Seq(Storage)
    OBVIOUS
  <2>8. u.slots = Append(t.slots, e)
    BY <2>5, <2>6, <2>7
  <2> HIDE DEF f
  <2> QED BY <2>1, <2>5, <2>7, <2>8
<1>2. CASE t # NoTable
  <2> DEFINE n == Len(t.slots) + 1
             k == Krealloc(t)
  <2>1. /\ t.slots \in Seq(Storage) /\ DOMAIN t.slots = 1 .. Len(t.slots) /\ Len(t.slots) \in Nat
        /\ \A i \in DOMAIN t.slots : t.slots[i] \in Storage
    OBVIOUS
  <2>2. FreeSlots(t) = {}
    BY <2>1, NoEntryAssumption DEF FreeSlots
  <2>3. k = [slots |-> Append(t.slots, NoEntry), room |-> RoomFor(Len(t.slots))]
    BY DEF Krealloc
  <2>4. RoomFor(Len(t.slots)) \in Nat
    BY <2>1, RoomType
  <2>5. FreeSlots(k) = {n}
    <3> DEFINE a == Append(t.slots, NoEntry)
    <3>1. DOMAIN a = 1 .. n /\ a[n] = NoEntry /\ n \in Nat
          /\ \A i \in 1 .. n : i # n => a[i] \in Storage
      BY <2>1
    <3>2. k.slots = a
      BY <2>3
    <3> HIDE DEF a, k
    <3> QED BY <2>1, <3>1, <3>2, NoEntryAssumption DEF FreeSlots
  <2>6. Min({n}) = n
    BY <2>1, MinOne
  <2>7. u = [k EXCEPT !.slots[n] = e]
    BY <1>2, <2>2, <2>5, <2>6 DEF PutEntry
  <2>8. [Append(t.slots, NoEntry) EXCEPT ![n] = e] = Append(t.slots, e)
    <3> DEFINE a == Append(t.slots, NoEntry)
               b == Append(t.slots, e)
               c == [a EXCEPT ![n] = e]
               W == Storage \cup {NoEntry}
    <3>1. t.slots \in Seq(W) /\ e \in W /\ NoEntry \in W
      BY <2>1
    <3>2. /\ a \in Seq(W) /\ Len(a) = n /\ n \in 1 .. Len(a)
          /\ \A i \in 1 .. Len(t.slots) : a[i] = t.slots[i]
      BY <2>1, <3>1, AppendProperties
    <3>3. /\ b \in Seq(W) /\ Len(b) = n /\ b[n] = e
          /\ \A i \in 1 .. Len(t.slots) : b[i] = t.slots[i]
      BY <2>1, <3>1, AppendProperties
    <3> HIDE DEF a, b, W
    <3>4. c \in Seq(W) /\ Len(c) = n /\ \A i \in 1 .. n : c[i] = IF i = n THEN e ELSE a[i]
      BY <3>1, <3>2, ExceptSeq
    <3> HIDE DEF c
    <3>5. \A i \in 1 .. Len(c) : c[i] = b[i]
      BY <2>1, <3>2, <3>3, <3>4
    <3>6. c = b
      BY <3>3, <3>4, <3>5, SeqEqual
    <3> QED BY <3>6 DEF a, b, c
  <2>9. u = [slots |-> Append(t.slots, e), room |-> RoomFor(Len(t.slots))]
    <3> DEFINE a == Append(t.slots, NoEntry)
               room == RoomFor(Len(t.slots))
    <3>1. k = [slots |-> a, room |-> room]
      BY <2>3
    <3> HIDE DEF a, room, k, n
    <3>2. u = [slots |-> [a EXCEPT ![n] = e], room |-> room]
      BY <2>7, <3>1
    <3> QED BY <2>8, <3>2 DEF a, room
  <2>10. Append(t.slots, e) \in Seq(Storage)
    BY <2>1
  <2> QED BY SMTT(30), <2>4, <2>9, <2>10
<1> QED BY <1>1, <1>2

-----------------------------------------------------------------------------
(***************************************************************************)
(* The steps of the device manager.                                        *)
(***************************************************************************)

\* The port that is next is among those that are left, and before the others.
LEMMA PortLeast ==
  ASSUME DevmanType, at.left # {}
  PROVE  Port \in at.left /\ Port \in AhciProbe /\ Port \in Ports /\ Port \in Nat
         /\ \A q \in at.left : q \in Nat /\ Port <= q
<1>1. at.left \in SUBSET AhciProbe /\ AhciProbe \in SUBSET Ports /\ Ports \in SUBSET Nat
  BY AttachedAssumption DEF DevmanType, AtState, AhciProbe
<1>2. at.left \in SUBSET Nat
  BY <1>1
<1> QED BY <1>1, <1>2, MinIs DEF Port

\* All slots of the table are in use.
LEMMA StoragesAre ==
  ASSUME DevmanType
  PROVE  /\ DOMAIN storages.slots = 1 .. highest
         /\ \A i \in 1 .. highest : storages.slots[i] \in Storage
         /\ Storages = {storages.slots[i] : i \in 1 .. highest}
<1>1. /\ storages.slots \in Seq(Storage) /\ Len(storages.slots) = highest /\ highest \in Nat
      /\ DOMAIN storages.slots = 1 .. Len(storages.slots)
  BY DEF DevmanType
<1>2. \A i \in 1 .. highest : storages.slots[i] \in Storage
  BY <1>1
<1>3. ToSet(storages.slots) = {storages.slots[i] : i \in 1 .. highest}
  BY <1>1 DEF ToSet
<1> QED BY <1>1, <1>2, <1>3, NoEntryAssumption DEF Storages

\* A number that has been given names its storage.
LEMMA StorageOf ==
  ASSUME DevmanType, Numbered, NEW n \in 0 .. highest - 1
  PROVE  /\ HasStorage(n) /\ n + 1 \in 1 .. highest
         /\ GetStorage(n) = storages.slots[n + 1] /\ GetStorage(n) \in Storage
         /\ GetStorage(n).port \in Ports
<1>1. highest \in Nat /\ n + 1 \in 1 .. highest /\ (n + 1) - 1 = n
  BY DEF DevmanType
<1>2. storages.slots[n + 1] \in Storages /\ storages.slots[n + 1].number = n
      /\ storages.slots[n + 1] \in Storage
  BY <1>1, StoragesAre DEF Numbered
<1>3. ASSUME NEW s \in Storages, s.number = n
      PROVE  s = storages.slots[n + 1]
  <2>1. PICK i \in 1 .. highest : s = storages.slots[i]
    BY StoragesAre
  <2>2. s.number = i - 1
    BY <2>1 DEF Numbered
  <2> QED BY <1>1, <1>3, <2>1, <2>2
<1> QED BY <1>1, <1>2, <1>3 DEF HasStorage, GetStorage, Storage

\* A call of the driver begins.
LEMMA StartIoInv ==
  ASSUME AhciInv, io.pc \in {"idle", "done"},
         NEW p \in Ports, NEW lba \in Nat, NEW count \in Sizes, NEW buf \in Buffers,
         NEW write \in BOOLEAN, StartIo(p, lba, count, buf, write),
         UNCHANGED <<port, table, drive, disk, late>>,
         mem' \in [Buffers -> [Slots -> Content]]
  PROVE  /\ AhciInv'
         /\ io'.pc = "clear" /\ io'.port = p /\ io'.lba = lba /\ io'.count = count
         /\ io'.buf = buf /\ io'.write = write
<1>1. AhciType /\ PortAndDrive /\ OnlyItsCommand
  BY DEF AhciInv
<1>2. p \in Nat /\ count \in Nat
  BY AttachedAssumption, SlotsAssumption DEF Sizes
<1>3. /\ io' \in IoState /\ io'.pc = "clear" /\ io'.port = p /\ io'.lba = lba
      /\ io'.count = count /\ io'.buf = buf /\ io'.write = write
  BY <1>2 DEF StartIo, IoState, Loading
<1>4. AhciType'
  BY <1>1, <1>3 DEF AhciType
<1>5. PortAndDrive'
  BY <1>1 DEF PortAndDrive, Within
<1>6. OnlyItsCommand'
  BY <1>1 DEF OnlyItsCommand
<1>7. CommandBuilt' /\ MovedSoFar'
  BY <1>3 DEF CommandBuilt, MovedSoFar
<1> QED BY <1>3, <1>4, <1>5, <1>6, <1>7 DEF AhciInv

\* A step of the device manager that leaves the driver and the drives alone.
LEMMA AhciSame ==
  ASSUME AhciInv, UNCHANGED ahciVars
  PROVE  AhciInv'
BY DEF AhciInv, AhciType, PortAndDrive, OnlyItsCommand, CommandBuilt, MovedSoFar, Moved,
       Within, AsksIo, ahciVars

\* Going on changes nothing but where ahci_init is.
LEMMA GoesOn ==
  ASSUME DevmanType, NEW pc \in Booting \cup Halted \cup {"run"}, Goto(pc)
  PROVE  /\ at' \in AtState
         /\ at'.pc = pc /\ at'.left = at.left /\ at'.i = at.i
         /\ at'.gpt = at.gpt /\ at'.parts = at.parts
BY DEF DevmanType, Goto, AtState

\* A port is stopped: no call is in progress.
LEMMA StopPortInv ==
  ASSUME AhciInv, DevmanInv, StopPort
  PROVE  AhciInv' /\ DevmanInv'
<1> DEFINE p == Port
<1>1. AhciType /\ PortAndDrive /\ OnlyItsCommand /\ CommandBuilt /\ MovedSoFar
  BY DEF AhciInv
<1>2. DevmanType /\ Numbered /\ LastStorage /\ Waiting
  BY DEF DevmanInv
<1>3. /\ at.pc = "stop" /\ at.left # {} /\ Goto("configure")
      /\ port' = [port EXCEPT ![p].st = FALSE, ![p].fre = FALSE]
      /\ UNCHANGED <<table, drive, io, mem, disk, late, header, image, storages, highest, calls>>
  BY DEF StopPort, AhciPortStopCmd
<1>4. p \in Ports
  BY <1>2, <1>3, PortLeast
<1>5. port' \in [Ports -> AhciHbaPort]
      /\ \A q \in Ports : /\ port'[q].ci = port[q].ci /\ port'[q].bsy = port[q].bsy
                          /\ port'[q].tfes = port[q].tfes
  <2> DEFINE h == [[port[p] EXCEPT !.st = FALSE] EXCEPT !.fre = FALSE]
  <2>1. port[p] \in AhciHbaPort
    BY <1>1, <1>4 DEF AhciType
  <2>2. h \in AhciHbaPort /\ h.ci = port[p].ci /\ h.bsy = port[p].bsy /\ h.tfes = port[p].tfes
    BY <2>1 DEF AhciHbaPort
  <2>3. port' = [port EXCEPT ![p] = h]
    BY <1>1, <1>3, <1>4 DEF AhciType
  <2> HIDE DEF h, p
  <2> QED BY <1>1, <1>4, <2>2, <2>3 DEF AhciType
<1> HIDE DEF p
<1>6. AhciType'
  BY <1>1, <1>3, <1>5 DEF AhciType
<1>7. PortAndDrive'
  BY <1>1, <1>3, <1>5 DEF PortAndDrive, Within
<1>8. OnlyItsCommand'
  BY <1>1, <1>3, <1>5 DEF OnlyItsCommand
<1>9. io.pc \in {"idle", "done"}
  BY <1>2, <1>3 DEF Waiting
<1>10. CommandBuilt'
  BY <1>3, <1>9 DEF CommandBuilt
<1>11. MovedSoFar'
  BY <1>1, <1>3, <1>9 DEF MovedSoFar, Moved
<1>12. /\ at' \in AtState
       /\ at'.pc = "configure" /\ at'.left = at.left
  BY <1>2, <1>3, GoesOn DEF Booting
<1>13. DevmanType'
  BY <1>2, <1>3, <1>12 DEF DevmanType
<1>14. Numbered' /\ LastStorage' /\ Waiting'
  BY <1>2, <1>3, <1>9, <1>12 DEF Numbered, LastStorage, Waiting, Scanning
<1> QED BY <1>6, <1>7, <1>8, <1>10, <1>11, <1>13, <1>14 DEF AhciInv, DevmanInv

\* A port is configured.
LEMMA ConfigurePortInv ==
  ASSUME AhciInv, DevmanInv, ConfigurePort
  PROVE  AhciInv' /\ DevmanInv'
<1> DEFINE p == Port
           Fresh0(f) == [whole |-> f % Low = f, prdt |-> <<>>, fis |-> NoFis]
<1>1. AhciType /\ PortAndDrive /\ OnlyItsCommand /\ CommandBuilt /\ MovedSoFar
  BY DEF AhciInv
<1>2. DevmanType /\ Numbered /\ LastStorage /\ Waiting
  BY DEF DevmanInv
<1>3. /\ at.pc = "configure" /\ Goto("add")
      /\ port' = [port EXCEPT ![p].fre = TRUE, ![p].st = TRUE]
      /\ UNCHANGED <<drive, io, mem, disk, late, header, image, storages, highest, calls>>
  BY DEF ConfigurePort, AhciPortConfigure
<1> HIDE DEF p
<1>17. PICK f \in Frames : table' = [table EXCEPT ![p] = Fresh0(f)]
  BY DEF ConfigurePort, AhciPortConfigure, p
<1> DEFINE x == Fresh0(f)
<1>4. p \in Ports /\ at.left # {}
  BY <1>2, <1>3, PortLeast DEF DevmanType, Booting, p
<1>5. port' \in [Ports -> AhciHbaPort]
      /\ \A q \in Ports : /\ port'[q].ci = port[q].ci /\ port'[q].bsy = port[q].bsy
                          /\ port'[q].tfes = port[q].tfes
  <2> DEFINE h == [[port[p] EXCEPT !.fre = TRUE] EXCEPT !.st = TRUE]
  <2>1. port[p] \in AhciHbaPort
    BY <1>1, <1>4 DEF AhciType
  <2>2. h \in AhciHbaPort /\ h.ci = port[p].ci /\ h.bsy = port[p].bsy /\ h.tfes = port[p].tfes
    BY <2>1 DEF AhciHbaPort
  <2>3. port' = [port EXCEPT ![p] = h]
    BY <1>1, <1>3, <1>4 DEF AhciType
  <2> HIDE DEF h
  <2> QED BY <1>1, <1>4, <2>2, <2>3 DEF AhciType
<1>6. x \in Transfer /\ x.fis.count = 0
  BY DEF Transfer, NoFis, Fis, Prdt
<1> HIDE DEF x
<1>7. table' \in [Ports -> Transfer] /\ table'[p] = x /\ \A q \in Ports \ {p} : table'[q] = table[q]
  BY <1>1, <1>4, <1>17, <1>6 DEF AhciType, x
<1>8. AhciType'
  BY <1>1, <1>3, <1>5, <1>7 DEF AhciType
<1>9. PortAndDrive'
  BY <1>1, <1>3, <1>5, <1>6, <1>7 DEF PortAndDrive, Within
<1>10. OnlyItsCommand'
  BY <1>1, <1>3, <1>5 DEF OnlyItsCommand
<1>11. io.pc \in {"idle", "done"}
  BY <1>2, <1>3 DEF Waiting
<1>12. CommandBuilt'
  BY <1>3, <1>11 DEF CommandBuilt
<1>13. MovedSoFar'
  BY <1>1, <1>3, <1>11 DEF MovedSoFar, Moved
<1>14. /\ at' \in AtState
       /\ at'.pc = "add" /\ at'.left = at.left
  BY <1>2, <1>3, GoesOn DEF Booting
<1>15. DevmanType'
  BY <1>2, <1>3, <1>4, <1>14 DEF DevmanType
<1>16. Numbered' /\ LastStorage' /\ Waiting'
  BY <1>2, <1>3, <1>11, <1>14 DEF Numbered, LastStorage, Waiting, Scanning
<1> QED BY <1>8, <1>9, <1>10, <1>12, <1>13, <1>15, <1>16 DEF AhciInv, DevmanInv

\* A drive gets the next number, behind the drives that have one.
LEMMA DevmanAddStorageInv ==
  ASSUME AhciInv, DevmanInv, DevmanAddStorage
  PROVE  AhciInv' /\ DevmanInv'
<1> DEFINE p == Port
           e == [number |-> highest, port |-> p, partitions |-> NoTable]
           n == highest + 1
<1>1. DevmanType /\ Numbered /\ LastStorage /\ Waiting
  BY DEF DevmanInv
<1>2. /\ at.pc = "add" /\ AddStorage(p)
      /\ UNCHANGED <<ahciVars, header, image, calls>>
  BY DEF DevmanAddStorage
<1>3. PICK pc \in {"header", "corrupt"} : Goto(pc)
  BY DEF DevmanAddStorage
<1>4. /\ at' \in AtState
      /\ at'.pc = pc /\ at'.left = at.left
  BY <1>1, <1>3, GoesOn DEF Booting, Halted
<1>5. at.left # {} /\ p \in Ports /\ p \in AhciProbe /\ p \in at.left /\ highest \in Nat
  BY <1>1, <1>2, PortLeast DEF DevmanType, Booting
<1>6. AhciInv'
  BY <1>2, AhciSame
<1>7. e \in Storage /\ e.number = highest /\ e.port = p
  BY <1>5 DEF Storage, NoTable, PartitionTable
<1>8. /\ storages.slots \in Seq(Storage) /\ Len(storages.slots) = highest
      /\ storages \in [slots : Seq(Storage), room : Nat]
      /\ storages.slots = <<>> => storages = NoTable
  BY <1>1, <1>5 DEF DevmanType
<1>9. /\ storages' = PutEntry(IF storages = NoTable THEN FreshTable(NoEntry) ELSE storages, e)
      /\ highest' = n
  BY <1>2 DEF AddStorage
<1> HIDE DEF e
<1>10. storages' \in [slots : Seq(Storage), room : Nat]
       /\ storages'.slots = Append(storages.slots, e)
  BY <1>7, <1>8, <1>9, PutEntryLast
<1>11. /\ Len(storages'.slots) = n /\ storages'.slots[n] = e
       /\ \A i \in 1 .. highest : storages'.slots[i] = storages.slots[i]
  BY <1>7, <1>8, <1>10, AppendProperties
<1>12. n \in Nat /\ n > 0 /\ n - 1 = highest
  BY <1>5
<1>13. Port' = p
  BY <1>4 DEF Port
<1> HIDE DEF p
<1>14. DevmanType'
  BY <1>1, <1>2, <1>4, <1>5, <1>9, <1>10, <1>11, <1>12 DEF DevmanType, ahciVars
<1>15. Numbered'
  <2> SUFFICES ASSUME NEW i \in 1 .. n
               PROVE  /\ storages'.slots[i].number = i - 1
                      /\ storages'.slots[i].port \in AhciProbe
                      /\ i > 1 => storages'.slots[i - 1].port < storages'.slots[i].port
    BY <1>9 DEF Numbered
  <2>1. CASE i = n
    <3>1. i > 1 => highest \in 1 .. highest /\ highest > 0
      BY <1>5, <1>12, <2>1
    <3>2. i > 1 => storages.slots[highest].port < p
      BY <1>1, <1>2, <1>5, <3>1 DEF LastStorage
    <3> QED BY <1>5, <1>7, <1>11, <1>12, <2>1, <3>1, <3>2
  <2>2. CASE i # n
    <3>1. i \in 1 .. highest /\ (i > 1 => i - 1 \in 1 .. highest)
      BY <1>5, <2>2
    <3> QED BY <1>1, <1>11, <3>1 DEF Numbered
  <2> QED BY <2>1, <2>2
<1>16. LastStorage' /\ Waiting'
  BY <1>1, <1>2, <1>3, <1>4, <1>7, <1>9, <1>11, <1>12, <1>13
     DEF LastStorage, Waiting, ahciVars
<1> QED BY <1>6, <1>14, <1>15, <1>16 DEF DevmanInv

\* The header of the drive is asked for, into a page that is cleared.
LEMMA ReadHeaderInv ==
  ASSUME AhciInv, DevmanInv, ReadHeader
  PROVE  /\ AhciInv' /\ DevmanInv'
         /\ at'.left = at.left /\ at'.pc = "check"
         /\ io'.pc = "clear" /\ io'.port = Port /\ io'.lba = 0 /\ ~io'.write
<1> DEFINE p == Port
           w == FALSE
<1>1. DevmanType /\ Numbered /\ LastStorage /\ Waiting /\ AhciType
  BY DEF DevmanInv, AhciInv
<1>2. /\ at.pc = "header" /\ Goto("check")
      /\ mem' = [mem EXCEPT ![at.gpt] = [s \in Slots |-> Zero]]
      /\ StartIo(GetStorage(Drive).port, 0, 2, at.gpt, w)
      /\ UNCHANGED <<port, table, drive, disk, late, header, image, storages, highest, calls>>
  BY DEF ReadHeader, Access
<1>3. at.left # {} /\ p \in Ports /\ highest \in Nat
  BY <1>1, <1>2, PortLeast DEF DevmanType, Booting
<1>4. highest > 0 /\ Drive \in 0 .. highest - 1 /\ Drive + 1 = highest
      /\ storages.slots[highest].port = p
  BY <1>1, <1>2, <1>3 DEF LastStorage, Scanning, Drive
<1>5. GetStorage(Drive).port = p
  BY <1>1, <1>4, StorageOf
<1>6. /\ at' \in AtState
      /\ at'.pc = "check" /\ at'.left = at.left /\ at'.gpt = at.gpt
  BY <1>1, <1>2, GoesOn DEF Booting
<1>7. Port' = p
  BY <1>6 DEF Port
<1> HIDE DEF p, w
<1>8. 2 \in Sizes /\ at.gpt \in Buffers
  BY <1>1, SlotsAssumption DEF Sizes, DevmanType, AtState
<1>9. mem' \in [Buffers -> [Slots -> Content]]
  BY <1>1, <1>2, <1>8 DEF AhciType, Content
<1>10. io.pc \in {"idle", "done"}
  BY <1>1, <1>2 DEF Waiting
<1>11. w \in BOOLEAN
  BY DEF w
<1>12. /\ AhciInv' /\ io'.pc = "clear" /\ io'.port = p /\ io'.lba = 0 /\ io'.buf = at.gpt
       /\ io'.write = w
  BY <1>2, <1>3, <1>5, <1>8, <1>9, <1>10, <1>11, StartIoInv
<1>13. DevmanType'
  BY <1>1, <1>2, <1>3, <1>6 DEF DevmanType
<1>14. Numbered' /\ LastStorage' /\ Waiting'
  BY <1>1, <1>2, <1>6, <1>7, <1>12 DEF Numbered, LastStorage, Waiting, Scanning, p, w
<1> QED BY <1>6, <1>12, <1>13, <1>14 DEF DevmanInv, p, w

\* The header is looked at.
LEMMA CheckHeaderInv ==
  ASSUME AhciInv, DevmanInv, CheckHeader
  PROVE  AhciInv' /\ DevmanInv'
<1>1. DevmanType /\ Numbered /\ LastStorage /\ Waiting
  BY DEF DevmanInv
<1>2. at.pc = "check" /\ io.pc = "done" /\ UNCHANGED <<ahciVars, header, image, storages, highest, calls>>
  BY DEF CheckHeader
<1>3. PICK pc \in {"log", "panic"} : Goto(pc)
  BY DEF CheckHeader
<1>4. /\ at' \in AtState
      /\ at'.pc = pc /\ at'.left = at.left
  BY <1>1, <1>3, GoesOn DEF Booting, Halted
<1>5. AhciInv'
  BY <1>2, AhciSame
<1>6. Port' = Port
  BY <1>4 DEF Port
<1>7. at.left # {}
  BY <1>1, <1>2 DEF DevmanType, Booting
<1>8. DevmanType'
  BY <1>1, <1>2, <1>4, <1>7 DEF DevmanType, ahciVars
<1>9. Numbered' /\ LastStorage' /\ Waiting'
  BY <1>1, <1>2, <1>3, <1>4, <1>6 DEF Numbered, LastStorage, Waiting, Scanning, ahciVars
<1> QED BY <1>5, <1>8, <1>9 DEF DevmanInv

\* The page of the entries is taken.
LEMMA LogHeaderInv ==
  ASSUME AhciInv, DevmanInv, LogHeader
  PROVE  /\ AhciInv' /\ DevmanInv'
         /\ at'.left = at.left /\ at'.pc = "loop" /\ at'.i = at.i /\ at'.gpt = at.gpt
<1>1. DevmanType /\ Numbered /\ LastStorage /\ Waiting
  BY DEF DevmanInv
<1>2. at.pc = "log" /\ UNCHANGED <<ahciVars, image, storages, highest, calls>>
  BY DEF LogHeader
<1>3. at.left # {} /\ Port \in Ports /\ at \in AtState /\ header \in [AhciProbe -> HeaderPages]
  BY <1>1, <1>2, PortLeast DEF DevmanType, Booting
<1>4. PICK page \in {"shared", "heap", "lost"}, parts \in Buffers \ {UserPage} :
        /\ header' = [header EXCEPT ![Port] = page]
        /\ at' = [at EXCEPT !.pc = "loop", !.parts = parts]
  <2>1. at.gpt \in Buffers \ {UserPage} /\ OwnPage[Port] \in Buffers \ {UserPage}
    BY <1>3, BuffersAssumption DEF AtState
  <2> QED BY <2>1 DEF LogHeader
<1>5. header' \in [AhciProbe -> HeaderPages]
  BY <1>3, <1>4 DEF HeaderPages
<1>6. /\ at' \in AtState
      /\ at'.left = at.left /\ at'.pc = "loop" /\ at'.i = at.i /\ at'.gpt = at.gpt
  BY <1>3, <1>4 DEF AtState, Booting
<1>7. AhciInv'
  BY <1>2, AhciSame
<1>8. Port' = Port
  BY <1>6 DEF Port
<1>9. DevmanType'
  BY <1>1, <1>2, <1>3, <1>5, <1>6 DEF DevmanType, ahciVars
<1>10. Numbered' /\ LastStorage' /\ Waiting'
  BY <1>1, <1>2, <1>6, <1>8 DEF Numbered, LastStorage, Waiting, Scanning, ahciVars
<1> QED BY <1>6, <1>7, <1>9, <1>10 DEF DevmanInv

\* A page of entries is asked for, or there are no more.  A header that is not
\* lost says where they are, and how many.
LEMMA ReadEntriesInv ==
  ASSUME AhciInv, DevmanInv, ReadEntries
  PROVE  /\ AhciInv' /\ DevmanInv'
         /\ at'.left = at.left /\ at'.pc \in {"entry", "free", "fault"} /\ at'.i = at.i
         /\ at'.gpt = at.gpt /\ at'.parts = at.parts
         /\ at'.pc = "entry" => /\ io'.pc = "clear" /\ io'.count = PageSectors
                                /\ Lost \/ (io'.lba \in EntriesLba /\ at.i < image[Port].entries)
         /\ at'.pc = "free" => Lost \/ ~HeaderKept \/ at.i >= image[Port].entries
<1> DEFINE p == Port
           w == FALSE
<1>1. DevmanType /\ Numbered /\ LastStorage /\ Waiting /\ AhciType
  BY DEF DevmanInv, AhciInv
<1>2. /\ at.pc = "loop"
      /\ UNCHANGED <<port, table, drive, mem, disk, late, header, image, storages, highest, calls>>
  BY DEF ReadEntries
<1>3. at.left # {} /\ p \in Ports /\ p \in AhciProbe /\ highest \in Nat /\ at.i \in Nat
      /\ at.parts \in Buffers
  BY <1>1, <1>2, PortLeast DEF DevmanType, Booting, AtState
<1>4. highest > 0 /\ Drive \in 0 .. highest - 1 /\ Drive + 1 = highest
      /\ storages.slots[highest].port = p
  BY <1>1, <1>2, <1>3 DEF LastStorage, Scanning, Drive
<1>5. GetStorage(Drive).port = p
  BY <1>1, <1>4, StorageOf
<1>6. EntriesLba \in SUBSET Nat
  <2>1. image[p].array \in Sectors /\ Sectors \in SUBSET Nat /\ Lbas \in SUBSET Nat
    BY <1>1, <1>3, ImagesAssumption, SectorsAssumption DEF DevmanType
  <2> DEFINE k == at.i \div PageSectors
             a == image[p].array
  <2>2. k \in Nat
    BY <1>3, SlotsAssumption, DivMod
  <2>3. a \in Nat
    BY <2>1
  <2> HIDE DEF k, a
  <2>4. a + k \in Nat
    BY <2>2, <2>3
  <2>5. EntriesLba = IF Lost THEN Lbas ELSE {a + k}
    BY DEF EntriesLba, a, k
  <2> QED BY <2>1, <2>4, <2>5
<1>7. io.pc \in {"idle", "done"}
  BY <1>1, <1>2 DEF Waiting
<1>8. PageSectors \in Sizes
  BY SlotsAssumption DEF Sizes
<1>9. mem' \in [Buffers -> [Slots -> Content]]
  BY <1>1, <1>2 DEF AhciType
<1>10. w \in BOOLEAN /\ ~w
  OBVIOUS
<1>11. PartitionEntries = IF Lost THEN 0 .. MaxEntries
                          ELSE IF HeaderKept THEN {image[p].entries} ELSE {0}
  BY DEF PartitionEntries
<1>12. \/ \E entries \in PartitionEntries, lba \in EntriesLba :
            /\ at.i < entries
            /\ StartIo(GetStorage(Drive).port, lba, PageSectors, at.parts, w)
            /\ Goto("entry")
       \/ (\E entries \in PartitionEntries : at.i >= entries) /\ Goto("free") /\ UNCHANGED io
       \/ Goto("fault") /\ UNCHANGED io
  BY DEF ReadEntries, Access
<1> HIDE DEF w
<1>13. CASE \E entries \in PartitionEntries, lba \in EntriesLba :
              /\ at.i < entries
              /\ StartIo(GetStorage(Drive).port, lba, PageSectors, at.parts, w)
              /\ Goto("entry")
  <2>1. PICK entries \in PartitionEntries, lba \in EntriesLba :
              /\ at.i < entries
              /\ StartIo(GetStorage(Drive).port, lba, PageSectors, at.parts, w)
              /\ Goto("entry")
    BY <1>13
  <2>2. /\ at' \in AtState /\ at'.pc = "entry" /\ at'.left = at.left
        /\ at'.i = at.i /\ at'.gpt = at.gpt /\ at'.parts = at.parts
    BY <1>1, <2>1, GoesOn DEF Booting
  <2>3. Port' = p
    BY <2>2 DEF Port
  <2>4. Lost \/ at.i < image[p].entries
    BY <1>3, <1>11, <2>1
  <2> HIDE DEF p
  <2>5. lba \in Nat
    BY <1>6
  <2>6. /\ AhciInv' /\ io'.pc = "clear" /\ io'.port = p /\ io'.buf = at.parts
        /\ io'.write = w /\ io'.lba = lba /\ io'.count = PageSectors
    BY <1>2, <1>3, <1>5, <1>7, <1>8, <1>9, <1>10, <2>1, <2>5, StartIoInv
  <2>7. DevmanType'
    BY <1>1, <1>2, <1>3, <2>2 DEF DevmanType
  <2>8. Numbered' /\ LastStorage' /\ Waiting'
    BY <1>1, <1>2, <1>10, <2>2, <2>3, <2>6 DEF Numbered, LastStorage, Waiting, Scanning, p
  <2> QED BY <2>2, <2>4, <2>6, <2>7, <2>8 DEF DevmanInv, p
<1>14. ASSUME NEW pc \in {"free", "fault"}, Goto(pc), UNCHANGED io
       PROVE  /\ AhciInv' /\ DevmanInv' /\ at'.pc = pc /\ at'.left = at.left
              /\ at'.i = at.i /\ at'.gpt = at.gpt /\ at'.parts = at.parts
  <2>1. /\ at' \in AtState /\ at'.pc = pc /\ at'.left = at.left
        /\ at'.i = at.i /\ at'.gpt = at.gpt /\ at'.parts = at.parts
    BY <1>1, <1>14, GoesOn DEF Booting, Halted
  <2>2. Port' = p
    BY <2>1 DEF Port
  <2> HIDE DEF p
  <2>3. AhciInv'
    BY <1>2, <1>14, AhciSame DEF ahciVars
  <2>4. DevmanType'
    BY <1>1, <1>2, <1>3, <2>1 DEF DevmanType
  <2>5. Numbered' /\ LastStorage' /\ Waiting'
    BY <1>1, <1>2, <1>7, <1>14, <2>1, <2>2 DEF Numbered, LastStorage, Waiting, Scanning, p
  <2> QED BY <2>1, <2>3, <2>4, <2>5 DEF DevmanInv
<1>15. CASE (\E entries \in PartitionEntries : at.i >= entries) /\ Goto("free") /\ UNCHANGED io
  <2>1. Lost \/ ~HeaderKept \/ at.i >= image[p].entries
    BY <1>11, <1>15
  <2>2. /\ AhciInv' /\ DevmanInv' /\ at'.pc = "free" /\ at'.left = at.left
        /\ at'.i = at.i /\ at'.gpt = at.gpt /\ at'.parts = at.parts
    BY <1>14, <1>15
  <2> QED BY <2>1, <2>2
<1>16. CASE Goto("fault") /\ UNCHANGED io
  <2>1. /\ AhciInv' /\ DevmanInv' /\ at'.pc = "fault" /\ at'.left = at.left
        /\ at'.i = at.i /\ at'.gpt = at.gpt /\ at'.parts = at.parts
    BY <1>14, <1>16
  <2> QED BY <2>1
<1> QED BY <1>12, <1>13, <1>15, <1>16

\* A partition gets into the table of the last storage; nothing else changes.
LEMMA AddPartitionLast ==
  ASSUME DevmanType, Numbered, highest > 0, NEW id \in Nat, AddPartition(Drive, id)
  PROVE  /\ storages' \in [slots : Seq(Storage), room : Nat]
         /\ Len(storages'.slots) = highest
         /\ \A i \in 1 .. highest - 1 : storages'.slots[i] = storages.slots[i]
         /\ storages'.slots[highest].number = storages.slots[highest].number
         /\ storages'.slots[highest].port = storages.slots[highest].port
         /\ Registered(storages'.slots[highest]) = Registered(storages.slots[highest]) \cup {id}
<1> DEFINE s == GetStorage(Drive)
           k == CHOOSE j \in DOMAIN storages.slots : storages.slots[j] = s
           V == Partition \cup {Wild}
           E == V \cup {NoEntry}
<1>1. /\ highest \in Nat /\ Drive \in 0 .. highest - 1 /\ Drive + 1 = highest
      /\ highest \in 1 .. highest
      /\ storages \in [slots : Seq(Storage), room : Nat] /\ Len(storages.slots) = highest
  BY DEF Drive, DevmanType
<1>2. s = storages.slots[highest] /\ s \in Storage
  BY <1>1, StorageOf
<1>3. DOMAIN storages.slots = 1 .. highest
  BY StoragesAre
<1>4. k = highest
  <2>1. ASSUME NEW j \in 1 .. highest, storages.slots[j] = s
        PROVE  j = highest
    <3>1. storages.slots[j].number = j - 1 /\ storages.slots[highest].number = highest - 1
      BY <1>1 DEF Numbered
    <3> QED BY <1>1, <1>2, <2>1, <3>1
  <2>2. \E j \in 1 .. highest : storages.slots[j] = s
    BY <1>1, <1>2
  <2> HIDE DEF s
  <2> QED BY <1>3, <2>1, <2>2
<1>5. PICK slot \in {NoEntry, Wild} :
        storages' = [storages EXCEPT !.slots[k].partitions =
          PutEntry(IF s.partitions = NoTable THEN FreshTable(slot) ELSE s.partitions,
                   [id |-> id])]
  BY DEF AddPartition
<1> DEFINE t == IF s.partitions = NoTable THEN FreshTable(slot) ELSE s.partitions
           x == [id |-> id]
           u == PutEntry(t, x)
           e == [s EXCEPT !.partitions = u]
           q == [storages.slots EXCEPT ![highest] = e]
<1>6. PartitionTable = [slots : Seq(E), room : Nat]
  <2>1. Partition \cup {NoEntry, Wild} = E
    OBVIOUS
  <2> QED BY <2>1 DEF PartitionTable
<1>7. u \in PartitionTable
      /\ ToSet(u.slots) \ {NoEntry, Wild} = (ToSet(t.slots) \ {NoEntry, Wild}) \cup {x}
  <2>1. FreshTable(slot) \in [slots : Seq(E), room : Nat]
    <3>1. RoomFor(1) \in Nat /\ slot \in E
      BY RoomType
    <3> HIDE DEF E
    <3> QED BY <3>1 DEF FreshTable
  <2>2. s.partitions \in [slots : Seq(E), room : Nat]
    BY <1>2, <1>6 DEF Storage
  <2>3. x \in V /\ x # NoEntry /\ x # Wild
    BY NoEntryAssumption DEF Partition
  <2> HIDE DEF V, s, x
  <2>4. t \in [slots : Seq(V \cup {NoEntry}), room : Nat]
    BY <2>1, <2>2
  <2> HIDE DEF t
  <2>5. u \in [slots : Seq(V \cup {NoEntry}), room : Nat]
    BY <2>3, <2>4, PutEntryType
  <2>6. ToSet(u.slots) \ {NoEntry, Wild} = (ToSet(t.slots) \ {NoEntry, Wild}) \cup {x}
    <3>1. Adds(u, t, x)
      BY <2>3, <2>4, PutEntryAdds
    <3> HIDE DEF u
    <3> QED BY <2>3, <3>1 DEF Adds
  <2> QED BY <1>6, <2>5, <2>6
<1>8. ToSet(t.slots) \ {NoEntry, Wild} = ToSet(s.partitions.slots) \ {NoEntry, Wild}
  <2>1. CASE s.partitions = NoTable
    <3>1. t.slots = <<slot>> /\ s.partitions.slots = <<>>
      BY <2>1 DEF FreshTable, NoTable
    <3>2. ToSet(<<slot>>) = {slot} /\ ToSet(<<>>) = {}
      BY DEF ToSet
    <3> QED BY <3>1, <3>2
  <2>2. CASE s.partitions # NoTable
    BY <2>2
  <2> QED BY <2>1, <2>2
<1> HIDE DEF u, t, s, k
<1>9. e \in Storage /\ e.number = s.number /\ e.port = s.port /\ e.partitions = u
  BY <1>2, <1>7 DEF Storage
<1>10. Registered(e) = Registered(s) \cup {id}
  <2> DEFINE A == ToSet(e.partitions.slots) \ {NoEntry, Wild}
             B == ToSet(s.partitions.slots) \ {NoEntry, Wild}
  <2>1. A = B \cup {x} /\ x.id = id
    BY <1>7, <1>9, <1>8
  <2>2. Registered(e) = {y.id : y \in A} /\ Registered(s) = {y.id : y \in B}
    BY DEF Registered
  <2> HIDE DEF A, B, x
  <2> QED BY <2>1, <2>2
<1>11. storages' = [storages EXCEPT !.slots = q]
  <2>1. storages' = [storages EXCEPT !.slots[highest].partitions = u]
    BY <1>4, <1>5 DEF u, t
  <2>2. storages' = [storages EXCEPT !.slots = [storages.slots EXCEPT ![highest] =
                       [storages.slots[highest] EXCEPT !.partitions = u]]]
    BY <1>1, <2>1
  <2> QED BY <1>2, <2>2
<1> HIDE DEF e
<1>12. /\ q \in Seq(Storage) /\ Len(q) = highest
       /\ \A i \in 1 .. highest : q[i] = IF i = highest THEN e ELSE storages.slots[i]
  BY <1>1, <1>9, ExceptSeq
<1> HIDE DEF q
<1>13. storages' \in [slots : Seq(Storage), room : Nat] /\ storages'.slots = q
  BY <1>1, <1>11, <1>12
<1>14. \A i \in 1 .. highest - 1 : i \in 1 .. highest /\ i # highest
  BY <1>1
<1> QED BY <1>1, <1>2, <1>9, <1>10, <1>12, <1>13, <1>14

\* An entry is taken, into the table of the storage that is scanned.
LEMMA TakeEntryInv ==
  ASSUME AhciInv, DevmanInv, TakeEntry
  PROVE  /\ AhciInv' /\ DevmanInv'
         /\ at'.left = at.left /\ at'.pc \in {"loop", "fault", "corrupt"}
         /\ at'.gpt = at.gpt /\ at'.parts = at.parts
         /\ \A i \in 1 .. highest - 1 : storages'.slots[i] = storages.slots[i]
         /\ ~MayDivide => UNCHANGED storages
         /\ UNCHANGED header \/ (header[Port] = "heap" /\ header' = [header EXCEPT ![Port] = "lost"])
<1>1. DevmanType /\ Numbered /\ LastStorage /\ Waiting
  BY DEF DevmanInv
<1>2. at.pc = "entry" /\ io.pc = "done" /\ UNCHANGED <<ahciVars, image, highest, calls>>
  BY DEF TakeEntry
<1>3. at.left # {} /\ at.i \in Nat /\ highest \in Nat /\ highest > 0
      /\ storages.slots[highest].port = Port
  BY <1>1, <1>2 DEF DevmanType, AtState, Booting, LastStorage, Scanning
<1>4. /\ at' \in AtState
      /\ at'.left = at.left /\ at'.pc \in {"loop", "fault", "corrupt"}
      /\ at'.gpt = at.gpt /\ at'.parts = at.parts
  <2>1. \/ Goto("fault") \/ Goto("corrupt")
        \/ at' = [at EXCEPT !.pc = "loop", !.i = @ + 1]
    BY DEF TakeEntry, NextEntry
  <2>2. CASE Goto("fault")
    BY <1>1, <2>2, GoesOn DEF Halted
  <2>3. CASE Goto("corrupt")
    BY <1>1, <2>3, GoesOn DEF Halted
  <2>4. CASE at' = [at EXCEPT !.pc = "loop", !.i = @ + 1]
    <3>1. at' = [pc |-> "loop", left |-> at.left, i |-> at.i + 1,
                 gpt |-> at.gpt, parts |-> at.parts]
      BY <1>1, <2>4 DEF DevmanType, AtState
    <3>2. /\ at.left \in SUBSET AhciProbe /\ at.i + 1 \in Nat
          /\ at.gpt \in Buffers \ {UserPage} /\ at.parts \in Buffers \ {UserPage}
      BY <1>1, <1>3 DEF DevmanType, AtState
    <3> QED BY <3>1, <3>2 DEF AtState, Booting
  <2> QED BY <2>1, <2>2, <2>3, <2>4
<1>5. AhciInv'
  BY <1>2, AhciSame
<1>6. Port' = Port
  BY <1>4 DEF Port
<1>7. /\ storages' \in [slots : Seq(Storage), room : Nat]
      /\ Len(storages'.slots) = highest
      /\ \A i \in 1 .. highest - 1 : storages'.slots[i] = storages.slots[i]
      /\ storages'.slots[highest].number = storages.slots[highest].number
      /\ storages'.slots[highest].port = storages.slots[highest].port
      /\ ~MayDivide => UNCHANGED storages
  <2>1. CASE AddPartition(Drive, at.i) /\ MayDivide
    BY <1>1, <1>3, <2>1, AddPartitionLast
  <2>2. CASE UNCHANGED storages
    BY <1>1, <2>2 DEF DevmanType
  <2> QED BY <2>1, <2>2 DEF TakeEntry
<1>8. UNCHANGED header \/ (header[Port] = "heap" /\ header' = [header EXCEPT ![Port] = "lost"])
  BY DEF TakeEntry
<1>9. header' \in [AhciProbe -> HeaderPages]
  BY <1>1, <1>8 DEF DevmanType, HeaderPages
<1>10. DevmanType'
  BY <1>1, <1>2, <1>3, <1>4, <1>7, <1>9 DEF DevmanType, ahciVars
<1>11. Numbered'
  <2> SUFFICES ASSUME NEW i \in 1 .. highest
               PROVE  /\ storages'.slots[i].number = i - 1
                      /\ storages'.slots[i].port \in AhciProbe
                      /\ i > 1 => storages'.slots[i - 1].port < storages'.slots[i].port
    BY <1>2 DEF Numbered
  <2>1. /\ storages'.slots[i].number = storages.slots[i].number
        /\ storages'.slots[i].port = storages.slots[i].port
    <3>1. i = highest \/ i \in 1 .. highest - 1
      BY <1>3
    <3> QED BY <1>7, <3>1
  <2>2. i > 1 => storages'.slots[i - 1].port = storages.slots[i - 1].port
    <3>1. i > 1 => i - 1 \in 1 .. highest - 1
      BY <1>3
    <3> QED BY <1>7, <3>1
  <2> QED BY <1>1, <2>1, <2>2 DEF Numbered
<1>12. LastStorage' /\ Waiting'
  BY <1>2, <1>3, <1>4, <1>6, <1>7 DEF LastStorage, Waiting, Scanning, ahciVars
<1> QED BY <1>4, <1>5, <1>7, <1>8, <1>10, <1>11, <1>12 DEF DevmanInv

\* The scan of a drive is over: the next port's turn, or no port is left.
LEMMA NextPortInv ==
  ASSUME AhciInv, DevmanInv, NextPort
  PROVE  AhciInv' /\ DevmanInv'
<1>1. DevmanType /\ Numbered /\ LastStorage /\ Waiting
  BY DEF DevmanInv
<1>2. /\ at.pc = "free"
      /\ at' = [pc |-> "stop", left |-> at.left \ {Port}, i |-> 0,
                gpt |-> at.parts, parts |-> at.parts]
      /\ UNCHANGED <<ahciVars, header, image, storages, highest, calls>>
  BY DEF NextPort
<1>3. /\ at.left # {} /\ Port \in at.left /\ \A q \in at.left : q \in Nat /\ Port <= q
      /\ Port \in Nat /\ storages.slots[highest].port = Port
  BY <1>1, <1>2, PortLeast DEF DevmanType, Booting, LastStorage, Scanning
<1>4. AhciInv'
  BY <1>2, AhciSame
<1>5. DevmanType'
  <2>1. at' \in AtState
    BY <1>1, <1>2 DEF DevmanType, AtState, Booting
  <2> QED BY <1>1, <1>2, <2>1 DEF DevmanType, ahciVars
<1>6. \A q \in at'.left : Port < q
  BY <1>2, <1>3
<1>7. Numbered' /\ LastStorage' /\ Waiting'
  BY <1>1, <1>2, <1>3, <1>6 DEF Numbered, LastStorage, Waiting, Scanning, ahciVars
<1> QED BY <1>4, <1>5, <1>7 DEF DevmanInv

\* All ports have been taken.
LEMMA BootDoneInv ==
  ASSUME AhciInv, DevmanInv, BootDone
  PROVE  AhciInv' /\ DevmanInv'
<1>1. DevmanType /\ Numbered /\ LastStorage /\ Waiting
  BY DEF DevmanInv
<1>2. Goto("run") /\ UNCHANGED <<ahciVars, header, image, storages, highest, calls>>
  BY DEF BootDone
<1>3. /\ at' \in AtState
      /\ at'.pc = "run"
  BY <1>1, <1>2, GoesOn
<1>4. AhciInv'
  BY <1>2, AhciSame
<1>5. DevmanType'
  BY <1>1, <1>2, <1>3 DEF DevmanType, Booting, ahciVars
<1>6. Numbered' /\ LastStorage' /\ Waiting'
  BY <1>1, <1>2, <1>3 DEF Numbered, LastStorage, Waiting, Scanning, ahciVars
<1> QED BY <1>4, <1>5, <1>6 DEF DevmanInv

\* The user asks for sectors of a drive.
LEMMA CallInv ==
  ASSUME AhciInv, DevmanInv, NEW number \in Indices, NEW partition, NEW lba \in Lbas,
         NEW count \in Counts, NEW write \in BOOLEAN,
         Call(number, partition, lba, count, write)
  PROVE  AhciInv' /\ DevmanInv'
<1>1. DevmanType /\ Numbered /\ LastStorage /\ Waiting /\ AhciType
  BY DEF DevmanInv, AhciInv
<1>2. /\ at.pc = "run" /\ io.pc \in {"idle", "done"} /\ calls < MaxCalls /\ calls' = calls + 1
      /\ UNCHANGED <<port, table, drive, disk, late, header, image, storages, highest>>
  BY DEF Call
<1>3. calls' \in 0 .. MaxCalls /\ lba \in Nat /\ highest \in Nat /\ count \in Sizes
  <2>1. lba \in Nat /\ count \in Sizes
    BY SectorsAssumption, SlotsAssumption DEF Sizes
  <2> QED BY <1>1, <1>2, <2>1, BoundsAssumption DEF DevmanType
<1>4. Numbered' /\ (at'.pc \in {"run", "fault"} => LastStorage')
  BY <1>1, <1>2 DEF Numbered, LastStorage, Scanning
<1>5. CASE Refuse(lba) /\ UNCHANGED <<at, mem>>
  <2>1. io' \in IoState /\ io'.pc = "done" /\ ~io'.ok
    BY <1>3, <1>5 DEF Refuse, IoIdle, IoState
  <2>2. AhciType'
    BY <1>1, <1>2, <1>5, <2>1 DEF AhciType, Loading
  <2>3. PortAndDrive' /\ OnlyItsCommand'
    BY <1>2 DEF AhciInv, PortAndDrive, OnlyItsCommand, Within
  <2>4. CommandBuilt' /\ MovedSoFar'
    BY <2>1 DEF CommandBuilt, MovedSoFar
  <2>5. DevmanType' /\ Waiting'
    BY <1>1, <1>2, <1>3, <1>5 DEF DevmanType, Waiting
  <2> QED BY <1>2, <1>4, <1>5, <2>2, <2>3, <2>4, <2>5 DEF AhciInv, DevmanInv
<1>6. CASE Goto("fault") /\ UNCHANGED <<io, mem>>
  <2>1. /\ at' \in AtState
        /\ at'.pc = "fault"
    BY <1>1, <1>6, GoesOn DEF Halted
  <2>2. AhciInv'
    BY <1>2, <1>6, AhciSame DEF ahciVars
  <2>3. DevmanType'
    BY <1>1, <1>2, <1>3, <2>1 DEF DevmanType, Booting
  <2>4. Waiting'
    BY <1>2, <1>6, <2>1 DEF Waiting
  <2> QED BY <1>4, <2>1, <2>2, <2>3, <2>4 DEF DevmanInv
<1>7. CASE /\ HasStorage(number) /\ UNCHANGED at
           /\ StartIo(GetStorage(number).port, lba, count, UserPage, write)
           /\ mem' = [mem EXCEPT ![UserPage] = [s \in Slots |-> IF write THEN New ELSE Zero]]
  <2>1. GetStorage(number).port \in Ports
    <3>1. PICK i \in 1 .. highest : storages.slots[i].number = number
      BY <1>1, <1>7, StoragesAre DEF HasStorage
    <3>2. number \in 0 .. highest - 1
      BY <1>1, <1>3, <3>1 DEF Numbered
    <3> QED BY <1>1, <3>2, StorageOf
  <2>2. mem' \in [Buffers -> [Slots -> Content]]
    BY <1>1, <1>7 DEF AhciType, Content
  <2>3. AhciInv'
    BY <1>2, <1>3, <1>7, <2>1, <2>2, StartIoInv, BuffersAssumption
  <2>4. DevmanType' /\ Waiting'
    BY <1>1, <1>2, <1>3, <1>7 DEF DevmanType, Waiting
  <2> QED BY <1>2, <1>4, <1>7, <2>3, <2>4 DEF DevmanInv
<1> QED BY <1>5, <1>6, <1>7 DEF Call, Access

\* A step of the driver: the call stays what it is, wherever it is.
LEMMA IoStepInv ==
  ASSUME AhciInv, IoStep
  PROVE  /\ AhciInv'
         /\ io.pc \in Loading /\ io'.pc \in Loading \cup {"done", "corrupt"}
         /\ io'.port = io.port /\ io'.lba = io.lba /\ io'.count = io.count
         /\ io'.buf = io.buf /\ io'.write = io.write
         /\ UNCHANGED <<drive, mem, disk>> /\ late \subseteq late'
<1>1. AhciInv'
  BY ClearInterruptsInv, WaitReadyInv, FillTableInv, FillForeignInv, FillFisInv, IssueInv, SpinInv
     DEF IoStep
<1>2. io.pc \in Loading /\ UNCHANGED <<drive, mem, disk>> /\ late \subseteq late'
  BY DEF IoStep, ClearInterrupts, WaitReady, FillTable, FillForeign, FillFis, Issue, Spin, Loading
<1>3. (\E pc \in Loading \cup {"corrupt"} : IoTo(pc)) \/ (\E ok \in BOOLEAN : Return(ok))
  <2>1. CASE ClearInterrupts \/ FillTable \/ FillForeign \/ FillFis \/ Issue
    BY <2>1 DEF ClearInterrupts, FillTable, FillForeign, FillFis, Issue, Loading
  <2>2. CASE WaitReady
    BY <2>2 DEF WaitReady, Loading
  <2>3. CASE Spin
    <3> DEFINE ok == ~port[io.port].ci /\ ~port[io.port].tfes
    <3>1. ok \in BOOLEAN /\ FALSE \in BOOLEAN
      OBVIOUS
    <3>2. Return(ok) \/ Return(FALSE)
      BY <2>3 DEF Spin
    <3> HIDE DEF ok
    <3> QED BY <3>1, <3>2
  <2> QED BY <2>1, <2>2, <2>3 DEF IoStep
<1>4. io \in IoState
  BY DEF AhciInv, AhciType
<1>5. CASE \E pc \in Loading \cup {"corrupt"} : IoTo(pc)
  BY <1>1, <1>2, <1>4, <1>5, IoGoesOn
<1>6. CASE \E ok \in BOOLEAN : Return(ok)
  BY <1>1, <1>2, <1>4, <1>6, IoReturns
<1> QED BY <1>3, <1>5, <1>6

\* A step of a drive.
LEMMA DriveStepInv ==
  ASSUME AhciInv, NEW p \in Ports, DriveStep(p)
  PROVE  AhciInv' /\ UNCHANGED <<io, late>>
<1>1. AhciInv'
  BY FollowInv, FetchInv, MoveInv, FinishInv, FailInv DEF DriveStep
<1>2. UNCHANGED <<io, late>>
  <2>1. Move(p) => UNCHANGED <<io, late>>
    BY DEF Move
  <2>2. Follow(p) \/ Fetch(p) \/ Finish(p) \/ Fail(p) => UNCHANGED <<io, late>>
    BY DEF Follow, Fetch, Finish, Fail
  <2> QED BY <2>1, <2>2 DEF DriveStep
<1> QED BY <1>1, <1>2

\* What is said of the device manager depends on its own state, and on which
\* call the driver is in.
LEMMA DevmanSame ==
  ASSUME DevmanInv, UNCHANGED devmanVars,
         io'.pc = "idle" <=> io.pc = "idle", io.pc = "done" => io'.pc = "done",
         io'.port = io.port, io'.buf = io.buf, io'.write = io.write
  PROVE  DevmanInv'
<1>1. DevmanType /\ Numbered /\ LastStorage /\ Waiting /\ UNCHANGED <<at, header, image, storages, highest, calls>>
  BY DEF DevmanInv, devmanVars
<1>2. Port' = Port
  BY <1>1 DEF Port
<1>3. DevmanType' /\ Numbered' /\ LastStorage'
  BY <1>1, <1>2 DEF DevmanType, Numbered, LastStorage
<1>4. Waiting'
  BY <1>1, <1>2 DEF Waiting
<1> QED BY <1>3, <1>4 DEF DevmanInv

\* Every step of the boot keeps the invariants of the driver and of devman.
LEMMA BootStepInv ==
  ASSUME AhciInv, DevmanInv, BootStep
  PROVE  AhciInv' /\ DevmanInv'
BY StopPortInv, ConfigurePortInv, DevmanAddStorageInv, ReadHeaderInv, CheckHeaderInv,
   LogHeaderInv, ReadEntriesInv, TakeEntryInv, NextPortInv, BootDoneInv DEF BootStep

\* What holds at the start.
LEMMA InitInv ==
  ASSUME Init
  PROVE  AhciInv /\ DevmanInv
<1>1. /\ table = [p \in Ports |-> [whole |-> TRUE, prdt |-> <<>>, fis |-> NoFis]]
      /\ drive = [p \in Ports |-> Resting] /\ io = IoIdle /\ late = {}
      /\ mem = [b \in Buffers |-> [s \in Slots |-> Zero]]
      /\ disk = [p \in Ports |-> [s \in Sectors |-> s]]
      /\ at = [pc |-> "stop", left |-> AhciProbe, i |-> 0, gpt |-> GptPage, parts |-> GptPage]
      /\ header = [p \in AhciProbe |-> "unread"]
      /\ image \in [AhciProbe -> Images] /\ storages = NoTable /\ highest = 0 /\ calls = 0
  BY DEF Init, AhciInit
<1>2. PICK running \in BOOLEAN :
        port = [p \in Ports |->
                  LET on == running /\ p \in AhciProbe
                  IN  [ci |-> FALSE, tfes |-> FALSE, bsy |-> FALSE,
                       st |-> on, fre |-> on, cr |-> on, fr |-> on]]
  BY DEF Init, AhciInit
<1>3. NoFis \in Fis /\ NoFis.count = 0 /\ <<>> \in Prdt
  BY DEF NoFis, Fis, Prdt
<1>4. AhciType
  <2>1. port \in [Ports -> AhciHbaPort]
    <3>1. \A p \in Ports : (running /\ p \in AhciProbe) \in BOOLEAN
      OBVIOUS
    <3> QED BY <1>2, <3>1 DEF AhciHbaPort
  <2>2. table \in [Ports -> Transfer]
    BY <1>1, <1>3 DEF Transfer
  <2>3. drive \in [Ports -> DriveState]
    BY <1>1, <1>3 DEF DriveState, Resting
  <2>4. io \in IoState /\ io.pc \notin Loading
    BY <1>1 DEF IoState, IoIdle, Loading
  <2>5. mem \in [Buffers -> [Slots -> Content]] /\ disk \in [Ports -> [Sectors -> Content]]
    BY <1>1 DEF Content
  <2> QED BY <1>1, <2>1, <2>2, <2>3, <2>4, <2>5 DEF AhciType
<1>5. PortAndDrive
  <2>1. \A p \in Ports : table[p].fis = NoFis /\ drive[p] = Resting
    BY <1>1
  <2>2. /\ ~Resting.busy /\ ~Resting.halted /\ Resting.moved <= Resting.fis.count
        /\ Resting.fis = NoFis
    BY <1>3 DEF Resting
  <2>3. \A p \in Ports : ~port[p].bsy /\ ~port[p].tfes
    BY <1>2
  <2>4. \A p \in Ports : Within(table[p]) /\ Within(drive[p])
    BY <1>3, <2>1, <2>2 DEF Within
  <2>5. \A p \in Ports : /\ ~drive[p].busy /\ ~drive[p].halted
                         /\ drive[p].moved <= drive[p].fis.count
    BY <2>1, <2>2
  <2> QED BY <2>3, <2>4, <2>5 DEF PortAndDrive
<1>6. OnlyItsCommand
  BY <1>2 DEF OnlyItsCommand
<1>7. CommandBuilt /\ MovedSoFar
  BY <1>1 DEF CommandBuilt, MovedSoFar, IoIdle
<1>8. DevmanType
  <2>1. NoTable \in [slots : Seq(Storage), room : Nat] /\ Len(NoTable.slots) = 0
    BY DEF NoTable
  <2>2. at \in AtState
    BY <1>1, BuffersAssumption DEF AtState, Booting, GptPage, UserPage
  <2>3. header \in [AhciProbe -> HeaderPages]
    BY <1>1 DEF HeaderPages
  <2> QED BY <1>1, <2>1, <2>2, <2>3, BoundsAssumption DEF DevmanType, Booting
<1>9. Numbered /\ LastStorage /\ Waiting
  BY <1>1 DEF Numbered, LastStorage, Waiting, Scanning, IoIdle
<1> QED BY <1>4, <1>5, <1>6, <1>7, <1>8, <1>9 DEF AhciInv, DevmanInv

\* Every step of the system keeps the invariants of the driver and of devman.
LEMMA NextInv ==
  ASSUME AhciInv, DevmanInv, Next
  PROVE  AhciInv' /\ DevmanInv'
<1>1. CASE BootStep
  BY <1>1, BootStepInv
<1>2. CASE DriverStep
  <2>1. IoStep /\ UNCHANGED devmanVars
    BY <1>2 DEF DriverStep
  <2>2. AhciInv' /\ io.pc \in Loading /\ io'.pc \in Loading \cup {"done", "corrupt"}
        /\ io'.port = io.port /\ io'.buf = io.buf /\ io'.write = io.write
    BY <2>1, IoStepInv
  <2>3. io.pc \notin {"idle", "done"} /\ io'.pc # "idle"
    BY <2>2 DEF Loading
  <2> QED BY <2>1, <2>2, <2>3, DevmanSame
<1>3. CASE DevmanRead
  <2> DEFINE w == FALSE
  <2>1. PICK number \in Indices, partition \in Partitions, lba \in Lbas, count \in Counts :
          Call(number, partition, lba, count, w)
    BY <1>3 DEF DevmanRead
  <2>2. w \in BOOLEAN
    OBVIOUS
  <2> HIDE DEF w
  <2> QED BY <2>1, <2>2, CallInv
<1>4. CASE DevmanWrite
  <2> DEFINE w == TRUE
  <2>1. PICK number \in Indices, partition \in Partitions, lba \in Lbas, count \in Counts :
          Call(number, partition, lba, count, w)
    BY <1>4 DEF DevmanWrite
  <2>2. w \in BOOLEAN
    OBVIOUS
  <2> HIDE DEF w
  <2> QED BY <2>1, <2>2, CallInv
<1>5. CASE \E p \in Ports : DriveRuns(p)
  <2>1. PICK p \in Ports : DriveStep(p) /\ UNCHANGED devmanVars
    BY <1>5 DEF DriveRuns
  <2>2. AhciInv' /\ UNCHANGED io
    BY <2>1, DriveStepInv
  <2> QED BY <2>1, <2>2, DevmanSame
<1> QED BY <1>1, <1>2, <1>3, <1>4, <1>5 DEF Next

\* The registers of the ports, the drives behind them and the call in progress
\* fit together, and so do the storages and where the scan is.
THEOREM DiskInvariant == Spec => [](AhciInv /\ DevmanInv)
<1>1. Init => AhciInv /\ DevmanInv
  BY InitInv
<1>2. AhciInv /\ DevmanInv /\ [Next]_vars => AhciInv' /\ DevmanInv'
  <2> SUFFICES ASSUME AhciInv, DevmanInv, UNCHANGED vars PROVE AhciInv' /\ DevmanInv'
    BY NextInv
  <2>1. UNCHANGED ahciVars /\ UNCHANGED devmanVars /\ UNCHANGED io
    BY DEF vars, ahciVars
  <2> QED BY <2>1, AhciSame, DevmanSame
<1> QED BY <1>1, <1>2, PTL DEF Spec

-----------------------------------------------------------------------------
(***************************************************************************)
(* What the invariant says of the runs' properties.                        *)
(***************************************************************************)

\* As many storages as numbers that were given.
LEMMA StoragesCounted ==
  ASSUME DevmanType, Numbered
  PROVE  highest = Cardinality(Storages)
<1> DEFINE f == [i \in 1 .. highest |-> storages.slots[i]]
<1>1. highest \in Nat /\ Storages = {storages.slots[i] : i \in 1 .. highest}
  BY StoragesAre DEF DevmanType
<1>2. f \in Surjection(1 .. highest, Storages)
  BY <1>1 DEF Surjection
<1>3. f \in Injection(1 .. highest, Storages)
  <2>1. ASSUME NEW i \in 1 .. highest, NEW j \in 1 .. highest, f[i] = f[j]
        PROVE  i = j
    BY <1>1, <2>1 DEF Numbered
  <2>2. f \in [1 .. highest -> Storages]
    BY <1>1
  <2> QED BY <2>1, <2>2 DEF Injection, IsInjective
<1>4. ExistsBijection(1 .. highest, Storages)
  BY <1>2, <1>3 DEF ExistsBijection, Bijection
<1> QED BY <1>1, <1>4, FS_CountingElements

\* The state of the driver and of the device manager has its type throughout.
THEOREM TypeOKHolds == Spec => []TypeOK
<1>1. AhciInv /\ DevmanInv => TypeOK
  <2> SUFFICES ASSUME AhciInv, DevmanInv PROVE TypeOK
    OBVIOUS
  <2>1. AhciType /\ PortAndDrive /\ DevmanType /\ Numbered
    BY DEF AhciInv, DevmanInv
  <2>2. AhciTypeOK
    BY <2>1 DEF AhciType, PortAndDrive, AhciTypeOK, Transfer, IoState, Content
  <2>3. highest = Cardinality(Storages)
    BY <2>1, StoragesCounted
  <2>4. /\ at.pc \in Booting \cup Halted \cup {"run"} /\ at.left \subseteq AhciProbe
        /\ at.i \in Nat /\ {at.gpt, at.parts} \subseteq Buffers \ {UserPage}
    BY <2>1 DEF DevmanType, AtState
  <2> QED BY <2>1, <2>2, <2>3, <2>4 DEF TypeOK, DevmanType
<1> QED BY <1>1, DiskInvariant, PTL

\* A call that reports success has moved its sectors, as long as the driver
\* has never given up a command.
THEOREM DoneMeansDoneHolds == Spec => []DoneMeansDone
<1>1. AhciInv => DoneMeansDone
  BY DEF AhciInv, MovedSoFar, Moved, DoneMeansDone
<1> QED BY <1>1, DiskInvariant, PTL

\* The numbers of the handles name the drives that work, in the order of their
\* ports.
THEOREM NumbersNameDrivesHolds == Spec => []NumbersNameDrives
<1>1. DevmanInv => NumbersNameDrives
  <2> SUFFICES ASSUME DevmanInv, NEW i \in DOMAIN storages.slots
               PROVE  /\ storages.slots[i].number = i - 1
                      /\ Attached[storages.slots[i].port] =
                           [detection |-> "present", power |-> "active", signature |-> "ata"]
                      /\ i > 1 => storages.slots[i - 1].port < storages.slots[i].port
    BY DEF NumbersNameDrives
  <2>1. i \in 1 .. highest
    BY StoragesAre DEF DevmanInv
  <2>2. storages.slots[i].port \in AhciProbe
    BY <2>1 DEF DevmanInv, Numbered
  <2>3. ASSUME NEW p \in AhciProbe
        PROVE  Attached[p] = [detection |-> "present", power |-> "active", signature |-> "ata"]
    <3>1. p \in Ports /\ AhciCheckPortType(p) = "SATA" /\ Attached[p] \in Status
      BY AttachedAssumption DEF AhciProbe
    <3>2. /\ Attached[p].detection = "present" /\ Attached[p].power = "active"
          /\ Attached[p].signature = "ata"
      BY <3>1 DEF AhciCheckPortType, SignatureType, Status
    <3> QED BY <3>1, <3>2 DEF Status
  <2> QED BY <2>1, <2>2, <2>3 DEF DevmanInv, Numbered
<1> QED BY <1>1, DiskInvariant, PTL

\* A drive moves a sector only for the command that it has.
LEMMA MovesForCommand ==
  ASSUME AhciInv, DevmanInv, [Next]_vars, NEW p \in Ports, drive[p].busy,
         drive'[p].moved > drive[p].moved
  PROVE  drive[p].moved < drive[p].fis.count
<1>1. drive \in [Ports -> DriveState] /\ drive[p].moved \in Nat
  BY DEF AhciInv, AhciType, DriveState
<1>2. drive' # drive
  BY <1>1
<1>3. ~UNCHANGED vars /\ ~UNCHANGED ahciVars
  BY <1>2 DEF vars, ahciVars
<1>4. ~BootStep
  BY <1>2, <1>3 DEF BootStep, StopPort, AhciPortStopCmd, ConfigurePort, AhciPortConfigure,
       DevmanAddStorage, ReadHeader, CheckHeader, LogHeader, ReadEntries, TakeEntry, NextPort,
       BootDone
<1>5. ~DriverStep
  BY <1>2, IoStepInv DEF DriverStep
<1>6. ~DevmanRead /\ ~DevmanWrite
  BY <1>2 DEF DevmanRead, DevmanWrite, Call
<1>7. PICK q \in Ports : DriveStep(q)
  BY <1>3, <1>4, <1>5, <1>6 DEF Next, DriveRuns
<1>8. CASE Move(q)
  <2>1. drive[q].moved < drive[q].fis.count /\ drive' = [drive EXCEPT ![q].moved = @ + 1]
    BY <1>8 DEF Move
  <2>2. q = p
    BY <1>1, <2>1
  <2> QED BY <2>1, <2>2
<1>9. CASE Fetch(q)
  <2>1. q # p
    BY <1>9 DEF Fetch
  <2> QED BY <1>1, <1>9, <2>1 DEF Fetch
<1>10. CASE Follow(q)
  BY <1>2, <1>10 DEF Follow
<1>11. CASE Finish(q) \/ Fail(q)
  <2> DEFINE d == drive'[q]
  <2>1. d.moved = 0 /\ \A x \in Ports : x # q => drive'[x] = drive[x]
    BY <1>1, <1>11 DEF Finish, Fail, Resting
  <2>2. q = p
    BY <1>1, <2>1
  <2> QED BY <1>1, <2>1, <2>2
<1> QED BY <1>7, <1>8, <1>9, <1>10, <1>11 DEF DriveStep

\* A drive touches the memory of the call that waits for it, and no other,
\* unless a command of its port was given up.
THEOREM NoStrayDmaHolds == Spec => NoStrayDma
<1> DEFINE Step == \A p \in Ports : p \notin late /\ drive[p].busy /\ drive'[p].moved > drive[p].moved =>
       /\ io.pc = "spin" /\ io.port = p
       /\ \E k \in DOMAIN drive[p].prdt :
            Covers(drive[p].prdt, k, drive[p].moved) /\ drive[p].prdt[k].buf = io.buf
<1>1. AhciInv /\ DevmanInv /\ [Next]_vars => [Step]_vars
  <2> SUFFICES ASSUME AhciInv, DevmanInv, [Next]_vars, NEW p \in Ports,
                      p \notin late, drive[p].busy, drive'[p].moved > drive[p].moved
               PROVE  /\ io.pc = "spin" /\ io.port = p
                      /\ \E k \in DOMAIN drive[p].prdt :
                           /\ Covers(drive[p].prdt, k, drive[p].moved)
                           /\ drive[p].prdt[k].buf = io.buf
    OBVIOUS
  <2>1. drive[p].moved < drive[p].fis.count /\ drive[p].moved \in Nat
    BY MovesForCommand DEF AhciInv, AhciType, DriveState
  <2>2. io.pc = "spin" /\ io.port = p
    BY DEF AhciInv, PortAndDrive, OnlyItsCommand
  <2>3. drive[p].fis.count = Residue(io.count) /\ drive[p].prdt = BuildPrdt(io.buf, io.count)
    BY <2>2 DEF AhciInv, CommandBuilt, AsksIo
  <2>4. io.count \in Nat \ {0} /\ io.buf \in Buffers
    BY <2>2, SlotsAssumption DEF AhciInv, AhciType, Loading, Sizes
  <2>5. 1 \in DOMAIN drive[p].prdt /\ Covers(drive[p].prdt, 1, drive[p].moved)
    BY <2>1, <2>3, <2>4, FirstCovers
  <2>6. drive[p].prdt[1].buf = io.buf
    <3>1. 1 \in 1 .. PrdtLength(io.count)
      BY <2>4, ResidueRange
    <3> QED BY <2>3, <2>4, <3>1, PrdtType
  <2> QED BY <2>2, <2>5, <2>6
<1>2. Spec => [][Step]_vars
  BY <1>1, DiskInvariant, PTL DEF Spec
<1> QED BY <1>2 DEF NoStrayDma

-----------------------------------------------------------------------------
(***************************************************************************)
(* The scan: the steps of ahci_init and gpt_init.                          *)
(***************************************************************************)

\* What was told of the drives stays, as long as no storage, no header and no
\* port left changes, and no other entry is taken.
LEMMA ToldKept ==
  ASSUME DevmanType, SharedNone, HeapTold, Behind,
         UNCHANGED <<storages, header, image, highest>>, late \subseteq late',
         \A p \in Ports : drive[p].halted => drive'[p].halted,
         at'.left = at.left,
         at'.pc \in Entering => at.pc \in Entering /\ Taken' = Taken
  PROVE  SharedNone' /\ HeapTold' /\ Behind'
<1>1. \A i \in 1 .. highest : storages.slots[i].port \in Ports
  BY StoragesAre DEF Storage
<1>2. \A p \in Ports : Answered(p)' => Answered(p)
  BY DEF Answered
<1>3. NoStrays' => NoStrays
  BY DEF NoStrays, LostAt
<1>4. SharedNone'
  BY <1>1, <1>2, <1>3 DEF SharedNone
<1>5. HeapTold'
  <2> SUFFICES ASSUME late' = {}, NEW i \in 1 .. highest, Answered(storages.slots[i].port)',
                      header[storages.slots[i].port] = "heap"
               PROVE  LET s == storages.slots[i]
                      IN  /\ s.port \notin at.left => TableTold(s, PageSectors)
                          /\ i = highest /\ at'.pc \in Entering => TableTold(s, Taken')
    BY DEF HeapTold, TableTold, Registered
  <2> DEFINE s == storages.slots[i]
  <2>1. late = {} /\ Answered(s.port)
    BY <1>1, <1>2
  <2>2. /\ s.port \notin at.left => TableTold(s, PageSectors)
        /\ i = highest /\ at.pc \in Entering => TableTold(s, Taken)
    BY <2>1 DEF HeapTold
  <2> QED BY <2>2
<1>6. Behind'
  BY DEF Behind
<1> QED BY <1>4, <1>5, <1>6

\* A step that asks nothing of any drive.
LEMMA OnlyReadsKept ==
  ASSUME OnlyReads, UNCHANGED drive,
         \A p \in Ports : port'[p].ci => port[p].ci,
         \A p \in Ports : table'[p] = table[p] \/ table'[p].fis = NoFis,
         \A p \in Ports : LostAt(p) => LostAt(p)',
         at.pc = "check" => at'.pc = "check" /\ Port' = Port
  PROVE  OnlyReads'
<1>1. \A p \in Ports : /\ Reads(table[p]) => Reads(table'[p])
                       /\ Far(table[p]) => Far(table'[p])
  BY DEF Reads, Far, NoFis
<1> QED BY <1>1 DEF OnlyReads

\* Before the first entry, only where ahci_init is changes.
LEMMA PlacesKept ==
  ASSUME Places, UNCHANGED header, at.pc \notin Entering, at'.pc \notin Entering,
         at'.left = at.left, at'.i = at.i, at'.gpt = at.gpt
  PROVE  Places'
<1>1. Port' = Port
  BY DEF Port
<1> QED BY <1>1 DEF Places

\* Stopping a port leaves what was read.
LEMMA StopPortScan ==
  ASSUME AhciInv, DevmanInv, ScanInv, StopPort
  PROVE  ScanInv'
<1>1. AhciType /\ DevmanType /\ BootReads /\ Behind /\ SharedNone /\ HeapTold
  BY DEF AhciInv, DevmanInv, ScanInv
<1>2. /\ at.pc = "stop" /\ at.left # {} /\ Goto("configure")
      /\ port' = [port EXCEPT ![Port].st = FALSE, ![Port].fre = FALSE]
      /\ UNCHANGED <<table, drive, io, mem, disk, late, header, image, storages, highest, calls>>
  BY DEF StopPort, AhciPortStopCmd
<1>3. /\ at'.pc = "configure" /\ at'.left = at.left /\ Port' = Port
      /\ at'.i = at.i /\ at'.gpt = at.gpt
  BY <1>1, <1>2, GoesOn DEF Booting, Port
<1>4. \A p \in Ports : port'[p].ci = port[p].ci
  BY <1>1, <1>2 DEF AhciType, AhciHbaPort
<1>5. DiskKept /\ Ahead /\ OnlyReads /\ Places
  BY <1>1, <1>2 DEF BootReads, Booting
<1>6. OnlyReads'
  BY <1>2, <1>4, <1>5, OnlyReadsKept DEF LostAt
<1>7. \A p \in at.left : p \in Ports
  BY <1>1 DEF DevmanType, AtState, AhciProbe
<1>8. Ahead'
  BY <1>2, <1>3, <1>4, <1>5, <1>7 DEF Ahead, Fresh
<1>9. DiskKept' /\ HeaderAsked' /\ EntriesAsked' /\ HeaderLost' /\ HeaderStays'
  BY <1>2, <1>3, <1>5 DEF DiskKept, HeaderAsked, EntriesAsked, HeaderLost, HeaderStays
<1>10. Places'
  BY <1>2, <1>3, <1>5, PlacesKept DEF Entering
<1>11. SharedNone' /\ HeapTold' /\ Behind'
  BY <1>1, <1>2, <1>3, ToldKept DEF Entering
<1> QED BY <1>6, <1>8, <1>9, <1>10, <1>11 DEF ScanInv, BootReads

\* Configuring a port leaves what was read.
LEMMA ConfigurePortScan ==
  ASSUME AhciInv, DevmanInv, ScanInv, ConfigurePort
  PROVE  ScanInv'
<1>1. AhciType /\ DevmanType /\ BootReads /\ Behind /\ SharedNone /\ HeapTold
  BY DEF AhciInv, DevmanInv, ScanInv
<1>2. /\ at.pc = "configure" /\ Goto("add")
      /\ port' = [port EXCEPT ![Port].fre = TRUE, ![Port].st = TRUE]
      /\ \E f \in Frames :
           table' = [table EXCEPT ![Port] = [whole |-> f % Low = f, prdt |-> <<>>, fis |-> NoFis]]
      /\ UNCHANGED <<drive, io, mem, disk, late, header, image, storages, highest, calls>>
  BY DEF ConfigurePort, AhciPortConfigure
<1>3. /\ at'.pc = "add" /\ at'.left = at.left /\ Port' = Port
      /\ at'.i = at.i /\ at'.gpt = at.gpt
  BY <1>1, <1>2, GoesOn DEF Booting, Port
<1>4. \A p \in Ports : port'[p].ci = port[p].ci
  BY <1>1, <1>2 DEF AhciType, AhciHbaPort
<1>5. \A p \in Ports : table'[p] = table[p] \/ table'[p].fis = NoFis
  BY <1>1, <1>2 DEF AhciType
<1>6. DiskKept /\ Ahead /\ OnlyReads /\ Places
  BY <1>1, <1>2 DEF BootReads, Booting
<1>7. OnlyReads'
  BY <1>2, <1>4, <1>5, <1>6, OnlyReadsKept DEF LostAt
<1>8. \A p \in at.left : p \in Ports
  BY <1>1 DEF DevmanType, AtState, AhciProbe
<1>9. Ahead'
  BY <1>2, <1>3, <1>4, <1>6, <1>8 DEF Ahead, Fresh
<1>10. DiskKept' /\ HeaderAsked' /\ EntriesAsked' /\ HeaderLost' /\ HeaderStays'
  BY <1>2, <1>3, <1>6 DEF DiskKept, HeaderAsked, EntriesAsked, HeaderLost, HeaderStays
<1>11. Places'
  BY <1>2, <1>3, <1>6, PlacesKept DEF Entering
<1>12. SharedNone' /\ HeapTold' /\ Behind'
  BY <1>1, <1>2, <1>3, ToldKept DEF Entering
<1> QED BY <1>7, <1>9, <1>10, <1>11, <1>12 DEF ScanInv, BootReads

\* A new storage has no partitions, and its header was not read.
LEMMA DevmanAddStorageScan ==
  ASSUME AhciInv, DevmanInv, ScanInv, DevmanAddStorage
  PROVE  ScanInv'
<1> DEFINE e == [number |-> highest, port |-> Port, partitions |-> NoTable]
           n == highest + 1
<1>1. AhciType /\ DevmanType /\ LastStorage /\ BootReads /\ Behind /\ SharedNone /\ HeapTold
  BY DEF AhciInv, DevmanInv, ScanInv
<1>2. at.pc = "add" /\ AddStorage(Port) /\ UNCHANGED <<ahciVars, header, image, calls>>
  BY DEF DevmanAddStorage
<1>3. PICK pc \in {"header", "corrupt"} : Goto(pc)
  BY DEF DevmanAddStorage
<1>4. /\ at'.pc = pc /\ at'.left = at.left /\ Port' = Port
      /\ at'.i = at.i /\ at'.gpt = at.gpt
  BY <1>1, <1>3, GoesOn DEF Booting, Halted, Port
<1>5. DiskKept /\ Ahead /\ OnlyReads /\ Places
  BY <1>1, <1>2 DEF BootReads, Booting
<1>6. OnlyReads'
  BY <1>2, <1>5, OnlyReadsKept DEF LostAt, ahciVars
<1>7. pc = "header" => Ahead'
  BY <1>2, <1>4, <1>5 DEF Ahead, Fresh, ahciVars
<1>8. DiskKept' /\ HeaderAsked' /\ EntriesAsked' /\ HeaderLost' /\ HeaderStays'
  BY <1>2, <1>3, <1>4, <1>5
     DEF DiskKept, HeaderAsked, EntriesAsked, HeaderLost, HeaderStays, ahciVars
<1>9. Places'
  BY <1>2, <1>3, <1>4, <1>5, PlacesKept DEF Entering
<1>10. at.left # {} /\ Port \in Ports /\ Port \in at.left /\ highest \in Nat
  BY <1>1, <1>2, PortLeast DEF DevmanType, Booting
<1>11. /\ highest' = n /\ storages'.slots[n] = e
       /\ \A i \in 1 .. highest : storages'.slots[i] = storages.slots[i]
  <2>1. e \in Storage
    BY <1>10 DEF Storage, NoTable, PartitionTable
  <2>2. /\ storages.slots \in Seq(Storage) /\ Len(storages.slots) = highest
        /\ storages \in [slots : Seq(Storage), room : Nat]
        /\ storages.slots = <<>> => storages = NoTable
    BY <1>1, <1>10 DEF DevmanType
  <2>3. /\ storages' = PutEntry(IF storages = NoTable THEN FreshTable(NoEntry) ELSE storages, e)
        /\ highest' = n
    BY <1>2 DEF AddStorage
  <2> HIDE DEF e
  <2>4. storages'.slots = Append(storages.slots, e)
    BY <2>1, <2>2, <2>3, PutEntryLast
  <2>5. /\ Len(storages'.slots) = n /\ storages'.slots[n] = e
        /\ \A i \in 1 .. highest : storages'.slots[i] = storages.slots[i]
    BY <2>1, <2>2, <2>4, AppendProperties
  <2> QED BY <2>3, <2>5
<1>12. e.port = Port /\ e.partitions = NoTable /\ header[Port] = "unread"
  BY <1>2, <1>5, <1>10 DEF Places, Entering
<1> HIDE DEF e
<1>13. \A i \in 1 .. highest' : i # n => i \in 1 .. highest /\ storages'.slots[i] = storages.slots[i]
  BY <1>10, <1>11
<1>14. Behind'
  <2> SUFFICES ASSUME NEW i \in 1 .. highest' - 1
               PROVE  storages'.slots[i].port \notin at'.left
    BY DEF Behind
  <2>1. i \in 1 .. highest /\ (i = highest \/ i \in 1 .. highest - 1)
    BY <1>10, <1>11
  <2>2. i = highest => storages.slots[i].port \notin at.left
    <3> SUFFICES ASSUME i = highest, storages.slots[i].port \in at.left PROVE FALSE
      OBVIOUS
    <3>1. highest > 0
      BY <1>10, <2>1
    <3>2. storages.slots[highest].port < storages.slots[highest].port
      BY <1>1, <1>2, <3>1 DEF LastStorage
    <3>3. storages.slots[highest].port \in Nat
      BY <1>1, PortLeast DEF DevmanType
    <3> QED BY <3>2, <3>3
  <2> QED BY <1>1, <1>4, <1>11, <2>1, <2>2 DEF Behind
<1>15. SharedNone'
  <2>1. NoStrays' => NoStrays
    BY <1>2 DEF NoStrays, LostAt, ahciVars
  <2> SUFFICES ASSUME NoStrays, NEW i \in 1 .. highest',
                      LET s == storages'.slots[i]
                      IN  Answered(s.port) /\ header[s.port] \in {"unread", "shared"}
               PROVE  storages'.slots[i].partitions = NoTable
    BY <1>2, <2>1 DEF SharedNone, Answered, ahciVars
  <2> QED BY <1>1, <1>11, <1>12, <1>13 DEF SharedNone
<1>16. HeapTold'
  <2> SUFFICES ASSUME late = {}, NEW i \in 1 .. highest',
                      Answered(storages'.slots[i].port), header[storages'.slots[i].port] = "heap",
                      storages'.slots[i].port \notin at.left
               PROVE  TableTold(storages'.slots[i], PageSectors)
    BY <1>2, <1>3, <1>4 DEF HeapTold, Answered, TableTold, Registered, Entering, ahciVars
  <2>1. i # n
    BY <1>11, <1>12
  <2> QED BY <1>1, <1>13, <2>1 DEF HeapTold
<1> QED BY <1>3, <1>4, <1>6, <1>7, <1>8, <1>9, <1>14, <1>15, <1>16 DEF ScanInv, BootReads, Booting

\* The header is read while nothing else of the drive is going on.
LEMMA ReadHeaderScan ==
  ASSUME AhciInv, DevmanInv, ScanInv, ReadHeader
  PROVE  ScanInv'
<1>1. AhciType /\ DevmanType /\ BootReads /\ Behind /\ SharedNone /\ HeapTold
  BY DEF AhciInv, DevmanInv, ScanInv
<1>2. /\ at.pc = "header" /\ Goto("check")
      /\ UNCHANGED <<port, table, drive, disk, late, header, image, storages, highest, calls>>
  BY DEF ReadHeader
<1>3. /\ at'.pc = "check" /\ at'.left = at.left /\ Port' = Port
      /\ at'.i = at.i /\ at'.gpt = at.gpt
  BY <1>1, <1>2, GoesOn DEF Booting, Port
<1>4. io'.pc = "clear"
  BY ReadHeaderInv
<1>5. DiskKept /\ Ahead /\ OnlyReads /\ Places
  BY <1>1, <1>2 DEF BootReads, Booting
<1>6. OnlyReads'
  BY <1>2, <1>5, OnlyReadsKept DEF LostAt
<1>7. Ahead'
  BY <1>2, <1>3, <1>5 DEF Ahead, Fresh
<1>8. Port \notin late
  <2>1. Port \in at.left
    BY <1>1, <1>2, PortLeast DEF DevmanType, Booting
  <2> QED BY <1>2, <1>5, <2>1 DEF Ahead, Fresh
<1>9. DiskKept' /\ HeaderAsked' /\ EntriesAsked' /\ HeaderLost' /\ HeaderStays'
  BY <1>2, <1>3, <1>4, <1>5, <1>8 DEF DiskKept, HeaderAsked, EntriesAsked, HeaderLost, HeaderStays
<1>10. Places'
  BY <1>2, <1>3, <1>5, PlacesKept DEF Entering
<1>11. SharedNone' /\ HeapTold' /\ Behind'
  BY <1>1, <1>2, <1>3, ToldKept DEF Entering
<1> QED BY <1>6, <1>7, <1>9, <1>10, <1>11 DEF ScanInv, BootReads

\* The scan goes on after the header only when its drive has answered.
LEMMA CheckHeaderScan ==
  ASSUME AhciInv, DevmanInv, ScanInv, CheckHeader
  PROVE  ScanInv'
<1>1. AhciType /\ DevmanType /\ BootReads /\ Behind /\ SharedNone /\ HeapTold
  BY DEF AhciInv, DevmanInv, ScanInv
<1>2. at.pc = "check" /\ io.pc = "done" /\ UNCHANGED <<ahciVars, header, image, storages, highest, calls>>
  BY DEF CheckHeader
<1>3. PICK pc \in {"log", "panic"} : Goto(pc) /\ (pc = "log" => io.ok /\ HeaderKept)
  BY DEF CheckHeader, HeaderIsGpt, HeaderKept
<1>4. /\ at'.pc = pc /\ at'.left = at.left /\ Port' = Port
      /\ at'.i = at.i /\ at'.gpt = at.gpt
  BY <1>1, <1>3, GoesOn DEF Booting, Halted, Port
<1>5. DiskKept /\ Ahead /\ OnlyReads /\ HeaderAsked /\ Places
  BY <1>1, <1>2 DEF BootReads, Booting
<1>6. pc = "log" => OnlyReads'
  <2>1. pc = "log" => Fresh(Port)
    BY <1>2, <1>3, <1>5 DEF HeaderAsked
  <2> QED BY <1>2, <1>5, <2>1 DEF OnlyReads, Fresh, LostAt, ahciVars
<1>7. Ahead'
  BY <1>2, <1>3, <1>4, <1>5 DEF Ahead, Fresh, ahciVars
<1>8. DiskKept' /\ HeaderAsked' /\ EntriesAsked' /\ HeaderLost'
  BY <1>2, <1>3, <1>4, <1>5 DEF DiskKept, HeaderAsked, EntriesAsked, HeaderLost, ahciVars
<1>9. HeaderStays'
  BY <1>2, <1>3, <1>4 DEF HeaderStays, HeaderKept, ahciVars
<1>10. Places'
  BY <1>2, <1>3, <1>4, <1>5, PlacesKept DEF Entering
<1>11. SharedNone' /\ HeapTold' /\ Behind'
  BY <1>1, <1>2, <1>3, <1>4, ToldKept DEF Entering, ahciVars
<1> QED BY <1>3, <1>4, <1>6, <1>7, <1>8, <1>9, <1>10, <1>11 DEF ScanInv, BootReads, Booting

\* No partition is registered in a table that is not there.
LEMMA NoneRegistered ==
  ASSUME NEW s, s.partitions = NoTable
  PROVE  Registered(s) = {}
<1>1. ToSet(<<>>) = {}
  BY DEF ToSet
<1> QED BY <1>1 DEF Registered, NoTable

\* What becomes of the header's page is known before the first entry is read.
LEMMA LogHeaderScan ==
  ASSUME AhciInv, DevmanInv, ScanInv, LogHeader
  PROVE  ScanInv'
<1>1. /\ DevmanType /\ Numbered /\ LastStorage
      /\ BootReads /\ HeaderStays /\ Behind /\ SharedNone /\ HeapTold
  BY DEF DevmanInv, ScanInv
<1>2. at.pc = "log" /\ UNCHANGED <<ahciVars, image, storages, highest, calls>>
  BY DEF LogHeader
<1>3. PICK page \in {"shared", "heap", "lost"} :
        /\ header' = [header EXCEPT ![Port] = page]
        /\ at'.parts = IF page = "shared" THEN at.gpt ELSE OwnPage[Port]
  <2>1. at \in AtState
    BY <1>1 DEF DevmanType
  <2>2. \/ header' = [header EXCEPT ![Port] = "shared"] /\ at'.parts = at.gpt
        \/ \E page \in {"heap", "lost"} : /\ header' = [header EXCEPT ![Port] = page]
                                          /\ at'.parts = OwnPage[Port]
    BY <2>1 DEF LogHeader, AtState
  <2> QED BY <2>2
<1>4. /\ at'.left = at.left /\ at'.pc = "loop" /\ at'.i = at.i /\ at'.gpt = at.gpt
      /\ Port' = Port
  BY LogHeaderInv DEF Port
<1>5. DiskKept /\ Ahead /\ OnlyReads /\ Places
  BY <1>1, <1>2 DEF BootReads, Booting
<1>6. at.left # {} /\ Port \in at.left /\ Port \in AhciProbe /\ highest \in Nat /\ highest > 0
      /\ storages.slots[highest].port = Port
  BY <1>1, <1>2, PortLeast DEF DevmanType, Booting, LastStorage, Scanning
<1>7. header'[Port] = page /\ \A p \in AhciProbe : p # Port => header'[p] = header[p]
  BY <1>1, <1>3, <1>6 DEF DevmanType
<1>8. header[Port] = "unread" /\ at.i = 0
  BY <1>2, <1>5, <1>6 DEF Places, Entering
<1>9. \A p : LostAt(p) => LostAt(p)'
  BY <1>7, <1>8 DEF LostAt
<1>10. OnlyReads'
  BY <1>2, <1>5, <1>9, OnlyReadsKept DEF ahciVars
<1>11. Ahead'
  BY <1>2, <1>4, <1>5 DEF Ahead, Fresh, ahciVars
<1>12. DiskKept' /\ HeaderAsked' /\ EntriesAsked' /\ HeaderLost'
  BY <1>2, <1>4, <1>5 DEF DiskKept, HeaderAsked, EntriesAsked, HeaderLost, ahciVars
<1>13. HeaderStays'
  BY <1>1, <1>2, <1>4 DEF HeaderStays, HeaderKept, ahciVars
<1>14. Places'
  <2>1. \A p \in at.left : p \in AhciProbe
    BY <1>1 DEF DevmanType, AtState
  <2> QED BY <1>2, <1>3, <1>4, <1>5, <1>7, <2>1 DEF Places, Entering
<1>15. Behind'
  BY <1>1, <1>2, <1>4 DEF Behind
<1>16. ASSUME NEW i \in 1 .. highest
       PROVE  \/ i = highest
              \/ /\ storages.slots[i].port \notin at.left
                 /\ header'[storages.slots[i].port] = header[storages.slots[i].port]
  <2>1. i # highest => i \in 1 .. highest - 1
    BY <1>6
  <2>2. storages.slots[i].port \in AhciProbe
    BY <1>1 DEF Numbered
  <2> QED BY <1>1, <1>6, <1>7, <2>1, <2>2 DEF Behind
<1>17. NoStrays' => NoStrays
  BY <1>2, <1>9 DEF NoStrays, ahciVars
<1>18. SharedNone'
  <2> SUFFICES ASSUME NoStrays, NEW i \in 1 .. highest,
                      LET s == storages.slots[i]
                      IN  Answered(s.port) /\ header'[s.port] \in {"unread", "shared"}
               PROVE  storages.slots[i].partitions = NoTable
    BY <1>2, <1>17 DEF SharedNone, Answered, ahciVars
  <2> QED BY <1>1, <1>6, <1>8, <1>16 DEF SharedNone
<1>19. HeapTold'
  <2> SUFFICES ASSUME late = {}, NEW i \in 1 .. highest, Answered(storages.slots[i].port),
                      header'[storages.slots[i].port] = "heap"
               PROVE  LET s == storages.slots[i]
                      IN  /\ s.port \notin at.left => TableTold(s, PageSectors)
                          /\ i = highest => TableTold(s, Taken')
    BY <1>2, <1>4 DEF HeapTold, Answered, TableTold, Registered, ahciVars
  <2> DEFINE s == storages.slots[i]
  <2>1. CASE i = highest
    <3>1. s.partitions = NoTable
      BY <1>1, <1>6, <1>8, <2>1 DEF SharedNone, NoStrays
    <3>2. Registered(s) = {} /\ Taken' = 0
      BY <1>4, <1>8, <3>1, NoneRegistered DEF Taken
    <3>3. TableTold(s, 0)
      <4>1. \A id \in 0 .. PageSectors - 1 : ~(id < 0)
        OBVIOUS
      <4> QED BY <3>2, <4>1 DEF TableTold
    <3> QED BY <1>6, <2>1, <3>2, <3>3
  <2>2. CASE i # highest
    BY <1>1, <1>16, <2>2 DEF HeapTold
  <2> QED BY <2>1, <2>2
<1> QED BY <1>10, <1>11, <1>12, <1>13, <1>14, <1>15, <1>18, <1>19 DEF ScanInv, BootReads

\* The entries are read from where the header says, until there are no more.
LEMMA ReadEntriesScan ==
  ASSUME AhciInv, DevmanInv, ScanInv, ReadEntries
  PROVE  ScanInv'
<1>1. /\ DevmanType /\ Numbered /\ LastStorage
      /\ BootReads /\ HeaderStays /\ Behind /\ SharedNone /\ HeapTold
  BY DEF DevmanInv, ScanInv
<1>2. /\ at.pc = "loop"
      /\ UNCHANGED <<port, table, drive, mem, disk, late, header, image, storages, highest, calls>>
  BY DEF ReadEntries
<1>3. /\ at'.pc \in {"entry", "free", "fault"} /\ at'.left = at.left /\ at'.i = at.i
      /\ at'.gpt = at.gpt /\ at'.parts = at.parts /\ Port' = Port
      /\ at'.pc = "entry" => /\ io'.pc = "clear" /\ io'.count = PageSectors
                             /\ Lost \/ (io'.lba \in EntriesLba /\ at.i < image[Port].entries)
      /\ at'.pc = "free" => Lost \/ ~HeaderKept \/ at.i >= image[Port].entries
  BY ReadEntriesInv DEF Port
<1>4. DiskKept /\ Ahead /\ OnlyReads /\ Places
  BY <1>1, <1>2 DEF BootReads, Booting
<1>5. OnlyReads'
  BY <1>2, <1>4, OnlyReadsKept DEF LostAt
<1>6. Ahead'
  BY <1>2, <1>3, <1>4 DEF Ahead, Fresh
<1>7. DiskKept' /\ HeaderAsked' /\ HeaderLost'
  BY <1>2, <1>3, <1>4 DEF DiskKept, HeaderAsked, HeaderLost
<1>8. EntriesAsked'
  BY <1>2, <1>3 DEF EntriesAsked, EntriesLba, Lost
<1>9. HeaderStays'
  BY <1>1, <1>2, <1>3 DEF HeaderStays, HeaderKept
<1>10. Places' \/ at'.pc = "fault"
  BY <1>2, <1>3, <1>4 DEF Places, Entering
<1>11. CASE at'.pc # "free"
  <2>1. SharedNone' /\ HeapTold' /\ Behind'
    BY <1>1, <1>2, <1>3, <1>11, ToldKept DEF Entering, Taken
  <2> QED BY <1>3, <1>5, <1>6, <1>7, <1>8, <1>9, <1>10, <2>1 DEF ScanInv, BootReads, Booting
<1>12. CASE at'.pc = "free"
  <2>1. SharedNone' /\ Behind'
    BY <1>1, <1>2, <1>3 DEF SharedNone, NoStrays, LostAt, Answered, Behind
  <2>2. HeapTold'
    <3> SUFFICES ASSUME late = {}, NEW i \in 1 .. highest, Answered(storages.slots[i].port),
                        header[storages.slots[i].port] = "heap"
                 PROVE  LET s == storages.slots[i]
                        IN  /\ s.port \notin at.left => TableTold(s, PageSectors)
                            /\ i = highest => TableTold(s, PageSectors)
      BY <1>2, <1>3, <1>12 DEF HeapTold, Answered, TableTold, Registered, Taken
    <3> DEFINE s == storages.slots[i]
    <3>1. /\ s.port \notin at.left => TableTold(s, PageSectors)
          /\ i = highest => TableTold(s, at.i)
      BY <1>1, <1>2 DEF HeapTold, Entering, Taken
    <3>2. ASSUME i = highest
          PROVE  TableTold(s, PageSectors)
      <4>1. s.port = Port /\ header[Port] = "heap"
        BY <1>1, <1>2, <3>2 DEF LastStorage, Scanning
      <4>2. at.i >= image[Port].entries
        BY <1>1, <1>2, <1>3, <1>12, <4>1 DEF HeaderStays, Lost
      <4>3. /\ at.i \in Nat /\ PageSectors \in Nat
            /\ image[Port].entries \in Nat
        <5>1. Port \in AhciProbe
          BY <1>1, <1>2, PortLeast DEF DevmanType, Booting
        <5> QED BY <1>1, <5>1, ImagesAssumption, SlotsAssumption DEF DevmanType, AtState
      <4>4. \A id \in 0 .. PageSectors - 1 :
              (id < at.i /\ id < image[Port].entries) <=> (id < PageSectors /\ id < image[Port].entries)
        BY <4>2, <4>3
      <4> QED BY <3>1, <3>2, <4>1, <4>4 DEF TableTold
    <3> QED BY <3>1, <3>2
  <2> QED BY <1>3, <1>5, <1>6, <1>7, <1>8, <1>9, <1>10, <1>12, <2>1, <2>2 DEF ScanInv, BootReads
<1> QED BY <1>11, <1>12

\* What is known of an entry that a drive has answered with, if the heap has
\* taken the page of the header.
LEMMA EntryTold ==
  ASSUME AhciInv, DevmanInv, ScanInv, at.pc = "entry", io.pc = "done", late = {},
         header[Port] = "heap", ~drive[Port].halted
  PROVE  /\ HeaderKept /\ ~Lost /\ at.i < image[Port].entries
         /\ at.i < PageSectors =>
              EntryUsed = {image[Port].array + at.i \in image[Port].used}
<1>1. /\ AhciType /\ MovedSoFar /\ DevmanType /\ Waiting
      /\ BootReads /\ HeaderLost /\ HeaderStays
  BY DEF AhciInv, DevmanInv, ScanInv
<1>2. DiskKept /\ EntriesAsked /\ Places
  BY <1>1 DEF BootReads, Booting
<1>3. HeaderKept /\ ~Lost /\ io.ok
  BY <1>1 DEF HeaderStays, HeaderLost, Lost
<1>4. /\ io.count = PageSectors /\ io.lba = image[Port].array + at.i \div PageSectors
      /\ at.i < image[Port].entries /\ io.buf = at.parts /\ io.port = Port
  BY <1>1, <1>2, <1>3 DEF EntriesAsked, Waiting
<1>5. SUFFICES ASSUME at.i < PageSectors
               PROVE  EntryUsed = {image[Port].array + at.i \in image[Port].used}
  BY <1>3, <1>4
<1>6. Port \in AhciProbe /\ Port \in Ports /\ at.i \in Nat
  BY <1>1, PortLeast DEF DevmanType, AtState, Booting
<1>7. PageSectors \in Nat /\ PageSectors > 0 /\ PageSectors <= Unit
  BY SlotsAssumption
<1>8. /\ image[Port].array \in Nat /\ image[Port].array # 0 /\ image[Port].array # 1
  <2>1. image[Port] \in Images
    BY <1>1, <1>6 DEF DevmanType
  <2> QED BY <2>1, ImagesAssumption, SectorsAssumption
<1>9. at.i \div PageSectors = 0 /\ EntryPlace(at.i) = at.i
  <2> DEFINE q == at.i \div PageSectors
             r == at.i % PageSectors
  <2>1. at.i = PageSectors * q + r /\ q \in Nat /\ r \in 0 .. PageSectors - 1
    BY <1>6, <1>7, DivMod
  <2>2. at.i < PageSectors * 1 => q < 1
    BY <1>6, <1>7, DivBound
  <2> HIDE DEF q, r
  <2>3. q = 0
    BY <1>5, <1>7, <2>1, <2>2
  <2>4. r = at.i
    BY <1>7, <2>1, <2>3
  <2> QED BY <2>3, <2>4 DEF q, r, EntryPlace
<1>10. Residue(PageSectors) = PageSectors
  BY <1>7, ResidueRange
<1> DEFINE c == image[Port].array + at.i
<1>11. c \in Sectors /\ mem[at.parts][at.i] = c
  <2>1. Moved(PageSectors)
    BY <1>1, <1>3, <1>4, <1>10 DEF MovedSoFar
  <2>2. at.i \in 0 .. PageSectors - 1 /\ io.lba + at.i = c
    BY <1>4, <1>5, <1>6, <1>7, <1>8, <1>9
  <2>3. c \in Sectors /\ mem[at.parts][at.i] = disk[Port][c]
    BY <1>4, <2>1, <2>2 DEF Moved
  <2> QED BY <1>2, <1>6, <2>3 DEF DiskKept
<1>12. c \in Nat /\ c # 0 /\ c # 1 /\ c # Zero
  BY <1>6, <1>8 DEF Zero
<1> HIDE DEF c
<1>13. ~Unknown(c) /\ (Used(c) <=> c \in image[Port].used)
  BY <1>12 DEF Unknown, Used
<1>14. EntryUsed = {Used(c)}
  BY <1>3, <1>9, <1>11, <1>13 DEF EntryUsed
<1>15. Used(c) \in BOOLEAN
  BY DEF Used
<1> QED BY <1>13, <1>14, <1>15 DEF c

\* A partition is added only as its entry says, if the heap has the header.  If
\* the header is in the page of the entries, none is added of those that were
\* read well.
LEMMA TakeEntryScan ==
  ASSUME AhciInv, DevmanInv, ScanInv, TakeEntry
  PROVE  ScanInv'
<1>1. /\ DevmanType /\ Numbered /\ LastStorage /\ BootReads
      /\ HeaderLost /\ HeaderStays /\ Behind /\ SharedNone /\ HeapTold
  BY DEF DevmanInv, ScanInv
<1>2. at.pc = "entry" /\ io.pc = "done" /\ UNCHANGED <<ahciVars, image, highest, calls>>
  BY DEF TakeEntry
<1>3. /\ at'.left = at.left /\ at'.pc \in {"loop", "fault", "corrupt"}
      /\ at'.gpt = at.gpt /\ at'.parts = at.parts /\ Port' = Port
      /\ \A i \in 1 .. highest - 1 : storages'.slots[i] = storages.slots[i]
      /\ ~MayDivide => UNCHANGED storages
      /\ UNCHANGED header \/ (header[Port] = "heap" /\ header' = [header EXCEPT ![Port] = "lost"])
  BY TakeEntryInv DEF Port
<1>4. DiskKept /\ Ahead /\ OnlyReads /\ Places
  BY <1>1, <1>2 DEF BootReads, Booting
<1>5. /\ at.left # {} /\ Port \in at.left /\ Port \in AhciProbe /\ Port \in Ports
      /\ highest \in Nat /\ highest > 0 /\ storages.slots[highest].port = Port
      /\ Drive \in 0 .. highest - 1 /\ Drive + 1 = highest /\ at.i \in Nat
      /\ at.left \in SUBSET AhciProbe
  BY <1>1, <1>2, PortLeast DEF DevmanType, AtState, Booting, LastStorage, Scanning, Drive
<1>6. /\ header'[Port] = header[Port] \/ (header[Port] = "heap" /\ header'[Port] = "lost")
      /\ \A p \in AhciProbe : p # Port => header'[p] = header[p]
  BY <1>1, <1>3, <1>5 DEF DevmanType
<1>7. \A p : LostAt(p) => LostAt(p)'
  BY <1>6 DEF LostAt
<1>8. OnlyReads'
  BY <1>2, <1>4, <1>7, OnlyReadsKept DEF ahciVars
<1>9. Ahead'
  BY <1>2, <1>3, <1>4 DEF Ahead, Fresh, ahciVars
<1>10. DiskKept' /\ HeaderAsked' /\ EntriesAsked' /\ HeaderLost'
  BY <1>2, <1>3, <1>4 DEF DiskKept, HeaderAsked, EntriesAsked, HeaderLost, ahciVars
<1>11. HeaderStays'
  BY <1>1, <1>2, <1>3, <1>6 DEF HeaderStays, HeaderKept, ahciVars
<1>12. Places' \/ at'.pc # "loop"
  BY <1>2, <1>3, <1>4, <1>5, <1>6 DEF Places, Entering
<1>13. \/ UNCHANGED storages
       \/ /\ storages'.slots[highest].port = Port
          /\ Registered(storages'.slots[highest])
               = Registered(storages.slots[highest]) \cup {at.i}
          /\ TRUE \in EntryUsed
  <2>1. ASSUME AddPartition(Drive, at.i)
        PROVE  /\ storages'.slots[highest].port = Port
               /\ Registered(storages'.slots[highest])
                    = Registered(storages.slots[highest]) \cup {at.i}
    BY <1>1, <1>5, <2>1, AddPartitionLast
  <2> QED BY <2>1 DEF TakeEntry
<1>14. storages'.slots[highest].port = Port
  BY <1>5, <1>13
<1>15. ASSUME NEW i \in 1 .. highest
       PROVE  \/ i = highest
              \/ /\ storages.slots[i].port \notin at.left
                 /\ header'[storages.slots[i].port] = header[storages.slots[i].port]
                 /\ storages'.slots[i] = storages.slots[i]
  <2>1. i # highest => i \in 1 .. highest - 1
    BY <1>5
  <2>2. storages.slots[i].port \in AhciProbe
    BY <1>1 DEF Numbered
  <2> QED BY <1>1, <1>3, <1>5, <1>6, <2>1, <2>2 DEF Behind
<1>16. Behind'
  BY <1>1, <1>2, <1>3 DEF Behind
<1>17. NoStrays' => NoStrays
  BY <1>2, <1>7 DEF NoStrays, ahciVars
<1>18. SharedNone'
  <2> SUFFICES ASSUME NoStrays, NEW i \in 1 .. highest,
                      LET s == storages'.slots[i]
                      IN  Answered(s.port) /\ header'[s.port] \in {"unread", "shared"}
               PROVE  storages'.slots[i].partitions = NoTable
    BY <1>2, <1>17 DEF SharedNone, Answered, ahciVars
  <2>1. CASE i = highest
    <3>1. Answered(Port) /\ header[Port] \in {"unread", "shared"}
      BY <1>6, <1>14, <2>1
    <3>2. header[Port] = "shared"
      BY <1>2, <1>4, <3>1 DEF Places, Entering
    <3>3. ~HeaderKept /\ ~Lost
      BY <1>1, <1>2, <3>1, <3>2 DEF HeaderLost, Answered, Lost
    <3>4. UNCHANGED storages
      BY <1>3, <3>3 DEF MayDivide
    <3> QED BY <1>1, <1>5, <2>1, <3>1, <3>4 DEF SharedNone
  <2>2. CASE i # highest
    BY <1>1, <1>15, <2>2 DEF SharedNone
  <2> QED BY <2>1, <2>2
<1>19. HeapTold'
  <2> SUFFICES ASSUME late = {}, NEW i \in 1 .. highest, Answered(storages'.slots[i].port),
                      header'[storages'.slots[i].port] = "heap"
               PROVE  LET s == storages'.slots[i]
                      IN  /\ s.port \notin at.left => TableTold(s, PageSectors)
                          /\ i = highest /\ at'.pc = "loop" => TableTold(s, at'.i)
    BY <1>2, <1>3 DEF HeapTold, Answered, TableTold, Registered, Entering, Taken, ahciVars
  <2>1. CASE i # highest
    BY <1>1, <1>15, <2>1 DEF HeapTold
  <2>2. CASE i = highest
    <3> DEFINE s == storages.slots[highest]
               t == storages'.slots[highest]
               gpt == image[Port]
    <3>1. t.port = Port /\ s.port = Port /\ Answered(Port) /\ header[Port] = "heap"
      BY <1>5, <1>6, <1>14, <2>2
    <3>2. /\ HeaderKept /\ ~Lost /\ at.i < gpt.entries
          /\ at.i < PageSectors => EntryUsed = {gpt.array + at.i \in gpt.used}
      BY <1>2, <3>1, EntryTold DEF Answered
    <3>3. TableTold(s, at.i)
      BY <1>1, <1>2, <1>5, <3>1 DEF HeapTold, Entering, Taken
    <3> SUFFICES ASSUME at'.pc = "loop" PROVE TableTold(t, at'.i)
      BY <1>5, <2>2, <3>1
    <3>4. /\ at'.i = at.i + 1
          /\ \/ FALSE \in EntryUsed /\ Registered(t) = Registered(s)
             \/ TRUE \in EntryUsed /\ Registered(t) = Registered(s) \cup {at.i}
      <4>1. at \in AtState
        BY <1>1 DEF DevmanType
      <4>2. at'.i = at.i + 1
        BY <4>1 DEF TakeEntry, NextEntry, Goto, AtState
      <4>3. \/ FALSE \in EntryUsed /\ UNCHANGED storages
            \/ TRUE \in EntryUsed /\ AddPartition(Drive, at.i)
        BY <3>2 DEF TakeEntry, MayFault
      <4>4. AddPartition(Drive, at.i) => Registered(t) = Registered(s) \cup {at.i}
        BY <1>1, <1>5, AddPartitionLast
      <4> QED BY <4>2, <4>3, <4>4
    <3> DEFINE R == Registered(s)
               S == Registered(t)
    <3>5. \A id \in 0 .. PageSectors - 1 :
            id \in R <=> id < at.i /\ id < gpt.entries /\ gpt.array + id \in gpt.used
      BY <3>1, <3>3 DEF TableTold
    <3>6. SUFFICES ASSUME NEW id \in 0 .. PageSectors - 1
                   PROVE  id \in S <=> id < at.i + 1 /\ id < gpt.entries
                                       /\ gpt.array + id \in gpt.used
      BY <3>1, <3>4 DEF TableTold
    <3>7. CASE id = at.i
      <4>1. PageSectors \in Nat
        BY SlotsAssumption
      <4>2. at.i < PageSectors /\ ~(id < at.i) /\ id < at.i + 1
        BY <1>5, <3>7, <4>1
      <4>3. EntryUsed = {gpt.array + id \in gpt.used} /\ id \notin R /\ id < gpt.entries
        BY <3>2, <3>5, <3>7, <4>2
      <4>4. (FALSE \in EntryUsed => gpt.array + id \notin gpt.used)
            /\ (TRUE \in EntryUsed => gpt.array + id \in gpt.used)
        BY <4>3
      <4> QED BY <3>4, <3>7, <4>2, <4>3, <4>4
    <3>8. CASE id # at.i
      <4>1. id \in S <=> id \in R
        BY <3>4, <3>8
      <4>2. id < at.i + 1 <=> id < at.i
        BY <1>5, <3>8
      <4> QED BY <3>5, <4>1, <4>2
    <3> QED BY <3>7, <3>8
  <2> QED BY <2>1, <2>2
<1> QED BY <1>3, <1>8, <1>9, <1>10, <1>11, <1>12, <1>16, <1>18, <1>19
        DEF ScanInv, BootReads, Booting

\* The scan goes on with the next port, and leaves what was read.
LEMMA NextPortScan ==
  ASSUME AhciInv, DevmanInv, ScanInv, NextPort
  PROVE  ScanInv'
<1>1. /\ DevmanType /\ Numbered /\ LastStorage
      /\ BootReads /\ Behind /\ SharedNone /\ HeapTold
  BY DEF DevmanInv, ScanInv
<1>2. /\ at.pc = "free"
      /\ at' = [pc |-> "stop", left |-> at.left \ {Port}, i |-> 0,
                gpt |-> at.parts, parts |-> at.parts]
      /\ UNCHANGED <<ahciVars, header, image, storages, highest, calls>>
  BY DEF NextPort
<1>3. DiskKept /\ Ahead /\ OnlyReads /\ Places
  BY <1>1, <1>2 DEF BootReads, Booting
<1>4. OnlyReads'
  BY <1>2, <1>3, OnlyReadsKept DEF LostAt, ahciVars
<1>5. Ahead'
  BY <1>2, <1>3 DEF Ahead, Fresh, ahciVars
<1>6. DiskKept' /\ HeaderAsked' /\ EntriesAsked' /\ HeaderLost' /\ HeaderStays'
  BY <1>2, <1>3
     DEF DiskKept, HeaderAsked, EntriesAsked, HeaderLost, HeaderStays, ahciVars
<1>7. /\ Port \in at.left /\ Port \in Ports /\ at.left \in SUBSET Ports
      /\ highest \in Nat /\ highest > 0
  BY <1>1, <1>2, PortLeast DEF DevmanType, AtState, Booting, LastStorage, Scanning, AhciProbe
<1>8. Places'
  <2>1. at'.pc = "stop" /\ at'.left = at.left \ {Port} /\ at'.i = 0 /\ at'.gpt = at.parts
    BY <1>2
  <2>2. \A p \in at'.left : at'.gpt # OwnPage[p]
    <3> SUFFICES ASSUME NEW p \in at.left, p # Port PROVE at.parts # OwnPage[p]
      BY <2>1
    <3>1. at.gpt # OwnPage[p] /\ OwnPage[Port] # OwnPage[p]
      BY <1>3, <1>7, BuffersAssumption DEF Places
    <3> QED BY <1>2, <1>3, <3>1 DEF Places, Entering
  <2>3. \A p \in at'.left : header'[p] = "unread"
    BY <1>2, <1>3, <2>1 DEF Places
  <2> QED BY <2>1, <2>2, <2>3 DEF Places, Entering
<1>9. SharedNone' /\ Behind'
  BY <1>1, <1>2 DEF SharedNone, NoStrays, LostAt, Answered, Behind, ahciVars
<1>10. HeapTold'
  <2> SUFFICES ASSUME late = {}, NEW i \in 1 .. highest, Answered(storages.slots[i].port),
                      header[storages.slots[i].port] = "heap",
                      storages.slots[i].port \notin at.left \ {Port}
               PROVE  TableTold(storages.slots[i], PageSectors)
    BY <1>2 DEF HeapTold, Answered, TableTold, Registered, Entering, ahciVars
  <2>1. CASE i = highest
    BY <1>1, <1>2, <2>1 DEF HeapTold, Entering, Taken
  <2>2. CASE i # highest
    <3>1. i \in 1 .. highest - 1
      BY <1>7, <2>2
    <3> QED BY <1>1, <3>1 DEF HeapTold, Behind
  <2> QED BY <2>1, <2>2
<1> QED BY <1>4, <1>5, <1>6, <1>8, <1>9, <1>10 DEF ScanInv, BootReads

\* The end of the boot leaves what was read.
LEMMA BootDoneScan ==
  ASSUME AhciInv, DevmanInv, ScanInv, BootDone
  PROVE  ScanInv'
<1>1. DevmanType /\ Behind /\ SharedNone /\ HeapTold
  BY DEF DevmanInv, ScanInv
<1>2. Goto("run") /\ UNCHANGED <<ahciVars, header, image, storages, highest, calls>>
  BY DEF BootDone
<1>3. at'.pc = "run" /\ at'.left = at.left
  BY <1>1, <1>2, GoesOn
<1>4. SharedNone' /\ HeapTold' /\ Behind'
  BY <1>1, <1>2, <1>3, ToldKept DEF Entering, ahciVars
<1> QED BY <1>3, <1>4 DEF ScanInv, BootReads, HeaderLost, HeaderStays, Booting

-----------------------------------------------------------------------------
(***************************************************************************)
(* The scan: the steps of the driver and of the drives.                    *)
(***************************************************************************)

\* What a step of the driver does to the registers and to the table.
LEMMA IoStepTouches ==
  ASSUME AhciInv, IoStep, NEW p, p = io.port
  PROVE  /\ p \in Ports
         /\ \A q \in Ports : q # p => port'[q] = port[q] /\ table'[q] = table[q]
         /\ \/ /\ port'[p].ci = port[p].ci /\ io'.pc # "spin"
               /\ \/ table'[p] = table[p] \/ table'[p].fis = NoFis
                  \/ table'[p].fis = [cmd |-> IF io.write THEN "write" ELSE "read",
                                      lba |-> io.lba, count |-> Residue(io.count)]
            \/ io.pc = "issue" /\ io'.pc = "spin" /\ port'[p].ci /\ table' = table
<1>1. AhciType /\ io.pc \in Loading /\ io \in IoState
  BY IoStepInv DEF AhciInv, AhciType
<1>2. p \in Ports
  BY <1>1 DEF AhciType
<1>3. CASE ClearInterrupts
  <2>1. io'.pc = "wait"
    BY <1>1, <1>3, IoGoesOn DEF ClearInterrupts, Loading
  <2> QED BY <1>1, <1>2, <1>3, <2>1 DEF ClearInterrupts, AhciType, AhciHbaPort
<1>4. CASE WaitReady
  <2>1. io'.pc \in {"table", "done"}
    BY <1>1, <1>4, IoGoesOn, IoReturns DEF WaitReady, Loading
  <2> QED BY <1>2, <1>4, <2>1 DEF WaitReady
<1>5. CASE FillTable
  <2>1. io'.pc = "fis"
    BY <1>1, <1>5, IoGoesOn DEF FillTable, Loading
  <2> QED BY <1>1, <1>2, <1>5, <2>1 DEF FillTable, AhciType
<1>6. CASE FillForeign
  <2>1. io'.pc = "corrupt"
    BY <1>6, FillForeignInv
  <2> QED BY <1>2, <1>6, <2>1 DEF FillForeign
<1>7. CASE FillFis
  <2> DEFINE f == [cmd |-> IF io.write THEN "write" ELSE "read",
                   lba |-> io.lba, count |-> Residue(io.count)]
             x == [table[p] EXCEPT !.fis = f]
  <2>1. io'.pc = "issue"
    BY <1>1, <1>7, IoGoesOn DEF FillFis, Loading
  <2>2. table' = [table EXCEPT ![p] = x]
    BY <1>1, <1>2, <1>7 DEF FillFis, AhciType
  <2>3. x.fis = f
    BY <1>1, <1>2 DEF AhciType, Transfer
  <2> HIDE DEF x
  <2>4. table'[p] = x /\ \A q \in Ports : q # p => table'[q] = table[q]
    BY <1>1, <1>2, <2>2 DEF AhciType
  <2>5. UNCHANGED port
    BY <1>7 DEF FillFis
  <2> QED BY <1>2, <2>1, <2>3, <2>4, <2>5
<1>8. CASE Issue
  <2>1. io'.pc = "spin"
    BY <1>1, <1>8, IoGoesOn DEF Issue, Loading
  <2> QED BY <1>1, <1>2, <1>8, <2>1 DEF Issue, AhciType, AhciHbaPort
<1>9. CASE Spin
  <2>1. io'.pc = "done"
    <3> DEFINE ok == ~port[io.port].ci /\ ~port[io.port].tfes
               no == FALSE
    <3>1. ok \in BOOLEAN /\ no \in BOOLEAN
      OBVIOUS
    <3>2. Return(ok) \/ Return(no)
      BY <1>9 DEF Spin
    <3> HIDE DEF ok, no
    <3> QED BY <1>1, <3>1, <3>2, IoReturns
  <2> QED BY <1>2, <1>9, <2>1 DEF Spin
<1> QED BY <1>3, <1>4, <1>5, <1>6, <1>7, <1>8, <1>9 DEF IoStep

\* How a call of the driver returns.
LEMMA IoStepReturns ==
  ASSUME AhciInv, IoStep, NEW p, p = io.port
  PROVE  /\ io'.pc # "done" => UNCHANGED late
         /\ io'.pc = "done" =>
              /\ UNCHANGED port
              /\ \/ io.pc = "wait" /\ port[p].bsy /\ ~io'.ok /\ UNCHANGED late
                 \/ /\ io.pc = "spin" /\ UNCHANGED late
                    /\ \/ port[p].tfes /\ ~io'.ok
                       \/ ~port[p].ci /\ ~port[p].tfes /\ io'.ok
                 \/ io.pc = "spin" /\ ~io'.ok /\ p \in late'
<1>1. AhciType /\ io \in IoState /\ io.pc \in Loading /\ p \in Ports
  BY IoStepTouches, IoStepInv DEF AhciInv, AhciType
<1>2. CASE ClearInterrupts \/ FillTable \/ FillForeign \/ FillFis \/ Issue
  <2>1. \E pc \in Loading \cup {"corrupt"} : IoTo(pc)
    BY <1>2 DEF ClearInterrupts, FillTable, FillForeign, FillFis, Issue, Loading
  <2>2. io'.pc # "done"
    BY <1>1, <2>1, IoGoesOn DEF Loading
  <2> QED BY <1>2, <2>2 DEF ClearInterrupts, FillTable, FillForeign, FillFis, Issue
<1>3. CASE WaitReady
  <2> DEFINE no == FALSE
  <2>1. no \in BOOLEAN /\ ~no
    OBVIOUS
  <2>2. io.pc = "wait" /\ UNCHANGED <<port, late>> /\ (IoTo("table") \/ (port[p].bsy /\ Return(no)))
    BY <1>3 DEF WaitReady
  <2> HIDE DEF no
  <2>3. io'.pc = "table" \/ (port[p].bsy /\ io'.pc = "done" /\ ~io'.ok)
    BY <1>1, <2>1, <2>2, IoGoesOn, IoReturns DEF Loading
  <2> QED BY <2>2, <2>3
<1>4. CASE Spin
  <2> DEFINE ok == ~port[p].ci /\ ~port[p].tfes
             no == FALSE
  <2>1. ok \in BOOLEAN /\ no \in BOOLEAN /\ ~no
    OBVIOUS
  <2>2. /\ io.pc = "spin" /\ UNCHANGED port
        /\ \/ (~port[p].ci \/ port[p].tfes) /\ Return(ok) /\ UNCHANGED late
           \/ Return(no) /\ late' = late \cup {p}
    BY <1>4 DEF Spin
  <2>3. CASE (~port[p].ci \/ port[p].tfes) /\ Return(ok) /\ UNCHANGED late
    <3> HIDE DEF ok
    <3>1. io'.pc = "done" /\ io'.ok = ok
      BY <1>1, <2>1, <2>3, IoReturns
    <3>2. ok <=> ~port[p].ci /\ ~port[p].tfes
      BY DEF ok
    <3>3. CASE port[p].tfes
      BY <2>2, <2>3, <3>1, <3>2, <3>3
    <3>4. CASE ~port[p].tfes /\ ~port[p].ci
      BY <2>2, <2>3, <3>1, <3>2, <3>4
    <3> QED BY <2>3, <3>3, <3>4
  <2>4. CASE Return(no) /\ late' = late \cup {p}
    <3> HIDE DEF no
    <3>1. io'.pc = "done" /\ io'.ok = no
      BY <1>1, <2>1, <2>4, IoReturns
    <3> QED BY <2>1, <2>2, <2>4, <3>1
  <2> QED BY <2>2, <2>3, <2>4
<1> QED BY <1>2, <1>3, <1>4 DEF IoStep

\* A step of the driver: it is called for the header or for the entries.
LEMMA DriverStepScan ==
  ASSUME AhciInv, DevmanInv, ScanInv, DriverStep
  PROVE  ScanInv'
<1> DEFINE p == io.port
<1>1. AhciType /\ PortAndDrive /\ OnlyItsCommand /\ DevmanType /\ Waiting
      /\ BootReads /\ HeaderLost /\ HeaderStays /\ Behind /\ SharedNone /\ HeapTold
      /\ CommandBuilt
  BY DEF AhciInv, DevmanInv, ScanInv
<1>2. IoStep /\ UNCHANGED <<at, header, image, storages, highest, calls>>
  BY DEF DriverStep, devmanVars
<1>3. /\ io.pc \in Loading /\ io'.pc \in Loading \cup {"done", "corrupt"}
      /\ io'.lba = io.lba /\ io'.count = io.count
      /\ UNCHANGED <<drive, mem, disk>> /\ late \subseteq late'
  BY <1>2, IoStepInv
<1>4. SharedNone' /\ HeapTold' /\ Behind' /\ HeaderStays' /\ Port' = Port
  <2>1. SharedNone' /\ HeapTold' /\ Behind'
    BY <1>1, <1>2, <1>3, ToldKept DEF Taken
  <2>2. HeaderStays' /\ Port' = Port
    BY <1>1, <1>2, <1>3 DEF HeaderStays, HeaderKept, Port
  <2> QED BY <2>1, <2>2
<1>5. CASE at.pc \notin Booting
  <2>1. at'.pc \notin Booting /\ at'.pc # "entry"
    BY <1>2, <1>5 DEF Booting
  <2> QED BY <1>4, <2>1 DEF ScanInv, BootReads, HeaderLost
<1>6. CASE at.pc \in Booting
  <2>1. at.pc \in {"check", "entry"} /\ p = Port /\ ~io.write
    BY <1>1, <1>3, <1>6 DEF Waiting, Loading, Booting
  <2>2. /\ DiskKept /\ Ahead /\ OnlyReads /\ HeaderAsked /\ EntriesAsked /\ Places
    BY <1>1, <1>6 DEF BootReads
  <2>3. /\ p \in Ports
        /\ \A q \in Ports : q # p => port'[q] = port[q] /\ table'[q] = table[q]
        /\ \/ /\ port'[p].ci = port[p].ci /\ io'.pc # "spin"
              /\ \/ table'[p] = table[p] \/ table'[p].fis = NoFis
                 \/ table'[p].fis = [cmd |-> IF io.write THEN "write" ELSE "read",
                                     lba |-> io.lba, count |-> Residue(io.count)]
           \/ io.pc = "issue" /\ io'.pc = "spin" /\ port'[p].ci /\ table' = table
    BY <1>2, IoStepTouches
  <2>4. /\ io'.pc # "done" => UNCHANGED late
        /\ io'.pc = "done" =>
             /\ UNCHANGED port
             /\ \/ io.pc = "wait" /\ port[p].bsy /\ ~io'.ok /\ UNCHANGED late
                \/ /\ io.pc = "spin" /\ UNCHANGED late
                   /\ \/ port[p].tfes /\ ~io'.ok
                      \/ ~port[p].ci /\ ~port[p].tfes /\ io'.ok
                \/ io.pc = "spin" /\ ~io'.ok /\ p \in late'
    BY <1>2, IoStepReturns
  <2> HIDE DEF p
  <2>5. at.pc = "entry" /\ ~LostAt(p) => io.lba >= 2
    <3> SUFFICES ASSUME at.pc = "entry", ~LostAt(p) PROVE io.lba >= 2
      OBVIOUS
    <3>1. Port \in AhciProbe /\ at.i \in Nat
      BY <1>1, PortLeast DEF DevmanType, AtState, Booting
    <3>2. io.lba = image[Port].array + at.i \div PageSectors
      BY <2>1, <2>2, <3>1 DEF EntriesAsked, Lost, LostAt
    <3>3. at.i \div PageSectors \in Nat
      BY <3>1, SlotsAssumption, DivMod
    <3>4. image[Port].array \in Nat /\ image[Port].array # 0 /\ image[Port].array # 1
      <4>1. image[Port] \in Images
        BY <1>1, <3>1 DEF DevmanType
      <4> QED BY <4>1, ImagesAssumption, SectorsAssumption
    <3> QED BY <3>2, <3>3, <3>4
  <2>6. io.pc = "issue" => Reads(table[p]) /\ (at.pc = "entry" /\ ~LostAt(p) => Far(table[p]))
    BY <1>1, <2>1, <2>2, <2>5 DEF CommandBuilt, AsksIo, Reads, Far, p
  <2>7. port'[p].ci => \/ port[p].ci /\ table'[p] = table[p]
                       \/ /\ Reads(table'[p])
                          /\ at.pc = "entry" /\ ~LostAt(p) => Far(table'[p])
    <3>1. CASE table'[p].fis = NoFis
      BY <3>1 DEF Reads, Far, NoFis
    <3>2. CASE table'[p].fis = [cmd |-> IF io.write THEN "write" ELSE "read",
                                lba |-> io.lba, count |-> Residue(io.count)]
      BY <2>1, <2>5, <3>2 DEF Reads, Far
    <3>3. CASE io.pc = "issue" /\ table' = table
      BY <2>6, <3>3
    <3> QED BY <2>3, <3>1, <3>2, <3>3
  <2>8. OnlyReads'
    BY <1>2, <1>3, <1>4, <2>1, <2>2, <2>3, <2>7 DEF OnlyReads, LostAt
  <2>9. Ahead'
    <3>1. \A q \in at.left : q \in Ports
      BY <1>1 DEF DevmanType, AtState, AhciProbe
    <3>2. ASSUME NEW q \in at.left, q # Port, Fresh(q)
          PROVE  Fresh(q)'
      <4>1. q \notin late'
        <5>1. late' \subseteq late \cup {p}
          BY <1>2 DEF IoStep, ClearInterrupts, WaitReady, FillTable, FillForeign, FillFis,
               Issue, Spin, p
        <5> QED BY <2>1, <3>2, <5>1 DEF Fresh
      <4> QED BY <1>3, <2>1, <2>3, <3>1, <3>2, <4>1 DEF Fresh
    <3> QED BY <1>2, <1>4, <2>1, <2>2, <3>2 DEF Ahead
  <2>10. DiskKept' /\ EntriesAsked' /\ Places'
    BY <1>2, <1>3, <1>4, <2>2 DEF DiskKept, EntriesAsked, Lost, Places
  <2>11. ASSUME Port \notin late
         PROVE  ~drive[p].busy \/ io.pc = "spin"
    BY <1>1, <2>1, <2>3, <2>11 DEF PortAndDrive, OnlyItsCommand
  <2>12. HeaderAsked'
    <3> SUFFICES ASSUME at.pc = "check"
                 PROVE  /\ Port \notin late' \/ (io'.pc = "done" /\ ~io'.ok)
                        /\ io'.pc = "done" /\ io'.ok => Fresh(Port)'
      BY <1>2, <1>4 DEF HeaderAsked
    <3>1. Port \notin late
      BY <1>3, <2>2 DEF HeaderAsked, Loading
    <3>2. io'.pc = "done" /\ io'.ok => Fresh(Port)'
      <4> SUFFICES ASSUME io'.pc = "done", io'.ok PROVE Fresh(Port)'
        OBVIOUS
      <4>1. UNCHANGED <<port, late>> /\ ~port[p].ci
        BY <2>4
      <4>2. ~drive[p].busy /\ ~drive[p].halted
        BY <1>1, <2>3, <4>1 DEF PortAndDrive
      <4> QED BY <1>3, <1>4, <2>1, <3>1, <4>1, <4>2 DEF Fresh
    <3> QED BY <2>1, <2>4, <3>1, <3>2
  <2>13. HeaderLost'
    <3> DEFINE none == header[Port] = "shared" /\ NoStrays
    <3> SUFFICES ASSUME at.pc = "entry", Port \notin late'
                 PROVE  /\ none /\ io'.pc = "spin" /\ drive[Port].busy /\ drive[Port].moved >= 2
                              => ~HeaderKept
                        /\ none /\ io'.pc = "spin" /\ ~port'[Port].ci => ~HeaderKept
                        /\ io'.pc = "done" =>
                             drive[Port].halted \/ (io'.ok /\ (none => ~HeaderKept))
      BY <1>2, <1>3, <1>4 DEF HeaderLost, HeaderKept, NoStrays, LostAt
    <3>1. Port \notin late
      BY <1>3
    <3>2. CASE io'.pc = "spin"
      BY <2>1, <2>3, <2>11, <3>1, <3>2
    <3>3. CASE io'.pc = "done"
      <4>1. CASE io.pc = "wait" /\ port[p].bsy
        BY <1>1, <2>1, <2>3, <2>11, <3>1, <4>1 DEF PortAndDrive
      <4>2. CASE io.pc = "spin" /\ port[p].tfes
        BY <1>1, <2>1, <2>3, <3>3, <4>2 DEF PortAndDrive
      <4>3. CASE io.pc = "spin" /\ ~port[p].ci /\ io'.ok
        BY <1>1, <2>1, <3>1, <3>3, <4>3 DEF HeaderLost
      <4> QED BY <2>1, <2>4, <3>3, <4>1, <4>2, <4>3
    <3> QED BY <3>2, <3>3
  <2> QED BY <1>4, <2>8, <2>9, <2>10, <2>12, <2>13 DEF ScanInv, BootReads
<1> QED BY <1>5, <1>6

\* What a step of a drive does to the drives and to the registers.
LEMMA DriveStepTouches ==
  ASSUME AhciInv, NEW p \in Ports, DriveStep(p)
  PROVE  /\ UNCHANGED <<table, io, late>>
         /\ \A q \in Ports :
              /\ q # p => drive'[q] = drive[q]
              /\ drive'[q].busy => \/ drive[q].busy /\ drive'[q].fis = drive[q].fis
                                   \/ /\ port[q].ci /\ ~drive[q].halted
                                      /\ drive'[q].fis = table[q].fis
              /\ port'[q].ci => port[q].ci
              /\ port[q].ci /\ ~port'[q].ci => q = p /\ drive[q].busy
                                               /\ drive[q].moved = drive[q].fis.count
              /\ drive'[q].halted => drive[q].halted \/ drive[q].busy
              /\ drive[q].halted => drive'[q].halted
<1>1. AhciType /\ PortAndDrive
  BY DEF AhciInv
<1>2. CASE Follow(p)
  <2>1. \A q \in Ports : port'[q].ci = port[q].ci
    BY <1>1, <1>2 DEF Follow, AhciType, AhciHbaPort
  <2> QED BY <1>2, <2>1 DEF Follow
<1>3. CASE Fetch(p)
  <2> DEFINE d == [busy |-> TRUE, halted |-> FALSE, fis |-> table[p].fis,
                   prdt |-> table[p].prdt, moved |-> 0]
  <2>1. /\ port[p].ci /\ ~drive[p].busy /\ ~drive[p].halted
        /\ drive' = [drive EXCEPT ![p] = d] /\ port' = [port EXCEPT ![p].bsy = TRUE]
        /\ UNCHANGED <<table, io, mem, disk, late>>
    BY <1>3 DEF Fetch
  <2>2. ~d.halted /\ d.fis = table[p].fis
    OBVIOUS
  <2> HIDE DEF d
  <2>3. drive'[p] = d /\ \A q \in Ports : q # p => drive'[q] = drive[q]
    BY <1>1, <2>1 DEF AhciType
  <2>4. \A q \in Ports : port'[q].ci = port[q].ci
    BY <1>1, <2>1 DEF AhciType, AhciHbaPort
  <2> QED BY <2>1, <2>2, <2>3, <2>4
<1>4. CASE Move(p)
  <2>1. PICK b \in Buffers : MovesOne(p, b, drive[p].moved)
    BY <1>4, MoveIsOne
  <2>2. drive' = [drive EXCEPT ![p].moved = drive[p].moved + 1] /\ UNCHANGED <<port, table, io, late>>
    BY <2>1 DEF MovesOne
  <2>3. \A q \in Ports : /\ drive'[q].busy = drive[q].busy /\ drive'[q].fis = drive[q].fis
                         /\ drive'[q].halted = drive[q].halted
                         /\ q # p => drive'[q] = drive[q]
    BY <1>1, <2>2 DEF AhciType, DriveState
  <2> QED BY <2>2, <2>3
<1>5. CASE Finish(p)
  <2>1. /\ drive[p].busy /\ drive[p].moved = drive[p].fis.count
        /\ drive' = [drive EXCEPT ![p] = Resting]
        /\ port' = [port EXCEPT ![p].ci = FALSE, ![p].bsy = FALSE]
        /\ UNCHANGED <<table, io, mem, disk, late>>
    BY <1>5 DEF Finish
  <2>2. ~Resting.busy /\ ~Resting.halted
    BY DEF Resting
  <2>3. drive'[p] = Resting /\ \A q \in Ports : q # p => drive'[q] = drive[q]
    BY <1>1, <2>1 DEF AhciType
  <2>4. ~port'[p].ci /\ \A q \in Ports : q # p => port'[q].ci = port[q].ci
    BY <1>1, <2>1 DEF AhciType, AhciHbaPort
  <2>5. ~drive[p].halted /\ port[p].ci
    BY <1>1, <2>1 DEF PortAndDrive
  <2> QED BY <2>1, <2>2, <2>3, <2>4, <2>5
<1>6. CASE Fail(p)
  <2> DEFINE d == [Resting EXCEPT !.halted = TRUE]
  <2>1. /\ drive[p].busy /\ drive' = [drive EXCEPT ![p] = d]
        /\ port' = [port EXCEPT ![p].tfes = TRUE, ![p].bsy = FALSE]
        /\ UNCHANGED <<table, io, mem, disk, late>>
    BY <1>6 DEF Fail
  <2>2. ~d.busy /\ d.halted
    BY DEF Resting
  <2> HIDE DEF d
  <2>3. drive'[p] = d /\ \A q \in Ports : q # p => drive'[q] = drive[q]
    BY <1>1, <2>1 DEF AhciType
  <2>4. \A q \in Ports : port'[q].ci = port[q].ci
    BY <1>1, <2>1 DEF AhciType, AhciHbaPort
  <2> QED BY <2>1, <2>2, <2>3, <2>4
<1> QED BY <1>2, <1>3, <1>4, <1>5, <1>6 DEF DriveStep

\* A drive that reads behind the header never puts the header's sector anywhere.
LEMMA FarReads ==
  ASSUME AhciInv, DiskKept, NEW p \in Ports, Reads(drive[p]), NEW b \in Buffers,
         MovesOne(p, b, drive[p].moved)
  PROVE  /\ UNCHANGED disk
         /\ Far(drive[p]) =>
              /\ \A c \in Buffers : mem'[c][1] = 1 => mem[c][1] = 1
              /\ drive[p].moved = 1 => mem'[b][1] # 1
<1> DEFINE s == drive[p].moved
           lba == drive[p].fis.lba + s
<1>1. AhciType
  BY DEF AhciInv
<1>2. /\ s \in Nat /\ drive[p].fis.count \in Nat /\ drive[p].fis.lba \in Nat
  BY <1>1 DEF AhciType, DriveState, Fis
<1>3. /\ s \in Slots /\ lba \in Sectors /\ s < drive[p].fis.count
      /\ IF drive[p].fis.cmd = "read"
           THEN mem' = [mem EXCEPT ![b][s] = disk[p][lba]] /\ disk' = disk
           ELSE disk' = [disk EXCEPT ![p][lba] = mem[b][s]] /\ mem' = mem
  BY DEF MovesOne
<1>4. drive[p].fis.cmd = "read"
  BY <1>2, <1>3 DEF Reads
<1>5. disk' = disk /\ mem' = [mem EXCEPT ![b][s] = lba]
  BY <1>3, <1>4 DEF DiskKept
<1>6. lba \in Content /\ 1 \in Slots /\ lba \in Nat
  BY <1>2, <1>3, SlotsAssumption DEF Content
<1> DEFINE m == mem'
           l == lba
<1> HIDE DEF s, lba
<1>7. /\ mem'[b][s] = l
      /\ \A x \in Buffers, y \in Slots : x # b \/ y # s => mem'[x][y] = mem[x][y]
  <2>1. mem \in [Buffers -> [Slots -> Content]] /\ l \in Content /\ s \in Slots
    BY <1>1, <1>3, <1>6 DEF AhciType, s
  <2>2. m = [mem EXCEPT ![b][s] = l]
    BY <1>5 DEF s
  <2> HIDE DEF m, l
  <2> QED BY <2>1, <2>2, ChangeOne DEF m
<1>8. ASSUME Far(drive[p]), s = 1
      PROVE  l >= 3
  <2>1. drive[p].fis.lba >= 2
    BY <1>2, <1>3, <1>8 DEF Far, s
  <2> QED BY <1>2, <1>8, <2>1 DEF lba
<1>9. ASSUME Far(drive[p])
      PROVE  /\ \A c \in Buffers : mem'[c][1] = 1 => mem[c][1] = 1
             /\ s = 1 => mem'[b][1] # 1
  <2>1. CASE s = 1
    <3>1. mem'[b][1] = l /\ l >= 3 /\ l \in Nat
      BY <1>6, <1>7, <1>8, <1>9, <2>1
    <3>2. \A c \in Buffers : c # b => mem'[c][1] = mem[c][1]
      BY <1>6, <1>7
    <3> QED BY <3>1, <3>2
  <2>2. CASE s # 1
    BY <1>6, <1>7, <2>2
  <2> QED BY <2>1, <2>2
<1> QED BY <1>5, <1>9 DEF s

\* A step of a drive while the entries of the header's drive are read.
LEMMA DriveStepHeaderLost ==
  ASSUME AhciInv, DevmanInv, ScanInv, NEW p \in Ports, DriveStep(p), UNCHANGED devmanVars,
         at.pc = "entry", Port \notin late, header[Port] = "shared", NoStrays
  PROVE  HeaderLost'
<1>1. AhciType /\ PortAndDrive /\ OnlyItsCommand /\ CommandBuilt /\ DevmanType /\ Waiting
      /\ BootReads /\ HeaderLost
  BY DEF AhciInv, DevmanInv, ScanInv
<1>2. DiskKept /\ OnlyReads /\ EntriesAsked /\ Places
  BY <1>1 DEF BootReads, Booting
<1>3. io.port = Port /\ io.buf = at.gpt /\ io.count = PageSectors
      /\ at' = at /\ header' = header /\ Port' = Port
  BY <1>1, <1>2 DEF Waiting, EntriesAsked, Places, Entering, devmanVars, Port
<1>4. /\ UNCHANGED <<table, io, late>>
      /\ \A q \in Ports :
           /\ q # p => drive'[q] = drive[q]
           /\ port'[q].ci => port[q].ci
           /\ port[q].ci /\ ~port'[q].ci => q = p /\ drive[q].busy
                                            /\ drive[q].moved = drive[q].fis.count
           /\ drive[q].halted => drive'[q].halted
  BY DriveStepTouches
<1>5. Port \in Ports /\ at.gpt \in Buffers
  BY <1>1, PortLeast DEF DevmanType, AtState, Booting
<1>6. drive[Port].busy \/ (port[Port].ci /\ ~drive[Port].halted) => io.pc = "spin"
  BY <1>1, <1>3, <1>5 DEF PortAndDrive, OnlyItsCommand
<1>7. drive[p].busy => Reads(drive[p]) /\ Far(drive[p])
  <2> SUFFICES ASSUME drive[p].busy PROVE ~LostAt(p)
    BY <1>2 DEF OnlyReads
  <2>1. CASE p \in late
    BY <2>1 DEF NoStrays
  <2>2. CASE p \notin late
    <3>1. p = Port
      BY <1>1, <1>3, <2>2 DEF PortAndDrive, OnlyItsCommand
    <3> QED BY <3>1 DEF LostAt
  <2> QED BY <2>1, <2>2
<1>8. HeaderKept' => HeaderKept
  <2>1. CASE Move(p)
    <3>1. PICK b \in Buffers : MovesOne(p, b, drive[p].moved)
      BY <2>1, MoveIsOne
    <3>2. drive[p].busy
      BY <3>1 DEF MovesOne
    <3> QED BY <1>2, <1>3, <1>5, <1>7, <3>1, <3>2, FarReads DEF HeaderKept
  <2>2. CASE ~Move(p)
    BY <1>3, <2>2 DEF DriveStep, Follow, Fetch, Finish, Fail, HeaderKept
  <2> QED BY <2>1, <2>2
<1>9. CASE p # Port \/ Follow(p)
  <2>1. drive'[Port] = drive[Port]
    BY <1>4, <1>5, <1>9 DEF Follow
  <2>2. port[Port].ci => port'[Port].ci
    <3>1. CASE p # Port
      BY <1>4, <1>5, <3>1
    <3>2. CASE Follow(p)
      BY <1>1, <1>5, <3>2 DEF Follow, AhciType, AhciHbaPort
    <3> QED BY <1>9, <3>1, <3>2
  <2> QED BY <1>1, <1>3, <1>4, <1>8, <2>1, <2>2 DEF HeaderLost
<1>10. CASE p = Port /\ Fetch(p)
  <2>1. io.pc = "spin" /\ port[p].ci
    BY <1>6, <1>10 DEF Fetch
  <2>2. drive'[p].moved = 0
    BY <1>1, <1>10 DEF Fetch, AhciType
  <2>3. port'[p].ci
    BY <1>4, <1>10, <2>1 DEF Fetch
  <2> QED BY <1>3, <1>4, <1>10, <2>1, <2>2, <2>3 DEF HeaderLost
<1>11. CASE p = Port /\ Move(p)
  <2>1. PICK b \in Buffers : MovesOne(p, b, drive[p].moved)
    BY <1>11, MoveIsOne
  <2>2. drive[p].busy /\ io.pc = "spin" /\ UNCHANGED port
    BY <1>6, <1>11, <2>1 DEF MovesOne
  <2>3. b = at.gpt
    <3>1. drive[p].prdt = BuildPrdt(io.buf, io.count)
      BY <1>1, <1>3, <1>11, <2>2 DEF CommandBuilt, AsksIo
    <3>2. PICK c \in Sizes : drive[p].prdt = BuildPrdt(b, c)
      BY <2>1 DEF MovesOne
    <3>3. c \in Nat \ {0} /\ io.count \in Nat \ {0} /\ io.buf \in Buffers
      BY <1>1, <2>2, SlotsAssumption DEF AhciType, Loading, Sizes
    <3>4. PrdtLength(c) \in Nat \ {0} /\ PrdtLength(io.count) \in Nat \ {0}
      BY <3>3, ResidueRange
    <3>5. BuildPrdt(b, c)[1].buf = b /\ BuildPrdt(io.buf, io.count)[1].buf = io.buf
      BY <3>3, <3>4, PrdtType
    <3> QED BY <1>3, <3>1, <3>2, <3>5
  <2>4. drive[p].moved \in Nat /\ drive'[p].moved = drive[p].moved + 1
    BY <1>1, <2>1 DEF MovesOne, AhciType, DriveState
  <2>5. drive[p].moved = 1 => ~HeaderKept'
    BY <1>2, <1>3, <1>7, <2>1, <2>2, <2>3, FarReads DEF HeaderKept
  <2>6. drive'[p].moved >= 2 => ~HeaderKept'
    <3>1. drive[p].moved >= 2 => ~HeaderKept
      BY <1>1, <1>11, <2>2 DEF HeaderLost
    <3> QED BY <1>8, <2>4, <2>5, <3>1
  <2>7. port'[p].ci
    BY <1>1, <2>2 DEF PortAndDrive
  <2> QED BY <1>3, <1>4, <1>11, <2>2, <2>6, <2>7 DEF HeaderLost
<1>12. CASE p = Port /\ Finish(p)
  <2>1. drive[p].busy /\ io.pc = "spin" /\ drive[p].moved = drive[p].fis.count
    BY <1>6, <1>12 DEF Finish
  <2>2. drive[p].fis.count = Residue(io.count)
    BY <1>1, <1>3, <1>12, <2>1 DEF CommandBuilt, AsksIo
  <2>3. Residue(io.count) >= 2
    BY <1>3, SlotsAssumption, ResidueRange
  <2>4. ~HeaderKept
    BY <1>1, <1>12, <2>1, <2>2, <2>3 DEF HeaderLost
  <2> QED BY <1>3, <1>4, <1>8, <1>12, <2>1, <2>4 DEF HeaderLost
<1>13. CASE p = Port /\ Fail(p)
  <2>1. drive[p].busy /\ io.pc = "spin" /\ port[p].ci
    BY <1>1, <1>6, <1>13 DEF Fail, PortAndDrive
  <2>2. ~drive'[p].busy
    BY <1>1, <1>13 DEF Fail, AhciType, Resting
  <2>3. port'[p].ci
    BY <1>1, <1>13, <2>1 DEF Fail, AhciType, AhciHbaPort
  <2> QED BY <1>3, <1>4, <1>13, <2>1, <2>2, <2>3 DEF HeaderLost
<1> QED BY <1>9, <1>10, <1>11, <1>12, <1>13 DEF DriveStep


\* A step of a drive leaves a header that has a page of its own.
LEMMA DriveStepHeaderStays ==
  ASSUME AhciInv, DevmanInv, ScanInv, NEW p \in Ports, DriveStep(p), UNCHANGED devmanVars
  PROVE  HeaderStays'
<1>1. AhciType /\ PortAndDrive /\ OnlyItsCommand /\ CommandBuilt /\ DevmanType /\ Waiting
      /\ BootReads /\ HeaderStays
  BY DEF AhciInv, DevmanInv, ScanInv
<1>2. /\ UNCHANGED <<at, header>> /\ Port' = Port /\ late' = late
  BY DriveStepTouches DEF devmanVars, Port
<1> SUFFICES ASSUME late = {},
                    at.pc = "log" \/ (at.pc \in {"loop", "entry"} /\ header[Port] = "heap")
             PROVE  mem'[at.gpt][1] = mem[at.gpt][1]
  BY <1>1, <1>2 DEF HeaderStays, HeaderKept
<1>3. CASE ~Move(p)
  BY <1>3 DEF DriveStep, Follow, Fetch, Finish, Fail
<1>4. CASE Move(p)
  <2>1. PICK b \in Buffers : MovesOne(p, b, drive[p].moved)
    BY <1>4, MoveIsOne
  <2>2. drive[p].busy /\ io.pc = "spin" /\ io.port = p
    BY <1>1, <2>1 DEF MovesOne, PortAndDrive, OnlyItsCommand
  <2>3. at.pc = "entry" /\ header[Port] = "heap" /\ io.buf = at.parts
    BY <1>1, <2>2 DEF Waiting
  <2>4. at.gpt \in Buffers /\ Port \in at.left
    BY <1>1, <2>3, PortLeast DEF DevmanType, AtState, Booting
  <2>5. at.parts # at.gpt
    BY <1>1, <2>3, <2>4 DEF BootReads, Booting, Places, Entering
  <2>6. b = io.buf
    <3>1. drive[p].prdt = BuildPrdt(io.buf, io.count)
      BY <1>1, <2>2 DEF CommandBuilt, AsksIo
    <3>2. PICK c \in Sizes : drive[p].prdt = BuildPrdt(b, c)
      BY <2>1 DEF MovesOne
    <3>3. c \in Nat \ {0} /\ io.count \in Nat \ {0} /\ io.buf \in Buffers
      BY <1>1, <2>2, SlotsAssumption DEF AhciType, Loading, Sizes
    <3>4. PrdtLength(c) \in Nat \ {0} /\ PrdtLength(io.count) \in Nat \ {0}
      BY <3>3, ResidueRange
    <3>5. BuildPrdt(b, c)[1].buf = b /\ BuildPrdt(io.buf, io.count)[1].buf = io.buf
      BY <3>3, <3>4, PrdtType
    <3> QED BY <3>1, <3>2, <3>5
  <2>7. mem'[at.gpt] = mem[at.gpt]
    <3>1. b # at.gpt
      BY <2>3, <2>5, <2>6
    <3>2. \/ mem' = mem
          \/ mem' = [mem EXCEPT ![b][drive[p].moved] = disk[p][drive[p].fis.lba + drive[p].moved]]
      BY <2>1 DEF MovesOne
    <3> QED BY <1>1, <2>4, <3>1, <3>2 DEF AhciType
  <2> QED BY <2>7
<1> QED BY <1>3, <1>4

\* A step of a drive.
LEMMA DriveStepScan ==
  ASSUME AhciInv, DevmanInv, ScanInv, NEW p \in Ports, DriveStep(p), UNCHANGED devmanVars
  PROVE  ScanInv'
<1>1. AhciType /\ PortAndDrive /\ DevmanType /\ BootReads /\ HeaderLost
      /\ Behind /\ SharedNone /\ HeapTold
  BY DEF AhciInv, DevmanInv, ScanInv
<1>2. UNCHANGED <<at, header, image, storages, highest, calls>> /\ Port' = Port
  BY DEF devmanVars, Port
<1>3. /\ UNCHANGED <<table, io, late>>
      /\ \A q \in Ports :
           /\ drive'[q].busy => \/ drive[q].busy /\ drive'[q].fis = drive[q].fis
                                \/ /\ port[q].ci /\ ~drive[q].halted
                                   /\ drive'[q].fis = table[q].fis
           /\ port'[q].ci => port[q].ci
           /\ drive'[q].halted => drive[q].halted \/ drive[q].busy
           /\ drive[q].halted => drive'[q].halted
  BY DriveStepTouches
<1>4. SharedNone' /\ HeapTold' /\ Behind'
  BY <1>1, <1>2, <1>3, ToldKept DEF Taken
<1>5. HeaderLost'
  <2>1. CASE at.pc = "entry" /\ Port \notin late /\ header[Port] = "shared" /\ NoStrays
    BY <2>1, DriveStepHeaderLost
  <2>2. CASE ~(at.pc = "entry" /\ Port \notin late)
    BY <1>2, <1>3, <2>2 DEF HeaderLost
  <2>3. CASE at.pc = "entry" /\ Port \notin late /\ ~(header[Port] = "shared" /\ NoStrays)
    <3>1. ~(header[Port] = "shared" /\ NoStrays)' /\ Port \in Ports
      BY <1>1, <1>2, <1>3, <2>3, PortLeast DEF NoStrays, LostAt, DevmanType, Booting
    <3> QED BY <1>1, <1>2, <1>3, <2>3, <3>1 DEF HeaderLost
  <2> QED BY <2>1, <2>2, <2>3
<1>6. HeaderStays'
  BY DriveStepHeaderStays
<1>7. ASSUME at.pc \in Booting
      PROVE  BootReads'
  <2>1. DiskKept /\ Ahead /\ OnlyReads /\ HeaderAsked /\ EntriesAsked /\ Places
    BY <1>1, <1>7 DEF BootReads
  <2>2. OnlyReads'
    <3>1. \A q \in Ports : drive'[q].busy /\ drive'[q].fis = drive[q].fis =>
            /\ Reads(drive[q]) => Reads(drive'[q])
            /\ Far(drive[q]) => Far(drive'[q])
      BY DEF Reads, Far
    <3>2. \A q \in Ports : drive'[q].fis = table[q].fis =>
            /\ Reads(table[q]) => Reads(drive'[q])
            /\ Far(table[q]) => Far(drive'[q])
      BY DEF Reads, Far
    <3>3. \A q \in Ports : LostAt(q)' <=> LostAt(q)
      BY <1>2 DEF LostAt
    <3> QED BY <1>2, <1>3, <2>1, <3>1, <3>2, <3>3 DEF OnlyReads
  <2>3. \A q \in Ports : Fresh(q) => Fresh(q)'
    BY <1>3 DEF Fresh
  <2>4. Ahead'
    <3>1. \A q \in at.left : q \in Ports
      BY <1>1 DEF DevmanType, AtState, AhciProbe
    <3> QED BY <1>2, <2>1, <2>3, <3>1 DEF Ahead
  <2>5. HeaderAsked' /\ EntriesAsked' /\ Places'
    <3>1. at.pc = "check" => Port \in Ports
      BY <1>1, PortLeast DEF DevmanType, Booting
    <3> QED BY <1>2, <1>3, <2>1, <2>3, <3>1 DEF HeaderAsked, EntriesAsked, Lost, Places
  <2>6. DiskKept'
    <3>1. UNCHANGED disk
      <4>1. CASE Move(p)
        <5>1. PICK b \in Buffers : MovesOne(p, b, drive[p].moved)
          BY <4>1, MoveIsOne
        <5>2. drive[p].busy
          BY <5>1 DEF MovesOne
        <5>3. Reads(drive[p])
          BY <2>1, <5>2 DEF OnlyReads
        <5> QED BY <2>1, <5>1, <5>3, FarReads
      <4>2. CASE ~Move(p)
        BY <4>2 DEF DriveStep, Follow, Fetch, Finish, Fail
      <4> QED BY <4>1, <4>2
    <3> QED BY <2>1, <3>1 DEF DiskKept
  <2> QED BY <2>2, <2>4, <2>5, <2>6 DEF BootReads
<1> QED BY <1>2, <1>4, <1>5, <1>6, <1>7 DEF ScanInv, BootReads

-----------------------------------------------------------------------------
(***************************************************************************)
(* The scan: the calls of the user, and what is registered.                *)
(***************************************************************************)

\* A call of the user comes after the scan.
LEMMA CallScan ==
  ASSUME DevmanInv, ScanInv, NEW number, NEW partition, NEW lba, NEW count, NEW write,
         Call(number, partition, lba, count, write)
  PROVE  ScanInv'
<1>1. DevmanType /\ Behind /\ SharedNone /\ HeapTold
  BY DEF DevmanInv, ScanInv
<1>2. /\ at.pc = "run" /\ UNCHANGED <<drive, late, header, image, storages, highest>>
      /\ UNCHANGED at \/ Goto("fault")
  BY DEF Call
<1>3. at'.pc \in {"run", "fault"} /\ at'.left = at.left
  BY <1>1, <1>2, GoesOn DEF Halted
<1>4. SharedNone' /\ HeapTold' /\ Behind'
  BY <1>1, <1>2, <1>3, ToldKept DEF Entering
<1> QED BY <1>3, <1>4 DEF ScanInv, BootReads, HeaderLost, HeaderStays, Booting

\* Every step keeps what the scan of the drives has read.
LEMMA NextScan ==
  ASSUME AhciInv, DevmanInv, ScanInv, Next
  PROVE  ScanInv'
<1>1. CASE BootStep
  BY <1>1, StopPortScan, ConfigurePortScan, DevmanAddStorageScan, ReadHeaderScan,
     CheckHeaderScan, LogHeaderScan, ReadEntriesScan, TakeEntryScan, NextPortScan,
     BootDoneScan DEF BootStep
<1>2. CASE DriverStep
  BY <1>2, DriverStepScan
<1>3. CASE DevmanRead
  <2> DEFINE w == FALSE
  <2>1. PICK number \in Indices, partition \in Partitions, lba \in Lbas, count \in Counts :
          Call(number, partition, lba, count, w)
    BY <1>3 DEF DevmanRead
  <2> HIDE DEF w
  <2> QED BY <2>1, CallScan
<1>4. CASE DevmanWrite
  <2> DEFINE w == TRUE
  <2>1. PICK number \in Indices, partition \in Partitions, lba \in Lbas, count \in Counts :
          Call(number, partition, lba, count, w)
    BY <1>4 DEF DevmanWrite
  <2> HIDE DEF w
  <2> QED BY <2>1, CallScan
<1>5. CASE \E p \in Ports : DriveRuns(p)
  BY <1>5, DriveStepScan DEF DriveRuns
<1> QED BY <1>1, <1>2, <1>3, <1>4, <1>5 DEF Next

\* At first nothing was read.
LEMMA InitScan ==
  ASSUME Init
  PROVE  ScanInv
<1>1. /\ drive = [p \in Ports |-> Resting] /\ late = {}
      /\ disk = [p \in Ports |-> [s \in Sectors |-> s]]
      /\ at.pc = "stop" /\ at.left = AhciProbe /\ at.i = 0 /\ at.gpt = GptPage
      /\ header = [p \in AhciProbe |-> "unread"]
      /\ highest = 0
  BY DEF Init, AhciInit
<1>2. \A p \in Ports : ~port[p].ci
  <2>1. PICK running \in BOOLEAN :
          port = [p \in Ports |->
                    LET on == running /\ p \in AhciProbe
                    IN  [ci |-> FALSE, tfes |-> FALSE, bsy |-> FALSE,
                         st |-> on, fre |-> on, cr |-> on, fr |-> on]]
    BY DEF Init, AhciInit
  <2> QED BY <2>1
<1>3. \A p \in Ports : ~drive[p].busy /\ ~drive[p].halted
  <2>1. \A p \in Ports : drive[p] = Resting
    BY <1>1
  <2>2. ~Resting.busy /\ ~Resting.halted
    BY DEF Resting
  <2> QED BY <2>1, <2>2
<1>4. OnlyReads
  BY <1>2, <1>3 DEF OnlyReads
<1>5. \A p \in Ports : Fresh(p)
  BY <1>1, <1>2, <1>3 DEF Fresh
<1>6. Ahead
  BY <1>1, <1>5 DEF Ahead, AhciProbe
<1>7. DiskKept /\ HeaderAsked /\ EntriesAsked /\ HeaderLost /\ HeaderStays
  BY <1>1 DEF DiskKept, HeaderAsked, EntriesAsked, HeaderLost, HeaderStays
<1>8. Places
  <2>1. \A p \in at.left : p \in Ports /\ header[p] = "unread"
    BY <1>1 DEF AhciProbe
  <2>2. \A p \in Ports : OwnPage[p] # GptPage
    BY BuffersAssumption
  <2> QED BY <1>1, <2>1, <2>2 DEF Places, Entering
<1>9. SharedNone /\ HeapTold /\ Behind
  BY <1>1 DEF SharedNone, HeapTold, Behind
<1> QED BY <1>4, <1>6, <1>7, <1>8, <1>9 DEF ScanInv, BootReads

\* While the partition tables are scanned no drive is written, and a drive that
\* was given up can only read what lies behind its header, unless that was
\* written over.  If the header shares its page with the entries, an entry that
\* is read well costs it, and nothing was registered; if it has a page of its
\* own, it stays, and the entries of the first page that were taken are told as
\* they are on the drive.
THEOREM ScanInvariant == Spec => []ScanInv
<1>1. Init => ScanInv
  BY InitScan
<1>2. AhciInv /\ DevmanInv /\ ScanInv /\ [Next]_vars => ScanInv'
  <2> SUFFICES ASSUME DevmanInv, ScanInv, UNCHANGED vars PROVE ScanInv'
    BY NextScan
  <2>1. UNCHANGED <<port, table, drive, io, mem, disk, late, at, header, image, storages, highest>>
    BY DEF vars, ahciVars, devmanVars
  <2>2. /\ Port' = Port /\ (HeaderKept' <=> HeaderKept) /\ (Lost' <=> Lost)
        /\ (NoStrays' <=> NoStrays)
    BY <2>1 DEF Port, HeaderKept, Lost, NoStrays, LostAt
  <2>3. SharedNone' /\ HeapTold' /\ Behind'
    BY <2>1, ToldKept DEF ScanInv, DevmanInv, Taken
  <2>4. BootReads' /\ HeaderLost' /\ HeaderStays'
    BY <2>1, <2>2 DEF ScanInv, BootReads, HeaderLost, HeaderStays, DiskKept, Ahead, OnlyReads,
         HeaderAsked, EntriesAsked, Places, Fresh, Reads, Far, LostAt
  <2> QED BY <2>3, <2>4 DEF ScanInv
<1> QED BY <1>1, <1>2, DiskInvariant, PTL DEF Spec

\* A drive that answered every time has no partitions while its header and its
\* entries have one page.  With a page for each, exactly the entries in use of
\* the first page become partitions.
THEOREM ScanRegistersHolds == Spec => []ScanRegisters
<1>1. DevmanInv /\ ScanInv => ScanRegisters
  <2> SUFFICES ASSUME DevmanInv, ScanInv, NEW s \in Storages, Answered(s.port)
               PROVE  /\ /\ header[s.port] \in {"unread", "shared"}
                         /\ \A p \in late : header[p] # "lost"
                         => s.partitions = NoTable
                      /\ header[s.port] = "heap" /\ s.port \notin at.left /\ late = {} =>
                           \A i \in 0 .. PageSectors - 1 :
                             i \in Registered(s) <=> i < image[s.port].entries
                                  /\ image[s.port].array + i \in image[s.port].used
    BY DEF ScanRegisters, Answered
  <2>1. PICK i \in 1 .. highest : s = storages.slots[i]
    BY StoragesAre DEF DevmanInv
  <2>2. (\A p \in late : header[p] # "lost") => NoStrays
    BY DEF NoStrays, LostAt
  <2>3. header[s.port] \in {"unread", "shared"} /\ NoStrays => s.partitions = NoTable
    BY <2>1 DEF ScanInv, SharedNone
  <2>4. header[s.port] = "heap" /\ s.port \notin at.left /\ late = {} => TableTold(s, PageSectors)
    BY <2>1 DEF ScanInv, HeapTold
  <2>5. \A id \in 0 .. PageSectors - 1 : id < PageSectors
    BY SlotsAssumption
  <2> QED BY <2>2, <2>3, <2>4, <2>5 DEF TableTold
<1> QED BY <1>1, DiskInvariant, ScanInvariant, PTL
=============================================================================
