-------------------------------- MODULE Ahci --------------------------------
(***************************************************************************)
(* The AHCI driver, kernel/src/hw/storage/ahci/ahci.c, and the drives      *)
(* behind it.  Driver and drive share the registers of a port and the      *)
(* command table in memory; the drive moves sectors into and out of the    *)
(* caller's buffer by itself.  The driver waits for it with a spin that    *)
(* runs out: a drive can be slower than that, and goes on all the same.    *)
(*                                                                         *)
(* One CPU is inside the driver at a time (nothing locks a port), and it   *)
(* uses command slot 0 only.  A sector's content is named by its number.   *)
(* The module Devman begins the calls and says where buffers come from.    *)
(***************************************************************************)
EXTENDS Integers, Sequences

CONSTANTS Ports,     \* the bits set in ports_implemented
          Attached,  \* port -> what its status and signature registers say
          Unit,      \* sectors per entry of the PRDT: 16
          Buffers,   \* the memory that callers read into and write from
          Slots,     \* the sectors of a buffer, from 0
          Sectors,   \* the sectors of a drive, from 0
          Frames,    \* where request_page may find room for the command tables
          Low,       \* 2^32 in the same units
          NoBuffer

Zero == -1  \* memory that has been cleared
New == -2   \* what a caller writes to a drive

AhciPortType == {"NONE", "SATA", "SEMB", "PM", "SATAPI"}
Status == [detection : {"absent", "present"}, power : {"active", "asleep"},
           signature : {"ata", "atapi", "pm", "semb", "unknown"}]

ASSUME AttachedAssumption == Ports \subseteq Nat /\ Attached \in [Ports -> Status]
ASSUME UnitAssumption == Unit \in Nat \ {0}
ASSUME FramesAssumption == Frames \subseteq Nat /\ Low \in Nat \ {0}

VARIABLES port,   \* the registers of each port
          table,  \* the command header and table of each port's slot 0
          drive,  \* what each drive is doing
          io,     \* the call of _ahci_port_io_sata in progress, or the last one
          mem,    \* buffer -> sector of the buffer -> content
          disk,   \* port -> sector of the drive -> content
          late    \* history: the ports on which a command was given up

ahciVars == <<port, table, drive, io, mem, disk, late>>

AhciHbaPort == [ci : BOOLEAN,                 \* bit 0 of command_issue
                tfes : BOOLEAN,               \* of interrupt_status
                bsy : BOOLEAN,                \* BSY or DRQ of task_file_data
                st : BOOLEAN, fre : BOOLEAN,  \* of cmd_sts, by the driver
                cr : BOOLEAN, fr : BOOLEAN]   \* of cmd_sts, by the port

\* An entry of the PRDT: n sectors from sector `at` of the buffer on.
Prdt == Seq([buf : Buffers, at : Nat, n : Nat])
NoFis == [cmd |-> "none", lba |-> 0, count |-> 0]
Fis == [cmd : {"none", "read", "write"}, lba : Nat, count : Nat]

Resting == [busy |-> FALSE, halted |-> FALSE, fis |-> NoFis, prdt |-> <<>>, moved |-> 0]
IoIdle == [pc |-> "idle", ok |-> FALSE, port |-> 0, lba |-> 0, count |-> 0,
           buf |-> NoBuffer, write |-> FALSE]

-----------------------------------------------------------------------------
(***************************************************************************)
(* Finding and configuring the ports.                                      *)
(***************************************************************************)
SignatureType(p) ==
  CASE Attached[p].signature = "atapi" -> "SATAPI"
    [] Attached[p].signature = "ata"   -> "SATA"
    [] Attached[p].signature = "pm"    -> "PM"
    [] Attached[p].signature = "semb"  -> "SEMB"
    [] OTHER -> "NONE"

\* Mutant: a port that sleeps is taken for one that works.
AhciCheckPortTypeIgnoresPower(p) ==
  IF Attached[p].detection # "present" THEN "NONE" ELSE SignatureType(p)

AhciCheckPortType(p) ==
  IF Attached[p].detection # "present" \/ Attached[p].power # "active"
    THEN "NONE"
    ELSE SignatureType(p)

\* The ports that ahci_probe keeps, by number.
AhciProbe == {p \in Ports : AhciCheckPortType(p) = "SATA"}

AhciPortStopCmd(p) == /\ port' = [port EXCEPT ![p].st = FALSE, ![p].fre = FALSE]
                      /\ UNCHANGED <<table, drive, io, mem, disk, late>>

Stopped(p) == ~port[p].fr /\ ~port[p].cr

\* A fresh command list, received-FIS area and command tables; then
\* ahci_port_start_cmd, whose wait for CR is over since the stop.  The upper
\* half of the tables' address is shifted out of its 32 bits (line 144), so
\* that the header names the frame itself only if it lies below Low.
AhciPortConfigure(p) ==
  /\ Stopped(p)
  /\ \E f \in Frames :
       table' = [table EXCEPT ![p] = [whole |-> f % Low = f, prdt |-> <<>>, fis |-> NoFis]]
  /\ port' = [port EXCEPT ![p].fre = TRUE, ![p].st = TRUE]
  /\ UNCHANGED <<drive, io, mem, disk, late>>

-----------------------------------------------------------------------------
(***************************************************************************)
(* _ahci_port_io_sata.                                                     *)
(***************************************************************************)
Loading == {"clear", "wait", "table", "fis", "issue", "spin"}

StartIo(p, lba, count, buf, write) ==
  io' = [pc |-> "clear", ok |-> FALSE, port |-> p, lba |-> lba, count |-> count,
         buf |-> buf, write |-> write]

IoTo(pc) == io' = [io EXCEPT !.pc = pc]
Return(ok) == io' = [io EXCEPT !.pc = "done", !.ok = ok]

ClearInterrupts ==
  /\ io.pc = "clear"
  /\ port' = [port EXCEPT ![io.port].tfes = FALSE]
  /\ IoTo("wait")
  /\ UNCHANGED <<table, drive, mem, disk, late>>

\* The first spin, of a million passes.
WaitReady == /\ io.pc = "wait"
             /\ \/ ~port[io.port].bsy /\ IoTo("table")
                \/ port[io.port].bsy /\ Return(FALSE)
             /\ UNCHANGED <<port, table, drive, mem, disk, late>>

\* `(count - 1) >> 4` and one more entry; all but the last are full.
PrdtLength(count) == (count - 1) \div Unit + 1

\* What is left of count after the loop over the full entries.
Residue(count) == count - Unit * (PrdtLength(count) - 1)

BuildPrdt(buf, count) ==
  [k \in 1 .. PrdtLength(count) |->
     [buf |-> buf, at |-> Unit * (k - 1),
      n |-> IF k < PrdtLength(count) THEN Unit ELSE Residue(count)]]

\* The header and the table: cleared, then the PRDT.
FillTable == /\ io.pc = "table" /\ table[io.port].whole
             /\ table' = [table EXCEPT ![io.port].prdt = BuildPrdt(io.buf, io.count),
                                       ![io.port].fis = NoFis]
             /\ IoTo("fis")
             /\ UNCHANGED <<port, drive, mem, disk, late>>

\* The table is cleared where the header says, which is not where it is: it
\* may be anybody's memory, and the model ends there.
FillForeign == /\ io.pc = "table" /\ ~table[io.port].whole
               /\ IoTo("corrupt")
               /\ UNCHANGED <<port, table, drive, mem, disk, late>>

\* The command asks for what the loop has left of count.
FillFis == /\ io.pc = "fis"
           /\ table' = [table EXCEPT ![io.port].fis =
                          [cmd |-> IF io.write THEN "write" ELSE "read",
                           lba |-> io.lba, count |-> Residue(io.count)]]
           /\ IoTo("issue")
           /\ UNCHANGED <<port, drive, mem, disk, late>>

Issue == /\ io.pc = "issue"
         /\ port' = [port EXCEPT ![io.port].ci = TRUE]
         /\ IoTo("spin")
         /\ UNCHANGED <<table, drive, mem, disk, late>>

\* Mutant: the end of the second spin counts as success.
SpinTakesLateForDone ==
  /\ io.pc = "spin"
  /\ Return(~port[io.port].tfes)
  /\ UNCHANGED <<port, table, drive, mem, disk, late>>

\* The second spin, of half a million passes: the command is done, or has
\* failed, or the driver gives up and leaves it with the drive.
Spin == /\ io.pc = "spin"
        /\ \/ /\ ~port[io.port].ci \/ port[io.port].tfes
              /\ Return(~port[io.port].ci /\ ~port[io.port].tfes)
              /\ UNCHANGED late
           \/ /\ port[io.port].ci /\ ~port[io.port].tfes
              /\ Return(FALSE)
              /\ late' = late \cup {io.port}
        /\ UNCHANGED <<port, table, drive, mem, disk>>

IoStep == \/ ClearInterrupts \/ WaitReady \/ FillTable \/ FillForeign
          \/ FillFis \/ Issue \/ Spin

-----------------------------------------------------------------------------
(***************************************************************************)
(* The drives.                                                             *)
(***************************************************************************)
\* CR and FR follow ST and FRE.
Follow(p) == /\ port[p].cr # port[p].st \/ port[p].fr # port[p].fre
             /\ port' = [port EXCEPT ![p].cr = port[p].st, ![p].fr = port[p].fre]
             /\ UNCHANGED <<table, drive, io, mem, disk, late>>

\* The drive takes the command from memory as it is at that moment.
Fetch(p) ==
  /\ port[p].cr /\ port[p].ci /\ ~drive[p].busy /\ ~drive[p].halted
  /\ drive' = [drive EXCEPT ![p] = [busy |-> TRUE, halted |-> FALSE, fis |-> table[p].fis,
                                    prdt |-> table[p].prdt, moved |-> 0]]
  /\ port' = [port EXCEPT ![p].bsy = TRUE]
  /\ UNCHANGED <<table, io, mem, disk, late>>

\* Where the next sector belongs: the entries are filled one after another.
Before(prdt, k) == LET sum[n \in 0 .. k - 1] == IF n = 0 THEN 0 ELSE sum[n - 1] + prdt[n].n
                   IN  sum[k - 1]

Covers(prdt, k, sector) ==
  Before(prdt, k) <= sector /\ sector < Before(prdt, k) + prdt[k].n

Move(p) ==
  LET d == drive[p]
      lba == d.fis.lba + d.moved
  IN  /\ d.busy /\ d.moved < d.fis.count /\ lba \in Sectors
      /\ \E k \in DOMAIN d.prdt :
           /\ Covers(d.prdt, k, d.moved)
           /\ LET at == d.prdt[k].at + d.moved - Before(d.prdt, k)
              IN  IF d.fis.cmd = "read"
                    THEN /\ mem' = [mem EXCEPT ![d.prdt[k].buf][at] = disk[p][lba]]
                         /\ UNCHANGED disk
                    ELSE /\ disk' = [disk EXCEPT ![p][lba] = mem[d.prdt[k].buf][at]]
                         /\ UNCHANGED mem
      /\ drive' = [drive EXCEPT ![p].moved = @ + 1]
      /\ UNCHANGED <<port, table, io, late>>

Finish(p) == /\ drive[p].busy /\ drive[p].fis.cmd # "none"
             /\ drive[p].moved = drive[p].fis.count
             /\ drive' = [drive EXCEPT ![p] = Resting]
             /\ port' = [port EXCEPT ![p].ci = FALSE, ![p].bsy = FALSE]
             /\ UNCHANGED <<table, io, mem, disk, late>>

\* A command may fail at any time; one that is none, or that goes past the
\* end of the drive, does.  The port then takes no more commands, for the
\* driver does not restart it.
Fail(p) == /\ drive[p].busy
           /\ drive' = [drive EXCEPT ![p] = [Resting EXCEPT !.halted = TRUE]]
           /\ port' = [port EXCEPT ![p].tfes = TRUE, ![p].bsy = FALSE]
           /\ UNCHANGED <<table, io, mem, disk, late>>

DriveStep(p) == Follow(p) \/ Fetch(p) \/ Move(p) \/ Finish(p) \/ Fail(p)

\* The firmware may have left the ports running or stopped.  What those are
\* that are not kept, nobody looks at.
AhciInit ==
  /\ \E running \in BOOLEAN :
       port = [p \in Ports |->
                 LET on == running /\ p \in AhciProbe
                 IN  [ci |-> FALSE, tfes |-> FALSE, bsy |-> FALSE,
                      st |-> on, fre |-> on, cr |-> on, fr |-> on]]
  /\ table = [p \in Ports |-> [whole |-> TRUE, prdt |-> <<>>, fis |-> NoFis]]
  /\ drive = [p \in Ports |-> Resting]
  /\ io = IoIdle
  /\ mem = [b \in Buffers |-> [s \in Slots |-> Zero]]
  /\ disk = [p \in Ports |-> [s \in Sectors |-> s]]
  /\ late = {}

AhciTypeOK ==
  /\ port \in [Ports -> AhciHbaPort]
  /\ table \in [Ports -> [whole : BOOLEAN, fis : Fis, prdt : Prdt]]
  /\ \A p \in Ports : drive[p].moved <= drive[p].fis.count
  /\ io.pc \in Loading \cup {"idle", "done", "corrupt"}
  /\ mem \in [Buffers -> [Slots -> Sectors \cup {Zero, New}]]
  /\ disk \in [Ports -> [Sectors -> Sectors \cup {Zero, New}]]
  /\ late \subseteq Ports
=============================================================================
