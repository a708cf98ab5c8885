-------------------------------- MODULE Pcie --------------------------------
(***************************************************************************)
(* Finding the functions on the PCI buses: kernel/src/hw/pcie/pcie.c       *)
(* through the memory that the MCFG table names, and kernel/src/hw/pci     *)
(* through the two configuration ports while that is not known.            *)
(*                                                                         *)
(* A bus has SlotCount slots (32) of FunctionCount functions (8), each of  *)
(* which has one page of the configuration memory.  An entry of the MCFG   *)
(* is taken to name the page of its first bus.                             *)
(***************************************************************************)
EXTENDS Acpi

CONSTANTS BusCount,      \* 256
          SlotCount,     \* 32
          FunctionCount, \* 8
          RegionMod      \* region_count counts modulo this: 256

ASSUME PcieAssumption == {BusCount, SlotCount, FunctionCount, RegionMod} \subseteq Nat \ {0}

VARIABLE pcie  \* regions, region_count and initialized

Buses == 0 .. BusCount - 1
Places == Buses \X (0 .. SlotCount - 1) \X (0 .. FunctionCount - 1)
PerBus == SlotCount * FunctionCount
None == 65535  \* what reads of a function that is not there return

\* Where the two scans meet a function.
Index(p) == p[1] * PerBus + p[2] * FunctionCount + p[3]

Byte == 0 .. 255
Word == 0 .. 65535
Header == [vendor : Word, device : Word, class : Byte, subclass : Byte, prog_if : Byte, revision : Byte]

NoHeader == [vendor |-> None, device |-> None, class |-> 255, subclass |-> 255,
             prog_if |-> 255, revision |-> 255]

\* The hardware: functions are numbered in segments, by place; the ports
\* reach segment 0 only, and a page of configuration memory belongs to one.
Function(segment, p) ==
  IF <<segment, p>> \in DOMAIN machine.functions THEN machine.functions[<<segment, p>>] ELSE NoHeader

McfgEntry == [segment : Nat, start : Nat, end : Nat, base : Nat]
Covers(entry, p) == p[1] \in entry.start .. entry.end
ConfigPage(entry, p) == entry.base + Index(p) - entry.start * PerBus

ASSUME MachinesAssumption ==
  \A m \in Machines :
    /\ m.mcfg \in Seq(McfgEntry)
    /\ \A f \in DOMAIN m.functions : m.functions[f] \in Header
    /\ \A e, f \in Range(m.mcfg), p, q \in Places :
         Covers(e, p) /\ Covers(f, q) /\ ConfigPage(e, p) = ConfigPage(f, q)
           => e.segment = f.segment /\ p = q

\* A null pointer is no page and no segment.
ASSUME NullAssumption == NULL \notin Int

HeaderAt(page) ==
  LET there == {h \in Range(machine.mcfg) \X Places :
                  Covers(h[1], h[2]) /\ page = ConfigPage(h[1], h[2])}
  IN  IF there = {} THEN NoHeader
      ELSE LET h == CHOOSE h \in there : TRUE IN Function(h[1].segment, h[2])

PcieInitialState == [regions |-> <<>>, count |-> 0, initialized |-> FALSE]

\* Mutant: the region's first bus is not taken off.
PcieGetDeviceFromZero(p) ==
  LET hits == {i \in 1 .. pcie.count : Covers(pcie.regions[i], p)}
  IN  IF hits = {} THEN NULL ELSE pcie.regions[Min(hits)].base + Index(p)

\* The page of a function, in the first region that has its bus.
PcieGetDevice(p) ==
  LET hits == {i \in 1 .. pcie.count : Covers(pcie.regions[i], p)}
  IN  IF hits = {} THEN NULL
      ELSE LET r == pcie.regions[Min(hits)]
           IN  r.base + Index(p) - r.start * PerBus

\* The regions after the MCFG's entries are stored one by one: entry number i
\* of more than RegionMod replaces one that was stored before.
RegionsOf(entries) ==
  [i \in 1 .. Min({Len(entries), RegionMod}) |->
     entries[Max({k \in DOMAIN entries : k % RegionMod = i % RegionMod})]]

PcieStored(entries) ==
  [regions |-> RegionsOf(entries), count |-> Len(entries) % RegionMod, initialized |-> TRUE]

Present(h) == h.vendor \notin {0, None} /\ h.device \notin {0, None}

-----------------------------------------------------------------------------
(***************************************************************************)
(* The configuration ports: the halves of what they return are swapped, so *)
(* an offset counts from the other end of its four bytes.                  *)
(***************************************************************************)
OffsetDevice == 0
OffsetVendor == 2
OffsetClass == 9
OffsetProgIf == 11

\* The words of a header in the order of PciHeader, from number 0.
Words(h) == <<h.vendor, h.device, 0, 0, h.prog_if * 256 + h.revision, h.class * 256 + h.subclass>>

PciConfigReadWord(p, offset) ==
  Words(Function(0, p))[2 * (offset \div 4) + (1 - (offset % 4) \div 2) + 1]

\* The shift cancels out: the low byte of the word, whatever the offset.
PciConfigReadByte(p, offset) == PciConfigReadWord(p, offset) % 256

-----------------------------------------------------------------------------
(***************************************************************************)
(* Counting and searching functions by their ids.                          *)
(***************************************************************************)
VendorDevice(p) ==
  IF pcie.initialized
    THEN LET h == HeaderAt(PcieGetDevice(p)) IN <<h.vendor, h.device>>
    ELSE <<PciConfigReadWord(p, OffsetVendor), PciConfigReadWord(p, OffsetDevice)>>

\* Neither call asks whether the page is NULL.
EveryPageKnown == pcie.initialized => \A p \in Places : PcieGetDevice(p) # NULL

Matches(ids) == {p \in Places : VendorDevice(p) = ids}
Before(p, places) == {q \in places : Index(q) < Index(p)}

PciGetCount(ids) == Cardinality(Matches(ids))

NoAddress == [exists |-> FALSE, at |-> NULL]

\* Mutant: a match counts before it is compared.
PciSearchEarly(ids, number) ==
  LET all == Matches(ids)
      hits == {p \in all : Cardinality(Before(p, all)) + 1 = number}
  IN  IF PciGetCount(ids) < number \/ hits = {} THEN NoAddress
      ELSE [exists |-> TRUE, at |-> CHOOSE p \in hits : TRUE]

\* A number that is equal to the count passes the first check, not the search.
PciSearch(ids, number) ==
  LET all == Matches(ids)
      hits == {p \in all : Cardinality(Before(p, all)) = number}
  IN  IF PciGetCount(ids) < number \/ hits = {} THEN NoAddress
      ELSE [exists |-> TRUE, at |-> CHOOSE p \in hits : TRUE]
=============================================================================
