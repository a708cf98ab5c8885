-------------------------------- MODULE Bus --------------------------------
(***************************************************************************)
(* hardware_enumerate (kernel/src/kernel.c) and the drivers of the device  *)
(* manager, kernel/src/hw/devman/devman.c: the drivers register, the ACPI  *)
(* tables are read, and each function that the scan finds is offered to    *)
(* the drivers that its ids or codes match.  A question about the buses is *)
(* asked before the scan or after it, and ends the behaviour.              *)
(***************************************************************************)
EXTENDS PciName

CONSTANTS Constructors, \* the drivers of the image, in link order
          Searches      \* vendor, device and number that are searched

\* As many ids or codes as the type of a driver says.
Addresses == [VENDOR |-> 1, VENDORDEVICE |-> 2, CLASS |-> 1, CLASSSUBCLASS |-> 2,
              CLASSSUBCLASSPROGIF |-> 3]

ASSUME ConstructorsAssumption ==
  /\ Constructors \in Seq([type : DOMAIN Addresses, address : Seq(Nat)])
  /\ \A i \in DOMAIN Constructors :
       Len(Constructors[i].address) = Addresses[Constructors[i].type]

\* A search asks for a place in the order of the functions.
ASSUME SearchesAssumption == \A s \in Searches : s.number \in Nat

VARIABLES drivers, \* pcie_drivers, from its head
          next,    \* the index of the function that the scan looks at next
          handed,  \* the functions given to the drivers, and their fate
          last     \* the last question and its answer

vars == <<machine, acpi, boot, pcie, registry, drivers, next, handed, last>>

Asked(what, arg, answer) == last' = [what |-> what, arg |-> arg, answer |-> answer]

-----------------------------------------------------------------------------
\* devman_register_driver puts a driver before the others.
DevmanAddDrivers ==
  /\ boot = "drivers"
  /\ IF Len(drivers) < Len(Constructors)
       THEN drivers' = <<Constructors[Len(drivers) + 1]>> \o drivers /\ UNCHANGED boot
       ELSE boot' = "acpi" /\ UNCHANGED drivers
  /\ UNCHANGED <<machine, acpi, pcie, registry, next, handed, last>>

RunAcpi == /\ AcpiInit \/ AcpiInitPanics
           /\ UNCHANGED <<machine, pcie, registry, drivers, next, handed, last>>

RunLai == /\ \/ \E sig \in {"DSDT", "SSDT", "FACP"}, index \in {0, 1} : LaihostScan(sig, index)
             \/ LaiDone
          /\ UNCHANGED <<machine, pcie, registry, drivers, next, handed, last>>

\* The first part of pcie_init; devman_enumerate panics when it fails.
PcieInit ==
  /\ boot = "enumerate"
  /\ IF AcpiGet("MCFG") = NULL \/ machine.mcfg = <<>>
       THEN Panic /\ UNCHANGED pcie
       ELSE pcie' = PcieStored(machine.mcfg) /\ boot' = "scan"
  /\ UNCHANGED <<machine, acpi, registry, drivers, next, handed, last>>

\* Mutant: the program interface is not compared.
FitsAnyProgif(d, h) ==
  CASE d.type = "VENDOR"              -> d.address[1] = h.vendor
    [] d.type = "VENDORDEVICE"        -> d.address[1] = h.vendor /\ d.address[2] = h.device
    [] d.type = "CLASS"               -> d.address[1] = h.class
    [] d.type = "CLASSSUBCLASS"       -> d.address[1] = h.class /\ d.address[2] = h.subclass
    [] d.type = "CLASSSUBCLASSPROGIF" -> d.address[1] = h.class /\ d.address[2] = h.subclass

Fits(d, h) ==
  CASE d.type = "VENDOR"              -> d.address[1] = h.vendor
    [] d.type = "VENDORDEVICE"        -> d.address[1] = h.vendor /\ d.address[2] = h.device
    [] d.type = "CLASS"               -> d.address[1] = h.class
    [] d.type = "CLASSSUBCLASS"       -> d.address[1] = h.class /\ d.address[2] = h.subclass
    [] d.type = "CLASSSUBCLASSPROGIF" -> d.address = <<h.class, h.subclass, h.prog_if>>

\* devman_handle_pcie_device, while the drivers in refusing return false:
\* the number in the list of the one that takes the function, or 0.
Taker(h, refusing) ==
  LET willing == {i \in DOMAIN drivers : Fits(drivers[i], h) /\ i \notin refusing}
  IN  IF willing = {} THEN 0 ELSE Min(willing)

PlaceOf(index) == <<index \div PerBus, (index % PerBus) \div FunctionCount, index % FunctionCount>>

\* One round of the scan in pcie_init: the names are for the log.
ScanFunction ==
  /\ boot = "scan" /\ next < BusCount * PerBus
  /\ LET p == PlaceOf(next)
         page == PcieGetDevice(p)
         h == HeaderAt(page)
     IN  IF page = NULL \/ ~Present(h)
           THEN UNCHANGED <<handed, registry>>
           ELSE /\ \E refusing \in SUBSET {i \in DOMAIN drivers : Fits(drivers[i], h)} :
                     handed' = Append(handed, [at |-> p, page |-> page, refusing |-> refusing,
                                               driver |-> Taker(h, refusing),
                                               vendor |-> PciGetVendorName(p),
                                               device |-> PciGetDeviceName(p)])
                /\ Searched({"pci_vendors", "pci_devices"})
  /\ next' = next + 1
  /\ UNCHANGED <<machine, acpi, boot, pcie, drivers, last>>

PcieInitDone ==
  /\ boot = "scan" /\ next = BusCount * PerBus
  /\ boot' = "up"
  /\ UNCHANGED <<machine, acpi, pcie, registry, drivers, next, handed, last>>

-----------------------------------------------------------------------------
(***************************************************************************)
(* Questions.                                                              *)
(***************************************************************************)
MayAsk == boot \in {"acpi", "up"}
Over == boot' = IF boot = "up" THEN "up over" ELSE "acpi over"

AskNames ==
  /\ MayAsk
  /\ \E p \in Places :
       \/ Asked("class", p, PciGetClassname(p)) /\ UNCHANGED registry
       \/ Asked("subclass", p, PciGetSubclassname(p)) /\ UNCHANGED registry
       \/ Asked("type", p, PciGetTypename(p)) /\ UNCHANGED registry
       \/ Asked("vendor", p, PciGetVendorName(p)) /\ Searched({"pci_vendors"})
  /\ Over
  /\ UNCHANGED <<machine, acpi, pcie, drivers, next, handed>>

AskSearch ==
  /\ MayAsk
  /\ \E s \in Searches :
       \/ EveryPageKnown /\ Asked("search", s, PciSearch(s.ids, s.number)) /\ Over
       \/ EveryPageKnown /\ Asked("count", s, PciGetCount(s.ids)) /\ Over
       \/ ~EveryPageKnown /\ Fault /\ UNCHANGED last
  /\ UNCHANGED <<machine, acpi, pcie, registry, drivers, next, handed>>

Init == /\ machine \in Machines
        /\ acpi = AcpiNothing /\ pcie = PcieInitialState
        /\ registry = [k \in {"pci_vendors", "pci_devices"} |-> 0]
        /\ boot = "drivers" /\ drivers = <<>> /\ next = 0 /\ handed = <<>>
        /\ last = [what |-> "none", arg |-> NULL, answer |-> NULL]

Next == \/ DevmanAddDrivers \/ RunAcpi \/ RunLai \/ PcieInit \/ ScanFunction \/ PcieInitDone
        \/ AskNames \/ AskSearch

Spec == Init /\ [][Next]_vars

-----------------------------------------------------------------------------
\* The segment that a bus is scanned in: that of the first entry that has it.
SegmentOf(b) ==
  LET hits == {i \in DOMAIN machine.mcfg : b \in machine.mcfg[i].start .. machine.mcfg[i].end}
  IN  IF hits = {} THEN NULL ELSE machine.mcfg[Min(hits)].segment

ThereIs(p) == SegmentOf(p[1]) # NULL /\ Present(Function(SegmentOf(p[1]), p))

\* When the scan is over, the drivers were given every function of the first
\* segment of each bus that the MCFG lists, each once and in order, unless
\* the MCFG has so many entries that their number wraps (pcie_init,
\* pcie_get_device).
ScanFinds ==
  boot = "up" /\ Len(machine.mcfg) < RegionMod =>
    /\ {handed[i].at : i \in DOMAIN handed} = {p \in Places : ThereIs(p)}
    /\ \A i, j \in DOMAIN handed : i < j => Index(handed[i].at) < Index(handed[j].at)

\* A function's driver matches it, and every other driver that matches and
\* registered later has refused it; a function is left without a driver only
\* if all that match have refused it.  A driver that names ids or codes never
\* gets a function that differs in one of them (devman_handle_pcie_device).
DriverFits ==
  \A i \in DOMAIN handed :
    LET h == HeaderAt(handed[i].page)
        values == [VENDOR |-> <<h.vendor>>, VENDORDEVICE |-> <<h.vendor, h.device>>,
                   CLASS |-> <<h.class>>, CLASSSUBCLASS |-> <<h.class, h.subclass>>,
                   CLASSSUBCLASSPROGIF |-> <<h.class, h.subclass, h.prog_if>>]
        matching == {c \in DOMAIN Constructors :
                       Constructors[c].address = values[Constructors[c].type]}
        refused == {Len(Constructors) + 1 - r : r \in handed[i].refusing}
        taker == Len(Constructors) + 1 - handed[i].driver
    IN  IF handed[i].driver = 0 THEN matching \subseteq refused
        ELSE taker \in matching /\ \A c \in matching : c > taker => c \in refused

\* The first module that is a registry of that kind, if there is one.
Registry(kind) ==
  {i \in DOMAIN machine.modules :
     /\ machine.modules[i].cmdline = kind
     /\ \A j \in DOMAIN machine.modules : machine.modules[j].cmdline = kind => i <= j}

\* What has no name in the table that is asked: a class below 0x40 that codes.h
\* does not list, and the interface of a SATA or VGA controller for which the
\* switch of the interfaces' names has none.
Nameless(what, codes) ==
  \/ codes.class < 64 /\ codes.class \notin Classes
  \/ /\ what = "type" /\ <<codes.class, codes.subclass>> \in {<<1, 6>>, <<3, 0>>}
     /\ GetProgifName(codes.class, codes.subclass, codes.prog_if) = NoName

\* Once PCIe is up, a name is read from outside of its table exactly for the
\* codes that are nameless, whatever the codes of the device: for all others the
\* code's checks keep it inside.  The class name is that of the device's own
\* class, and the vendor in the log is the one that the registry has for the id
\* (pci_get_classname, pci_get_typename, _get_vendor_name).
NamesInside ==
  /\ \A i \in DOMAIN handed :
       LET vendor == HeaderAt(handed[i].page).vendor
           known == {r \in UNION {ToSet(machine.modules[j].records) : j \in Registry("pci_vendors")} :
                       r.key = vendor}
       IN  IF known = {} THEN handed[i].vendor = NoName
           ELSE \E r \in known : handed[i].vendor = r.name
  /\ boot = "up over" /\ last.what \in {"class", "type"} /\ ~Unreached(last.arg) =>
       LET codes == CodesAt(last.arg)
       IN  /\ last.answer = Outside <=> Nameless(last.what, codes)
           /\ last.what = "class" /\ codes.class \in 0 .. 19 => last.answer = <<"class", codes.class>>

\* The search for number n of some ids succeeds exactly when n is less than
\* their count, and finds a function with n matching ones before it, through
\* the ports or, unless the number of regions wraps, through memory
\* (pci_search, pci_get_count).
SearchCounts ==
  last.what = "search" /\ (pcie.initialized => Len(machine.mcfg) < RegionMod) =>
    LET Segment(p) == IF pcie.initialized THEN SegmentOf(p[1]) ELSE 0
        matching == {p \in Places : LET h == Function(Segment(p), p)
                                    IN  <<h.vendor, h.device>> = last.arg.ids}
    IN  /\ last.answer.exists <=> last.arg.number < Cardinality(matching)
        /\ last.answer.exists =>
             /\ last.answer.at \in matching
             /\ Cardinality({q \in matching : Index(q) < Index(last.answer.at)}) = last.arg.number
=============================================================================
