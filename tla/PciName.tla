------------------------------ MODULE PciName ------------------------------
(***************************************************************************)
(* The names of devices, kernel/src/hw/pci/pci_name.c.  A name is the      *)
(* table or switch it comes from with its place there; NoName is the "-"   *)
(* of the code, and Outside what it reads past a table's end.              *)
(***************************************************************************)
EXTENDS Pcie

VARIABLE registry  \* kind of registry -> the module that was found, or 0

Outside == <<"outside">>
NoName == <<"-">>

\* The class codes that codes.h lists.
Classes == (0 .. 19) \cup {64, 255}

-----------------------------------------------------------------------------
(***************************************************************************)
(* Tables and switches.                                                    *)
(***************************************************************************)
ClassNameCount == 20

Entry(table, i, count) == IF i < count THEN <<table, i>> ELSE Outside

MassStorageNames == (0 .. 8) \cup {128}
SerialBusNames == (0 .. 9) \cup {128}
BridgeNames == (0 .. 10) \cup {128}
NetworkNames == (0 .. 8) \cup {128}

GetSubclassName(c, sc) ==
  IF \/ c = 1 /\ sc \in MassStorageNames
     \/ c = 2 /\ sc \in NetworkNames
     \/ c = 3 /\ sc = 0
     \/ c = 6 /\ sc \in BridgeNames
     \/ c = 12 /\ sc \in SerialBusNames
    THEN <<"subclass", c, sc>> ELSE NoName

GetProgifName(c, sc, pi) ==
  IF \/ c = 1 /\ sc = 6 /\ pi \in 0 .. 2
     \/ c = 3 /\ sc = 0 /\ pi \in 0 .. 1
     \/ c = 12 /\ sc = 3 /\ pi \in {0, 16, 32, 48, 128, 254}
    THEN <<"progif", c, sc, pi>> ELSE NoName

ClassName(c) == IF c < 64 THEN Entry("class", c, ClassNameCount) ELSE NoName

\* Mutant: the table of the USB controllers is indexed without a check.
TypeNameUnguarded(c, sc, pi) ==
  CASE c = 1  -> IF sc = 6 THEN Entry("sata", pi, 3) ELSE <<"SATA Controller">>
    [] c = 3  -> IF sc = 0 THEN Entry("vga", pi, 2) ELSE GetSubclassName(c, sc)
    [] c = 12 -> IF sc = 3 THEN Entry("usb", pi \div 16, 4) ELSE GetSubclassName(c, sc)
    [] OTHER  -> ClassName(c)

TypeName(c, sc, pi) ==
  CASE c = 1  -> IF sc = 6 THEN Entry("sata", pi, 3) ELSE <<"SATA Controller">>
    [] c = 3  -> IF sc = 0 THEN Entry("vga", pi, 2) ELSE GetSubclassName(c, sc)
    [] c = 12 -> IF sc # 3 THEN GetSubclassName(c, sc)
                 ELSE IF pi \div 16 > 3 THEN GetProgifName(c, sc, (pi \div 16) * 16)
                 ELSE Entry("usb", pi \div 16, 4)
    [] OTHER  -> ClassName(c)

-----------------------------------------------------------------------------
(***************************************************************************)
(* The registries, modules that the boot loader loads: a sequence of       *)
(* records, searched from the first.  The module is looked for until it is *)
(* found for the first time; its command line has to begin with its kind.  *)
(***************************************************************************)
RegistryNow(kind) ==
  IF registry[kind] # 0 THEN registry[kind]
  ELSE LET hits == {i \in DOMAIN machine.modules : machine.modules[i].cmdline = kind}
       IN  IF hits = {} THEN 0 ELSE Min(hits)

Record(kind, key) ==
  IF RegistryNow(kind) = 0 THEN NoName
  ELSE LET records == machine.modules[RegistryNow(kind)].records
           hits == {i \in DOMAIN records : records[i].key = key}
       IN  IF hits = {} THEN NoName ELSE records[Min(hits)].name

GetVendorName(vendor) == Record("pci_vendors", vendor)
GetDeviceName(vendor, device) == Record("pci_devices", <<vendor, device>>)

\* What a search leaves: where the registries of these kinds were found.
Searched(kinds) == registry' = [k \in DOMAIN registry |->
                                  IF k \in kinds THEN RegistryNow(k) ELSE registry[k]]

\* The modules of the boot loader, and the records in them, are sequences.
ASSUME ModulesAssumption ==
  \A m \in Machines :
    /\ DOMAIN m.modules \subseteq Nat \ {0}
    /\ \A i \in DOMAIN m.modules : DOMAIN m.modules[i].records \subseteq Nat

-----------------------------------------------------------------------------
(***************************************************************************)
(* The names of the function at p.  Through the ports, what goes for its   *)
(* class is the low byte of the word that has the class in the high one.   *)
(***************************************************************************)
CodesAt(p) ==
  IF pcie.initialized
    THEN LET h == HeaderAt(PcieGetDevice(p))
         IN  [class |-> h.class, subclass |-> h.subclass, prog_if |-> h.prog_if]
    ELSE [class |-> PciConfigReadWord(p, OffsetClass) % 256,
          subclass |-> PciConfigReadWord(p, OffsetClass) % 256,
          prog_if |-> PciConfigReadByte(p, OffsetProgIf)]

Unreached(p) == pcie.initialized /\ PcieGetDevice(p) = NULL

PciGetClassname(p) == IF Unreached(p) THEN NoName ELSE ClassName(CodesAt(p).class)

PciGetSubclassname(p) ==
  IF Unreached(p) THEN NoName ELSE GetSubclassName(CodesAt(p).class, CodesAt(p).subclass)

PciGetTypename(p) ==
  IF Unreached(p) THEN NoName
  ELSE TypeName(CodesAt(p).class, CodesAt(p).subclass, CodesAt(p).prog_if)

PciGetVendorName(p) == IF Unreached(p) THEN NoName ELSE GetVendorName(VendorDevice(p)[1])

PciGetDeviceName(p) ==
  IF Unreached(p) THEN NoName ELSE GetDeviceName(VendorDevice(p)[1], VendorDevice(p)[2])
=============================================================================
