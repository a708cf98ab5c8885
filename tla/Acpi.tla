-------------------------------- MODULE Acpi --------------------------------
(***************************************************************************)
(* The tables that the firmware leaves, kernel/src/hw/acpi/acpi.c, and the *)
(* scan of them for the AML interpreter, kernel/src/lai_compat.c.  An      *)
(* address is the table it refers to: HHDM of an address that is already   *)
(* in the higher half changes nothing.                                     *)
(***************************************************************************)
EXTENDS Integers, Sequences, FiniteSetsExt, SequencesExt

CONSTANTS NULL,
          Machines  \* what firmware and hardware the kernel may find

VARIABLES machine,  \* the one it runs on
          acpi,     \* what acpi_init found
          boot      \* where hardware_enumerate is, and how it ended

\* A table has a signature; the root table, if there is one, refers to others.
\* The revision says which root counts.
AcpiNothing == [initialized |-> FALSE, got_xsdt |-> FALSE, root |-> NULL]

Panic == boot' = "panic"
Fault == boot' = "fault"  \* NULL was followed

RsdpBroken == ~machine.signed
NoRsdt == machine.revision # 2 /\ machine.rsdt = NULL

AcpiInitPanics ==
  /\ boot = "acpi" /\ (RsdpBroken \/ NoRsdt)
  /\ Panic
  /\ UNCHANGED acpi

AcpiInit ==
  /\ boot = "acpi" /\ ~RsdpBroken /\ ~NoRsdt
  /\ LET v2 == machine.revision = 2
     IN  acpi' = [initialized |-> TRUE, got_xsdt |-> v2,
                  root |-> IF v2 THEN machine.xsdt ELSE machine.rsdt]
  /\ boot' = "lai"

\* The first table with that signature (acpi_get64 and acpi_get32).
AcpiGet(id) ==
  IF ~acpi.initialized THEN NULL
  ELSE LET hits == {i \in DOMAIN acpi.root : acpi.root[i].signature = id}
       IN  IF hits = {} THEN NULL ELSE acpi.root[Min(hits)]

-----------------------------------------------------------------------------
(***************************************************************************)
(* The interpreter asks for tables while it creates its namespace: which   *)
(* ones, how often, and what it does with them is not this repository's.   *)
(* The DSDT is found through the FADT, of signature FACP.                  *)
(***************************************************************************)
LaihostScan(sig, index) ==
  /\ boot = "lai"
  /\ \/ index > 0 /\ Panic
     \/ index = 0 /\ sig = "DSDT" /\ AcpiGet("FACP") = NULL /\ Fault
     \/ index = 0 /\ (sig = "DSDT" => AcpiGet("FACP") # NULL) /\ UNCHANGED boot
  /\ UNCHANGED acpi

LaiDone == boot = "lai" /\ boot' = "enumerate" /\ UNCHANGED acpi
=============================================================================
