------------------------------- MODULE MCBus -------------------------------
(* Two buses of two slots of two functions.  The first machines differ in    *)
(* their tables, the others in the codes of one device on them.              *)
EXTENDS Bus

Device(vendor, device, class, subclass, prog_if) ==
  [vendor |-> vendor, device |-> device, class |-> class, subclass |-> subclass,
   prog_if |-> prog_if, revision |-> 2]
Sata == Device(1, 1, 1, 6, 1)
Ide == Device(1, 2, 1, 1, 0)
Usb == Device(2, 1, 12, 3, 48)
Ghost == Device(1, 0, 1, 6, 1)

TwoSegments == (<<0, <<0, 0, 0>>>> :> Sata) @@ (<<0, <<0, 1, 1>>>> :> Ide) @@
               (<<0, <<1, 0, 1>>>> :> Sata) @@ (<<0, <<1, 1, 0>>>> :> Ghost) @@
               (<<1, <<1, 0, 0>>>> :> Usb) @@ (<<1, <<1, 0, 1>>>> :> Sata)
Span(segment, from, to, base) == [segment |-> segment, start |-> from, end |-> to, base |-> base]
Mcfgs == {<<>>, <<Span(0, 0, 1, 10)>>, <<Span(0, 0, 0, 10)>>, <<Span(0, 1, 1, 10), Span(0, 0, 0, 30)>>,
          <<Span(0, 0, 0, 10), Span(1, 1, 1, 30)>>, <<Span(0, 0, 1, 10), Span(1, 0, 1, 30)>>,
          <<Span(0, 0, 0, 10), Span(0, 1, 1, 20), Span(1, 1, 1, 30)>>}

Table(sig) == [signature |-> sig]
Roots == {NULL, <<Table("SSDT"), Table("MCFG")>>, <<Table("FACP"), Table("MCFG")>>}
Vendors == [cmdline |-> "pci_vendors",
            records |-> <<[key |-> 2, name |-> <<"two">>], [key |-> 1, name |-> <<"one">>]>>]
Devices == [cmdline |-> "pci_devices", records |-> <<[key |-> <<1, 1>>, name |-> <<"one.one">>]>>]

Machine(signed, revision, rsdt, mcfg, functions, modules) ==
  [signed |-> signed, revision |-> revision, rsdt |-> rsdt,
   xsdt |-> <<Table("FACP"), Table("MCFG")>>,
   mcfg |-> mcfg, functions |-> functions, modules |-> modules]

Codes == {<<c, s, p>> \in {0, 1, 3, 6, 12, 13, 19, 20, 63, 64, 255} \X {0, 3, 6, 128}
                           \X {0, 1, 2, 3, 16, 48, 64, 128, 254} : TRUE}

MCMachines ==
  {Machine(s, r, rsdt, <<Span(0, 0, 1, 10)>>, TwoSegments, <<Devices>>) :
     s \in BOOLEAN, r \in {0, 2}, rsdt \in Roots}
  \cup {Machine(TRUE, 2, NULL, mcfg, TwoSegments, <<Devices, Vendors>>) : mcfg \in Mcfgs}
  \cup {Machine(TRUE, 2, NULL, <<Span(0, 0, 1, 10)>>,
                <<0, <<0, 1, 0>>>> :> Device(1, 1, k[1], k[2], k[3]), <<Vendors>>) : k \in Codes}

MCConstructors ==
  <<[type |-> "CLASSSUBCLASSPROGIF", address |-> <<1, 6, 1>>],
    [type |-> "CLASSSUBCLASS", address |-> <<1, 1>>],
    [type |-> "CLASSSUBCLASSPROGIF", address |-> <<12, 3, 48>>],
    [type |-> "VENDORDEVICE", address |-> <<1, 2>>],
    [type |-> "CLASS", address |-> <<1>>],
    [type |-> "VENDOR", address |-> <<2>>]>>

MCSearches == [ids : {<<1, 1>>, <<2, 1>>}, number : 0 .. 3]
=============================================================================
