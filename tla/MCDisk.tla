------------------------------- MODULE MCDisk -------------------------------
(* Port 0 and port 5 have SATA drives; the drive at port 3 sleeps.  Two of   *)
(* the images are GPT drives, one with an entry over the header's place.     *)
EXTENDS Devman

Works == [detection |-> "present", power |-> "active", signature |-> "ata"]
MCAttached == 0 :> Works @@ 3 :> [Works EXCEPT !.power = "asleep"] @@ 5 :> Works
MCBuffers == {"page", "own0", "own3", "own5", "user"}
MCOwnPage == 0 :> "own0" @@ 3 :> "own3" @@ 5 :> "own5"
MCSlots == 0 .. 2
MCSectors == 0 .. 3
NoGpt == [valid |-> FALSE, bootcode |-> TRUE, entries |-> 0, array |-> 2, used |-> {}]
Empty == [valid |-> TRUE, bootcode |-> FALSE, entries |-> 0, array |-> 2, used |-> {}]
One == [Empty EXCEPT !.bootcode = TRUE, !.entries = 2, !.used = {2}]
MCImages == {NoGpt, Empty, One}

\* Three SATA drives without partitions, for the table of the storages.
EmptyDrives == {Empty}
AllSata == [p \in {0, 1, 2} |-> Works]
AllBuffers == {"page", "own0", "own1", "own2", "user"}
AllOwnPages == 0 :> "own0" @@ 1 :> "own1" @@ 2 :> "own2"
=============================================================================
