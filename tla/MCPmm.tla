-------------------------------- MODULE MCPmm --------------------------------
(***************************************************************************)
(* A machine of thirteen page frames.  The maps have what maps of real     *)
(* machines have: a hole at address 0, reserved memory directly behind     *)
(* usable memory, usable entries side by side or shorter than the entry    *)
(* behind them, and an entry that is as long as the tag list.              *)
(***************************************************************************)
EXTENDS Pmm

Usable(base, length) == [base |-> base, length |-> length, usable |-> TRUE]
Reserved(base, length) == [base |-> base, length |-> length, usable |-> FALSE]

MCFrames == 0 .. 12
MCCounts == 0 .. 3
MCMemoryMaps == {
  <<Usable(1, 9), Reserved(11, 2)>>,
  <<Reserved(0, 1), Usable(1, 4), Usable(5, 5), Reserved(11, 1)>>,
  <<Usable(0, 4), Reserved(4, 1), Usable(5, 6), Reserved(11, 1)>>,
  <<Usable(0, 1), Usable(1, 2), Reserved(3, 1)>>,
  <<Reserved(0, 1), Usable(1, 4), Reserved(5, 1), Usable(6, 1), Reserved(7, 3)>>,
  <<Reserved(0, 2)>> }
=============================================================================
