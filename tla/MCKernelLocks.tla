--------------------------- MODULE MCKernelLocks ----------------------------
(***************************************************************************)
(* Two CPUs run the functions that take locks, again and again.            *)
(***************************************************************************)
EXTENDS KernelLocks
=============================================================================
