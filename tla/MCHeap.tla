------------------------------- MODULE MCHeap -------------------------------
(***************************************************************************)
(* Two CPUs and a heap of two pages that can grow by two more.  A page has *)
(* 8 units, so that a block may fill a page exactly, leave a rest that is  *)
(* too small to split off, or need more pages than one.  The heap begins   *)
(* at page 221 of base 3, so that it grows over the ends of page tables.   *)
(* Four pages and six tables are ten frames; the eleventh is the one whose *)
(* taking does not return.                                                 *)
(* The CPUs are not declared symmetric because liveness is checked.        *)
(***************************************************************************)
EXTENDS Heap
=============================================================================
