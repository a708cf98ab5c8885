--------------------------- MODULE PageAllocator ---------------------------
(***************************************************************************)
(* What the users of the physical memory manager rely on                   *)
(* (kernel/include/mm/pmm.h): a set of free page frames that the boot      *)
(* code seeds, and from which blocks of consecutive frames are handed out  *)
(* and given back.  A frame is never handed out twice, and after boot no   *)
(* frame is lost.                                                          *)
(***************************************************************************)
EXTENDS Integers

CONSTANTS Frames,  \* the page frames of the machine
          Counts   \* the block sizes callers ask for

VARIABLES free,    \* the frames the allocator may hand out
          held,    \* the frames handed out and not given back
          booted   \* has the allocator been seeded?

Vars == <<free, held, booted>>

Block(start, count) == start .. start + count - 1

Init == free = {} /\ held = {} /\ booted = FALSE

\* While booting, the allocator learns which frames it may use.
Seed == /\ ~booted
        /\ free' \subseteq Frames
        /\ booted' \in BOOLEAN
        /\ UNCHANGED held

Alloc == /\ booted
         /\ \E start \in Frames, count \in Counts :
              /\ Block(start, count) \subseteq free
              /\ free' = free \ Block(start, count)
              /\ held' = held \cup Block(start, count)
         /\ UNCHANGED booted

Free == /\ booted
        /\ \E start \in Frames, count \in Counts :
             /\ Block(start, count) \subseteq held
             /\ free' = free \cup Block(start, count)
             /\ held' = held \ Block(start, count)
        /\ UNCHANGED booted

Next == Seed \/ Alloc \/ Free

Spec == Init /\ [][Next]_Vars
=============================================================================
