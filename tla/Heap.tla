-------------------------------- MODULE Heap --------------------------------
(***************************************************************************)
(* The kernel heap, kernel/src/mm/heap.c: segments with a header each, in  *)
(* a doubly linked list over a region that expand_heap lets grow by whole  *)
(* pages.  kmalloc takes the first segment that fits and splits it; kfree  *)
(* joins the segment with its free neighbours.                             *)
(*                                                                         *)
(* Addresses and sizes are in units of 16 bytes, to which kmalloc rounds,  *)
(* relative to HEAP_BASE.  _heap_lock is held from the beginning of a pass *)
(* over the list to its end, so a pass is one action; a kmalloc that had   *)
(* to expand the heap gives the lock up and starts over, and any other CPU *)
(* may come in between.                                                    *)
(*                                                                         *)
(* The region's pages are requested and mapped one by one (module Vmm).    *)
(* The request that takes the last free page does not return: the CPU is   *)
(* in _fix_memtags for ever, with _heap_lock taken.                        *)
(*                                                                         *)
(* Callers keep the contract of kfree: they free blocks they hold.  Under  *)
(* it the canaries are never wrong, so their checks are left out, and so   *)
(* are the byte counters.                                                  *)
(***************************************************************************)
EXTENDS Vmm, FiniteSets, Functions

CONSTANTS Cpus,          \* the CPUs that call kmalloc and kfree
          Sizes,         \* the sizes asked for, after rounding
          PageUnits,     \* 0x1000 bytes
          InitialPages,  \* CONFIG_HEAP_INITIAL_PAGES
          HeapBase       \* the number of the page at HEAP_BASE

Header == 3  \* sizeof(HeapSegment) is 48 bytes

ASSUME SizesAssumption == Sizes \subseteq Nat \ {0}
ASSUME PagesAssumption == /\ PageUnits \in Nat /\ PageUnits > Header
                          /\ InitialPages \in Nat \ {0} /\ InitialPages < NumFrames
                          /\ HeapBase \in Nat
\* All memory would fit behind HEAP_BASE, and off the entry of the root table
\* that refers to the root: there are 0x800000 pages up to the last address.
ASSUME HeapSpaceAssumption ==
  \A n \in 0 .. NumFrames - 1 : /\ HeapBase + n < Radix * (Radix * (Radix * Radix))
                                /\ Indices(HeapBase + n)[1] # FractalIndex

VARIABLES seg,        \* address of a header -> what the header says
          heap_last,  \* _heap_last; _heap_first is always address 0
          heap_top,   \* the end of the mapped region
          paging,     \* the page tables and the free pages of memory
          pending,    \* CPU -> the size its kmalloc asks for, or 0
          held,       \* history: header address -> the size the caller asked for
          stuck       \* is a CPU in request_page for ever, in expand_heap?

vars == <<seg, heap_last, heap_top, paging, pending, held, stuck>>

NULL == -1
Address == 0 .. NumFrames * PageUnits - 1
Segment == [size : Nat, prev : Address \cup {NULL}, next : Address \cup {NULL},
            used : BOOLEAN]

heap_first == 0

End(s, a) == a + Header + s[a].size

\* heap_init requests its pages at once and maps them then, one by one.
InitialPaging ==
  LET mapped[n \in 0 .. InitialPages] ==
        IF n = 0 THEN [VmmInit EXCEPT !.free = @ \ (1 .. InitialPages)]
        ELSE VmmMap(mapped[n - 1], HeapBase + n - 1, n)
  IN  mapped[InitialPages]

\* heap_init; the boot goes on only if its requests return.
Init == /\ paging = InitialPaging /\ ~paging.out
        /\ seg = [a \in {heap_first} |->
                    [size |-> InitialPages * PageUnits - Header,
                     prev |-> NULL, next |-> NULL, used |-> FALSE]]
        /\ heap_last = heap_first
        /\ heap_top = InitialPages * PageUnits
        /\ pending = [c \in Cpus |-> 0]
        /\ held = [a \in {} |-> 0]
        /\ stuck = FALSE

-----------------------------------------------------------------------------
(***************************************************************************)
(* The list.  A list l has the headers l.seg and the last segment l.last.  *)
(***************************************************************************)
List == [seg |-> seg, last |-> heap_last]

\* Mutant: a neighbour in use is joined as well.
CombineForwardUsed(l, a) ==
  LET n == l.seg[a].next
  IN  IF n = NULL \/ n # End(l.seg, a)
        THEN l
        ELSE [seg  |-> [x \in DOMAIN l.seg \ {n} |->
                          IF x = a THEN [l.seg[a] EXCEPT !.size = @ + Header + l.seg[n].size,
                                                         !.next = l.seg[n].next]
                          ELSE IF x = l.seg[n].next THEN [l.seg[x] EXCEPT !.prev = a]
                          ELSE l.seg[x]],
              last |-> IF n = l.last THEN a ELSE l.last]

\* Mutant: the segment behind the joined one still points back at it.
CombineForwardOneWay(l, a) ==
  LET n == l.seg[a].next
  IN  IF n = NULL \/ l.seg[n].used \/ n # End(l.seg, a)
        THEN l
        ELSE [seg  |-> [x \in DOMAIN l.seg \ {n} |->
                          IF x = a THEN [l.seg[a] EXCEPT !.size = @ + Header + l.seg[n].size,
                                                         !.next = l.seg[n].next]
                          ELSE l.seg[x]],
              last |-> IF n = l.last THEN a ELSE l.last]

\* Segment a swallows the next one if that is free and begins where a ends.
CombineForward(l, a) ==
  LET n == l.seg[a].next
  IN  IF n = NULL \/ l.seg[n].used \/ n # End(l.seg, a)
        THEN l
        ELSE [seg  |-> [x \in DOMAIN l.seg \ {n} |->
                          IF x = a THEN [l.seg[a] EXCEPT !.size = @ + Header + l.seg[n].size,
                                                         !.next = l.seg[n].next]
                          ELSE IF x = l.seg[n].next THEN [l.seg[x] EXCEPT !.prev = a]
                          ELSE l.seg[x]],
              last |-> IF n = l.last THEN a ELSE l.last]

\* Mutant: only the right neighbour is joined.
CombineBackwardNever(l, a) == l

\* The previous segment, if it is free, swallows a.
CombineBackward(l, a) ==
  LET p == l.seg[a].prev
  IN  IF p = NULL \/ l.seg[p].used THEN l ELSE CombineForward(l, p)

\* Mutant: the header of the new segment is not counted.
SplitRestWithHeader(s, a, size) == s[a].size - size

\* What is left for the segment that Split cuts off.
SplitRest(s, a, size) == s[a].size - size - Header

\* The first size units of segment a stay in a, the rest becomes a segment.
Split(l, a, size) ==
  LET new == a + Header + size
  IN  [seg  |-> [x \in DOMAIN l.seg \cup {new} |->
                   IF x = new THEN [size |-> SplitRest(l.seg, a, size),
                                    prev |-> a, next |-> l.seg[a].next,
                                    used |-> l.seg[a].used]
                   ELSE IF x = a THEN [l.seg[a] EXCEPT !.size = size, !.next = new]
                   ELSE IF x = l.seg[a].next THEN [l.seg[x] EXCEPT !.prev = new]
                   ELSE l.seg[x]],
       last |-> IF l.last = a THEN new ELSE l.last]

\* A free segment of size units behind the last one.
AppendSegment(l, size) ==
  LET new == End(l.seg, l.last)
  IN  [seg  |-> [x \in DOMAIN l.seg \cup {new} |->
                   IF x = new THEN [size |-> size, prev |-> l.last, next |-> NULL,
                                    used |-> FALSE]
                   ELSE IF x = l.last THEN [l.seg[x] EXCEPT !.next = new]
                   ELSE l.seg[x]],
       last |-> new]

SetUsed(l, a) == [l EXCEPT !.seg[a].used = TRUE]

SetFree(l, a) == [l EXCEPT !.seg[a].used = FALSE]

UpdateList(l) == seg' = l.seg /\ heap_last' = l.last

-----------------------------------------------------------------------------
(***************************************************************************)
(* kmalloc.                                                                *)
(***************************************************************************)
Fits(a, size) == ~seg[a].used /\ seg[a].size >= size

\* The walk goes along the list, which is in the order of the addresses.
FirstFit(a, size) == /\ a \in DOMAIN seg
                     /\ Fits(a, size)
                     /\ \A b \in DOMAIN seg : b < a => ~Fits(b, size)

\* Mutant: the segment is split whenever it is larger than the request.
WorthSplittingAlways(a, size) == seg[a].size > size

WorthSplitting(a, size) == seg[a].size > size + 2 * Header

\* Mutant: the space for the header of the new segment is forgotten.
PagesForData(size) == (size + PageUnits - 1) \div PageUnits

\* Mutant: expand_heap rounds down.
PagesRoundedDown(size) == (size + Header) \div PageUnits

\* The pages that kmalloc has expand_heap add: size and a header, rounded up.
PagesFor(size) == (size + Header + PageUnits - 1) \div PageUnits

\* The page at heap_top.
TopPage == HeapBase + heap_top \div PageUnits

\* The loop of expand_heap: a page is requested and mapped, and so on.
MapPages(m, first, pages) ==
  LET mapped[n \in 0 .. pages] ==
        IF n = 0 THEN m ELSE MapNew(mapped[n - 1], first + n - 1)
  IN  mapped[pages]

\* The call, which then waits for the lock: also while that is not given back.
Kmalloc(c, size) == /\ pending[c] = 0
                    /\ pending' = [pending EXCEPT ![c] = size]
                    /\ UNCHANGED <<seg, heap_last, heap_top, paging, held, stuck>>

\* A pass that finds a segment.
Take(c) == /\ ~stuck
           /\ pending[c] # 0
           /\ \E a \in DOMAIN seg :
                /\ FirstFit(a, pending[c])
                /\ LET l == IF WorthSplitting(a, pending[c])
                              THEN Split(List, a, pending[c]) ELSE List
                   IN  UpdateList(SetUsed(l, a))
                /\ held' = [x \in DOMAIN held \cup {a} |->
                              IF x = a THEN pending[c] ELSE held[x]]
           /\ pending' = [pending EXCEPT ![c] = 0]
           /\ UNCHANGED <<heap_top, paging, stuck>>

\* A pass that finds none: the heap grows, and the call starts over, if the
\* requests of pages return.
Expand(c) ==
  /\ ~stuck
  /\ pending[c] # 0
  /\ \A a \in DOMAIN seg : ~Fits(a, pending[c])
  /\ LET pages == PagesFor(pending[c])
         grown == pages * PageUnits
         l == AppendSegment(List, grown - Header)
         mapped == MapPages(paging, TopPage, pages)
     IN  IF mapped.out
           THEN stuck' = TRUE /\ UNCHANGED <<seg, heap_last, heap_top, paging>>
           ELSE /\ heap_top' = heap_top + grown
                /\ paging' = mapped
                /\ UpdateList(CombineBackward(l, l.last))
                /\ UNCHANGED stuck
  /\ UNCHANGED <<pending, held>>

-----------------------------------------------------------------------------
(***************************************************************************)
(* kfree of a block that the caller got from kmalloc.                      *)
(***************************************************************************)
Kfree(c, a) ==
  /\ ~stuck
  /\ pending[c] = 0
  /\ a \in DOMAIN held
  /\ LET freed == CombineForward(SetFree(List, a), a)
     IN  UpdateList(CombineBackward(freed, a))
  /\ held' = Restrict(held, DOMAIN held \ {a})
  /\ UNCHANGED <<heap_top, paging, pending, stuck>>

Next == \E c \in Cpus : \/ \E size \in Sizes : Kmalloc(c, size)
                        \/ Take(c)
                        \/ Expand(c)
                        \/ \E a \in Address : Kfree(c, a)

\* A CPU inside kmalloc gets the lock in the end and goes on.  The spin lock
\* keeps no queue, so this is an assumption: each CPU wins the race at last.
Spec == Init /\ [][Next]_vars /\ \A c \in Cpus : WF_vars(Take(c) \/ Expand(c))

-----------------------------------------------------------------------------
(***************************************************************************)
(* Properties.                                                             *)
(***************************************************************************)

\* Headers lie in the mapped region and have the fields of a HeapSegment.
TypeOK == /\ DOMAIN seg \subseteq Address
          /\ \A a \in DOMAIN seg : seg[a] \in Segment
          /\ heap_last \in DOMAIN seg
          /\ heap_top \in 0 .. NumFrames * PageUnits
          /\ pending \in [Cpus -> Sizes \cup {0}]
          /\ \A a \in DOMAIN held : held[a] \in Sizes
          /\ stuck \in BOOLEAN

\* The segments tile the region: each ends where the next one in the list
\* begins, and the last one at heap_top.  No two blocks share memory, no byte
\* is lost, and the walk of kmalloc goes through all headers in order.
Tiling == /\ heap_first \in DOMAIN seg
          /\ \A a \in DOMAIN seg :
               /\ IF a = heap_last THEN seg[a].next = NULL /\ End(seg, a) = heap_top
                                   ELSE seg[a].next = End(seg, a) /\ seg[a].next \in DOMAIN seg
               /\ a # heap_first => \E b \in DOMAIN seg : seg[b].next = a

\* The list can be walked backwards: kfree finds the left neighbour by it.
Linked == \A a \in DOMAIN seg :
            IF seg[a].prev = NULL THEN a = heap_first
                                  ELSE /\ seg[a].prev \in DOMAIN seg
                                       /\ seg[seg[a].prev].next = a

\* Free neighbours are always joined: freeing in any order on any CPU leaves
\* no fragments behind.
Coalesced == \A a, b \in DOMAIN seg : seg[a].next = b => seg[a].used \/ seg[b].used

\* The blocks in use are those callers hold, each with at least the memory
\* that was asked for: no join, split or expansion of another CPU's call takes
\* a block from under its holder, and none is leaked.
HeldIntact == /\ DOMAIN held = {a \in DOMAIN seg : seg[a].used}
              /\ \A a \in DOMAIN held : seg[a].size >= held[a]

\* Each page of the heap, and none behind it, is mapped, to a frame of its own
\* that is neither free nor a page table: growth over the ends of tables loses
\* no page that was mapped before (vmm_map, expand_heap).
HeapMapped ==
  LET heap == HeapBase .. TopPage - 1
      taken == {VmmMapping(paging, v) : v \in heap}
      leaves == UNION {Range(paging.table[t]) : t \in Tables(paging)}
  IN  /\ Absent \notin taken /\ Cardinality(taken) = Cardinality(heap)
      /\ leaves \subseteq taken \cup Tables(paging) \cup {Absent}
      /\ taken \cap (paging.free \cup Tables(paging)) = {}

\* One expansion is enough: afterwards a segment fits the request for which
\* the heap was expanded, whatever the last segment was.
ExpansionSuffices ==
  [][\A c \in Cpus : Expand(c) /\ ~stuck' =>
       \E a \in DOMAIN seg' : ~seg'[a].used /\ seg'[a].size >= pending[c]]_vars

\* kmalloc, which starts over after each expansion, returns, though other CPUs
\* may take what it had the heap expanded for: they cannot keep it at that,
\* for each expansion takes pages.  Only the expansion that takes the last page
\* keeps every call, its own and those of all other CPUs, from returning.
KmallocEnds == \A c \in Cpus : pending[c] # 0 ~> pending[c] = 0 \/ stuck
=============================================================================
