-------------------------------- MODULE Vmm --------------------------------
(***************************************************************************)
(* The page tables, kernel/src/mm/vmm.c: a table has Radix entries (512),  *)
(* and four of them, one of each level, lead to a page.  The entry         *)
(* FractalIndex of the root refers to the root itself, so that each table  *)
(* is a page at an address of its own, and vmm_map gets at it there.       *)
(*                                                                         *)
(* Pages of memory are frames, frame 0 is the root.  Flags are left out:   *)
(* what vmm_map enters is present and writeable.  No large page of the     *)
(* boot loader lies where the kernel maps pages.                           *)
(***************************************************************************)
EXTENDS Integers, FiniteSetsExt, Sequences

CONSTANTS Radix, FractalIndex, \* 512 and 260
          NumFrames            \* what request_page can give, from frame 1

ASSUME VmmAssumption == /\ Radix \in Nat \ {0} /\ NumFrames \in Nat
                        /\ FractalIndex \in 0 .. Radix - 1

Absent == -1
EmptyTable == [i \in 0 .. Radix - 1 |-> Absent]

\* The paging structures m: frames that are free, what each frame is as a
\* table, and whether a request of a page did not return.
VmmInit == [free |-> 1 .. NumFrames, out |-> FALSE,
            table |-> [f \in Absent .. NumFrames |->
                         IF f = 0 THEN [EmptyTable EXCEPT ![FractalIndex] = 0] ELSE EmptyTable]]

Tables(m) == {f \in DOMAIN m.table : m.table[f] # EmptyTable}

\* The indices pdp_i, pd_i, pt_i and p_i of page number v.
Indices(v) == LET pt == v \div Radix
                  pd == pt \div Radix
              IN  <<(pd \div Radix) % Radix, pd % Radix, pt % Radix, v % Radix>>

\* The frame that four indices lead to, as the processor follows them.
Translate(m, i) == m.table[m.table[m.table[m.table[0][i[1]]][i[2]]][i[3]]][i[4]]

\* The address of the table that the first indices lead to: VMM_FRACTAL_PML4,
\* VMM_FRACTAL_PDP, VMM_FRACTAL_PD and VMM_FRACTAL_PT.
Fractal(path) == [k \in 1 .. 4 |-> IF k <= 4 - Len(path) THEN FractalIndex ELSE path[k - 4 + Len(path)]]

TableAt(m, path) == Translate(m, Fractal(path))

LastFrame(m) == \A f, g \in m.free : f = g

\* request_page.  With the last frame the list of the page allocator becomes
\* empty, and _fix_memtags goes on from there practically for ever (pmm.c:30,
\* and the operation "endless" of module Pmm): that request does not return,
\* and the panic of a later one is not reached.
Request(m) == IF LastFrame(m) THEN [m EXCEPT !.out = TRUE] ELSE [m EXCEPT !.free = @ \ {Min(@)}]

NewTable(m, t, i) ==
  IF LastFrame(m) THEN Request(m)
  ELSE LET f == Min(m.free)
       IN  [Request(m) EXCEPT !.table[t][i] = f, !.table[f] = EmptyTable]

\* Op of m, for which m is evaluated once.
Once(m, Op(_)) == CHOOSE r \in {Op(n) : n \in {m}} : TRUE

\* Entry i of the table that path leads to.
Entry(m, path, i) == m.table[TableAt(m, path)][i]

\* It refers to a table afterwards.
Ensure(m, path, i) ==
  Once(m, LAMBDA n :
    IF n.out \/ Entry(n, path, i) # Absent THEN n ELSE NewTable(n, TableAt(n, path), i))

Enter(m, path, i, f) ==
  Once(m, LAMBDA n : IF n.out THEN n ELSE [n EXCEPT !.table[TableAt(n, path)][i] = f])

VmmMap(m, v, f) ==
  LET d == Indices(v)
      pdp == Ensure(m, << >>, d[1])
      pd == Ensure(pdp, <<d[1]>>, d[2])
      pt == Ensure(pd, <<d[1], d[2]>>, d[3])
  IN  Enter(pt, <<d[1], d[2], d[3]>>, d[4], f)

\* The frame of page v, through the same tables.
VmmMapping(m, v) ==
  LET d == Indices(v)
  IN  IF Absent \in {Entry(m, << >>, d[1]), Entry(m, <<d[1]>>, d[2]), Entry(m, <<d[1], d[2]>>, d[3])}
        THEN Absent
        ELSE Entry(m, <<d[1], d[2], d[3]>>, d[4])

\* Mutant: the page's frame stays free.
MapNewUnmarked(m, v) ==
  Once(m, LAMBDA n : IF LastFrame(n) THEN Request(n) ELSE VmmMap(n, v, Min(n.free)))

\* A page that is requested and mapped at v.
MapNew(m, v) ==
  Once(m, LAMBDA n : IF LastFrame(n) THEN Request(n) ELSE VmmMap(Request(n), v, Min(n.free)))
=============================================================================
