----------------------------- MODULE HeapProofs -----------------------------
(***************************************************************************)
(* Proofs about the page tables, for any size of a table, any place of the *)
(* entry that refers to the root, and any amount of memory; and about the  *)
(* kernel heap, whose memory they map, for any number of CPUs and any      *)
(* sizes.                                                                  *)
(***************************************************************************)
EXTENDS Heap, Numbers, FiniteSetTheorems, TLAPS

-----------------------------------------------------------------------------
(***************************************************************************)
(* The walk through the tables.                                            *)
(***************************************************************************)
Index == 0 .. Radix - 1

\* What can be mapped: the pages below the end of the root table's reach.
Pages == {v \in Nat : v < Radix * (Radix * (Radix * Radix))}

\* A page number has an index in each of the four tables.
LEMMA IndicesType ==
  ASSUME NEW v \in Nat
  PROVE  /\ Indices(v)[1] \in Index /\ Indices(v)[2] \in Index
         /\ Indices(v)[3] \in Index /\ Indices(v)[4] \in Index
         /\ Indices(v) = <<Indices(v)[1], Indices(v)[2], Indices(v)[3], Indices(v)[4]>>
<1> DEFINE a == v \div Radix
           b == a \div Radix
           c == b \div Radix
<1>1. a \in Nat /\ v % Radix \in Index
  BY VmmAssumption, DivMod DEF Index
<1> HIDE DEF a
<1>2. b \in Nat /\ a % Radix \in Index
  BY <1>1, VmmAssumption, DivMod DEF Index
<1> HIDE DEF b
<1>3. c \in Nat /\ b % Radix \in Index
  BY <1>2, VmmAssumption, DivMod DEF Index
<1> HIDE DEF c
<1>4. c % Radix \in Index
  BY <1>3, VmmAssumption, DivMod DEF Index
<1> QED BY <1>1, <1>2, <1>3, <1>4 DEF Indices, a, b, c

\* No two pages have the same indices.
LEMMA IndicesUnique ==
  ASSUME NEW v \in Pages, NEW w \in Pages,
         Indices(v)[1] = Indices(w)[1], Indices(v)[2] = Indices(w)[2],
         Indices(v)[3] = Indices(w)[3], Indices(v)[4] = Indices(w)[4]
  PROVE  v = w
<1> DEFINE D(x) == x \div Radix
<1>1. Radix \in Nat /\ Radix > 0 /\ v \in Nat /\ w \in Nat
  BY VmmAssumption DEF Pages
<1>2. ASSUME NEW x \in Nat
      PROVE  D(x) \in Nat /\ x = Radix * D(x) + (x % Radix)
  BY <1>1, DivMod
<1>3. ASSUME NEW x \in Pages
      PROVE  D(D(D(x))) % Radix = D(D(D(x)))
  <2>1. x \in Nat /\ x < Radix * (Radix * (Radix * Radix))
    BY DEF Pages
  <2>2. D(x) \in Nat /\ D(x) < Radix * (Radix * Radix)
    BY <1>1, <1>2, <2>1, DivBound, Radix * (Radix * Radix) \in Nat
  <2>3. D(D(x)) \in Nat /\ D(D(x)) < Radix * Radix
    BY <1>1, <1>2, <2>2, DivBound, Radix * Radix \in Nat
  <2>4. D(D(D(x))) \in Nat /\ D(D(D(x))) < Radix
    BY <1>1, <1>2, <2>3, DivBound
  <2> HIDE DEF D
  <2> QED BY <1>1, <2>4
<1>4. ASSUME NEW x \in Nat
      PROVE  Indices(x) = <<D(D(D(x))) % Radix, D(D(x)) % Radix, D(x) % Radix, x % Radix>>
  BY DEF Indices
<1> HIDE DEF D
<1>5. D(D(D(v))) = D(D(D(w)))
  BY <1>1, <1>3, <1>4
<1>6. D(D(v)) = D(D(w))
  BY <1>1, <1>2, <1>4, <1>5
<1>7. D(v) = D(w)
  BY <1>1, <1>2, <1>4, <1>6
<1> QED BY <1>1, <1>2, <1>4, <1>7

Frames == 0 .. NumFrames

Paging == [free : SUBSET (1 .. NumFrames), out : BOOLEAN,
           table : [Absent .. NumFrames -> [Index -> Absent .. NumFrames]]]

\* The root refers to itself, and what is absent has no entries.
Rooted(m) == m.table[0][FractalIndex] = 0 /\ m.table[Absent] = EmptyTable

\* The frames on the way to the page with indices d.
Pdp(m, d) == m.table[0][d[1]]
Pd(m, d)  == m.table[Pdp(m, d)][d[2]]
Pt(m, d)  == m.table[Pd(m, d)][d[3]]
Page(m, d) == m.table[Pt(m, d)][d[4]]

\* Through the entry of the root that refers to the root, the walk ends one
\* table earlier for each index that is left out.
LEMMA TableAtWalk ==
  ASSUME NEW m, Rooted(m)
  PROVE  /\ TableAt(m, << >>) = 0
         /\ \A a \in Index : TableAt(m, <<a>>) = m.table[0][a]
         /\ \A a, b \in Index : TableAt(m, <<a, b>>) = m.table[m.table[0][a]][b]
         /\ \A a, b, c \in Index :
              TableAt(m, <<a, b, c>>) = m.table[m.table[m.table[0][a]][b]][c]
<1>1. TableAt(m, << >>) = 0
  <2>1. /\ Fractal(<< >>)[1] = FractalIndex /\ Fractal(<< >>)[2] = FractalIndex
        /\ Fractal(<< >>)[3] = FractalIndex /\ Fractal(<< >>)[4] = FractalIndex
    BY DEF Fractal
  <2> QED BY <2>1 DEF TableAt, Translate, Rooted
<1>2. ASSUME NEW a \in Index
      PROVE  TableAt(m, <<a>>) = m.table[0][a]
  <2>1. /\ Fractal(<<a>>)[1] = FractalIndex /\ Fractal(<<a>>)[2] = FractalIndex
        /\ Fractal(<<a>>)[3] = FractalIndex /\ Fractal(<<a>>)[4] = a
    BY DEF Fractal
  <2> QED BY <2>1 DEF TableAt, Translate, Rooted
<1>3. ASSUME NEW a \in Index, NEW b \in Index
      PROVE  TableAt(m, <<a, b>>) = m.table[m.table[0][a]][b]
  <2>1. /\ Fractal(<<a, b>>)[1] = FractalIndex /\ Fractal(<<a, b>>)[2] = FractalIndex
        /\ Fractal(<<a, b>>)[3] = a /\ Fractal(<<a, b>>)[4] = b
    BY DEF Fractal
  <2> QED BY <2>1 DEF TableAt, Translate, Rooted
<1>4. ASSUME NEW a \in Index, NEW b \in Index, NEW c \in Index
      PROVE  TableAt(m, <<a, b, c>>) = m.table[m.table[m.table[0][a]][b]][c]
  <2>1. /\ Fractal(<<a, b, c>>)[1] = FractalIndex /\ Fractal(<<a, b, c>>)[2] = a
        /\ Fractal(<<a, b, c>>)[3] = b /\ Fractal(<<a, b, c>>)[4] = c
    BY DEF Fractal
  <2> QED BY <2>1 DEF TableAt, Translate, Rooted
<1> QED BY <1>1, <1>2, <1>3, <1>4

\* So each table that vmm_map gets at is the one that the walk passes.
LEMMA PathWalk ==
  ASSUME NEW m, Rooted(m), NEW d,
         d[1] \in Index, d[2] \in Index, d[3] \in Index
  PROVE  /\ TableAt(m, << >>) = 0
         /\ TableAt(m, <<d[1]>>) = Pdp(m, d)
         /\ TableAt(m, <<d[1], d[2]>>) = Pd(m, d)
         /\ TableAt(m, <<d[1], d[2], d[3]>>) = Pt(m, d)
<1> DEFINE a == d[1]
           b == d[2]
           c == d[3]
<1>1. a \in Index /\ b \in Index /\ c \in Index
  OBVIOUS
<1> HIDE DEF a, b, c
<1>2. TableAt(m, << >>) = 0
  BY TableAtWalk
<1>3. TableAt(m, <<a>>) = m.table[0][a]
  BY <1>1, TableAtWalk
<1>4. TableAt(m, <<a, b>>) = m.table[m.table[0][a]][b]
  BY <1>1, TableAtWalk
<1>5. TableAt(m, <<a, b, c>>) = m.table[m.table[m.table[0][a]][b]][c]
  BY <1>1, TableAtWalk
<1> QED BY <1>2, <1>3, <1>4, <1>5 DEF a, b, c, Pdp, Pd, Pt

\* vmm_mapping finds what the processor finds.
LEMMA MappingWalk ==
  ASSUME NEW m, Rooted(m), NEW v \in Nat
  PROVE  VmmMapping(m, v) = Page(m, Indices(v))
<1> DEFINE d == Indices(v)
<1>1. d[1] \in Index /\ d[2] \in Index /\ d[3] \in Index /\ d[4] \in Index
  BY IndicesType
<1> HIDE DEF d
<1>2. /\ TableAt(m, << >>) = 0 /\ TableAt(m, <<d[1]>>) = Pdp(m, d)
      /\ TableAt(m, <<d[1], d[2]>>) = Pd(m, d) /\ TableAt(m, <<d[1], d[2], d[3]>>) = Pt(m, d)
  BY <1>1, PathWalk
<1>3. /\ Entry(m, << >>, d[1]) = Pdp(m, d) /\ Entry(m, <<d[1]>>, d[2]) = Pd(m, d)
      /\ Entry(m, <<d[1], d[2]>>, d[3]) = Pt(m, d)
      /\ Entry(m, <<d[1], d[2], d[3]>>, d[4]) = Page(m, d)
  BY <1>2 DEF Entry, Pdp, Pd, Pt, Page
<1>4. \A i \in Index : m.table[Absent][i] = Absent
  BY DEF Rooted, EmptyTable, Index
<1>5. Absent \in {Pdp(m, d), Pd(m, d), Pt(m, d)} => Page(m, d) = Absent
  BY <1>1, <1>4 DEF Pd, Pt, Page
<1> QED BY <1>3, <1>5 DEF VmmMapping, d

-----------------------------------------------------------------------------
(***************************************************************************)
(* The tables are a tree.                                                  *)
(***************************************************************************)

\* The entry of the root that refers to the root.
Loop(t, i) == t = 0 /\ i = FractalIndex

\* Frame f is a table of level level[f], 0 to 3, a mapped page, 4, or neither,
\* 5.  Frames in idle are requested and not yet entered anywhere.
Levels(m, level, idle) ==
  /\ m \in Paging /\ Rooted(m)
  /\ level \in [Frames -> 0 .. 5]
  /\ \A f \in Frames : level[f] = 0 <=> f = 0
  /\ idle \subseteq Frames /\ m.free \cap idle = {}
  /\ \A f \in m.free \cup idle : level[f] = 5
  /\ \A t \in Frames, i \in Index :
       ~Loop(t, i) /\ m.table[t][i] # Absent =>
         level[t] <= 3 /\ level[m.table[t][i]] = level[t] + 1

\* No frame is entered twice.
EnteredOnce(m) ==
  \A t, u \in Frames : \A i, j \in Index :
    m.table[t][i] = m.table[u][j] /\ m.table[t][i] # Absent => t = u /\ i = j

\* Every table but the root and x has an entry.
Filled(m, level, x) ==
  \A t \in Frames : level[t] \in 1 .. 3 /\ t # x => \E i \in Index : m.table[t][i] # Absent

\* The pages in V are mapped, and all that is mapped are pages in V.
Maps(m, level, V) ==
  /\ V \subseteq Pages /\ \A v \in V : Indices(v)[1] # FractalIndex
  /\ \A v \in V : Page(m, Indices(v)) # Absent
  /\ \A t \in Frames, i \in Index :
       level[t] = 3 /\ m.table[t][i] # Absent =>
         \E v \in V : m.table[t][i] = Page(m, Indices(v))

Tree(m, level, idle, x, V) ==
  Levels(m, level, idle) /\ EnteredOnce(m) /\ Filled(m, level, x) /\ Maps(m, level, V)

\* A frame has a table.
LEMMA TableType ==
  ASSUME NEW m \in Paging
  PROVE  /\ m.table \in [Absent .. NumFrames -> [Index -> Absent .. NumFrames]]
         /\ \A f \in Frames : f \in Absent .. NumFrames /\ f # Absent
         /\ \A f \in Frames, i \in Index :
              /\ m.table[f] \in [Index -> Absent .. NumFrames]
              /\ m.table[f][i] # Absent => m.table[f][i] \in Frames
<1>1. m.table \in [Absent .. NumFrames -> [Index -> Absent .. NumFrames]]
  BY DEF Paging
<1>2. \A f \in Frames : f \in Absent .. NumFrames /\ f # Absent
  BY VmmAssumption DEF Frames, Absent
<1>3. \A e \in Absent .. NumFrames : e # Absent => e \in Frames
  BY VmmAssumption DEF Frames, Absent
<1> QED BY <1>1, <1>2, <1>3

\* What an unused frame holds as a table.
LEMMA UnusedEmpty ==
  ASSUME NEW m, NEW level, NEW idle, Levels(m, level, idle),
         NEW f \in Frames, level[f] >= 4
  PROVE  m.table[f] = EmptyTable /\ \A i \in Index : m.table[f][i] = Absent
<1>1. f # 0 /\ level[f] \in 0 .. 5
  BY DEF Levels
<1>2. \A i \in Index : m.table[f][i] = Absent
  BY <1>1 DEF Levels, Loop
<1>3. m.table[f] = [i \in Index |-> m.table[f][i]]
  BY TableType DEF Levels
<1> QED BY <1>2, <1>3 DEF EmptyTable, Index

\* A new entry: frame f, which no entry had, at i of a table t.
LinksTo(m, n, t, i, f) ==
  /\ n.table = [m.table EXCEPT ![t] = [@ EXCEPT ![i] = f]]
  /\ n.out = m.out

\* A new table is one level below the table that links to it.
LEMMA LinkLevels ==
  ASSUME NEW m, NEW level, NEW idle, Levels(m, level, idle), EnteredOnce(m),
         NEW t \in Frames, NEW i \in Index, ~Loop(t, i), level[t] <= 3, m.table[t][i] = Absent,
         NEW f \in m.free \cup idle,
         NEW n \in Paging, LinksTo(m, n, t, i, f), n.free = m.free \ {f}
  PROVE  /\ Levels(n, [level EXCEPT ![f] = level[t] + 1], idle \ {f})
         /\ EnteredOnce(n)
<1> DEFINE next == [level EXCEPT ![f] = level[t] + 1]
<1>1. /\ f \in Frames /\ f # 0 /\ level[f] = 5 /\ f # t /\ level[t] \in 0 .. 3 /\ f # Absent
      /\ t \in Absent .. NumFrames /\ t # Absent
      /\ m.table \in [Absent .. NumFrames -> [Index -> Absent .. NumFrames]]
      /\ m.table[t] \in [Index -> Absent .. NumFrames]
  <2>1. f \in Frames /\ level[f] = 5
    BY VmmAssumption DEF Levels, Paging, Frames
  <2>2. f # 0 /\ f # t
    BY <2>1 DEF Levels
  <2>3. level[t] \in 0 .. 3
    BY DEF Levels
  <2>4. m \in Paging
    BY DEF Levels
  <2> QED BY <2>1, <2>2, <2>3, <2>4, TableType
<1>2. /\ \A u \in Frames, j \in Index :
           n.table[u][j] = IF u = t /\ j = i THEN f ELSE m.table[u][j]
      /\ n.table[Absent] = m.table[Absent]
  <2>1. \A u \in Absent .. NumFrames : u # t => n.table[u] = m.table[u]
    BY <1>1 DEF LinksTo
  <2>2. n.table[t] = [m.table[t] EXCEPT ![i] = f]
    BY <1>1 DEF LinksTo
  <2>3. \A j \in Index : n.table[t][j] = IF j = i THEN f ELSE m.table[t][j]
    BY <1>1, <2>2
  <2>4. Absent \in Absent .. NumFrames /\ Frames \subseteq Absent .. NumFrames
    BY VmmAssumption DEF Frames, Absent
  <2> QED BY <1>1, <2>1, <2>3, <2>4
<1>3. next \in [Frames -> 0 .. 5] /\ next[f] = level[t] + 1
      /\ \A u \in Frames : u # f => next[u] = level[u]
  BY <1>1 DEF Levels
<1>4. \A j \in Index : m.table[f][j] = Absent
  <2>1. f \in Frames /\ level[f] >= 4
    BY <1>1
  <2> QED BY <2>1, UnusedEmpty
<1>5. \A u \in Frames, j \in Index : m.table[u][j] # f
  <2>1. ASSUME NEW u \in Frames, NEW j \in Index, m.table[u][j] = f
        PROVE  FALSE
    <3>1. Loop(u, j) => f = 0
      BY <2>1 DEF Levels, Rooted, Loop
    <3>2. ~Loop(u, j) => level[f] = level[u] + 1 /\ level[u] <= 3 /\ level[u] \in Nat
      <4>1. level[u] \in 0 .. 5 /\ m.table[u][j] # Absent
        BY <1>1, <2>1 DEF Levels
      <4>2. ~Loop(u, j) => level[u] <= 3 /\ level[m.table[u][j]] = level[u] + 1
        BY <4>1 DEF Levels
      <4> QED BY <2>1, <4>1, <4>2
    <3> QED BY <1>1, <3>1, <3>2
  <2> QED BY <2>1
<1> HIDE DEF next
<1>6. Rooted(n)
  <2>1. 0 \in Frames /\ FractalIndex \in Index
    BY VmmAssumption DEF Frames, Index
  <2>2. m.table[0][FractalIndex] = 0 /\ m.table[Absent] = EmptyTable
    BY DEF Levels, Rooted
  <2>3. ~(0 = t /\ FractalIndex = i)
    BY DEF Loop
  <2> QED BY <1>2, <2>1, <2>2, <2>3 DEF Rooted
<1>7. ASSUME NEW u \in Frames, NEW j \in Index, ~Loop(u, j), n.table[u][j] # Absent
      PROVE  next[u] <= 3 /\ next[n.table[u][j]] = next[u] + 1
  <2>1. CASE u = t /\ j = i
    BY <1>1, <1>2, <1>3, <2>1
  <2>2. CASE ~(u = t /\ j = i)
    <3>1. n.table[u][j] = m.table[u][j] /\ u # f /\ m.table[u][j] # f
      BY <1>2, <1>4, <1>5, <1>7, <2>2
    <3>2. m.table[u][j] \in Frames
      BY <1>7, <3>1, TableType DEF Levels
    <3>3. level[u] <= 3 /\ level[m.table[u][j]] = level[u] + 1
      BY <1>7, <3>1 DEF Levels
    <3> QED BY <1>3, <3>1, <3>2, <3>3
  <2> QED BY <2>1, <2>2
<1>8. \A u \in Frames : next[u] = 0 <=> u = 0
  BY <1>1, <1>3 DEF Levels
<1>9. \A u \in n.free \cup (idle \ {f}) : next[u] = 5
  BY <1>3 DEF Levels, Paging, Frames
<1>10. Levels(n, next, idle \ {f})
  <2>1. idle \ {f} \subseteq Frames /\ n.free \cap (idle \ {f}) = {}
    BY DEF Levels
  <2> QED BY <1>3, <1>6, <1>7, <1>8, <1>9, <2>1 DEF Levels
<1>11. ASSUME NEW u \in Frames, NEW w \in Frames, NEW j \in Index, NEW k \in Index,
              n.table[u][j] = n.table[w][k], n.table[u][j] # Absent
       PROVE  u = w /\ j = k
  <2>1. /\ n.table[u][j] = IF u = t /\ j = i THEN f ELSE m.table[u][j]
        /\ n.table[w][k] = IF w = t /\ k = i THEN f ELSE m.table[w][k]
        /\ m.table[u][j] # f /\ m.table[w][k] # f
    BY <1>2, <1>5
  <2>2. m.table[u][j] = m.table[w][k] /\ m.table[u][j] # Absent => u = w /\ j = k
    BY DEF EnteredOnce
  <2> QED BY <1>11, <2>1, <2>2
<1>12. EnteredOnce(n)
  BY <1>11 DEF EnteredOnce
<1> QED BY <1>10, <1>12 DEF next

\* n has f in an entry, and the other entries of m.
EntersAt(m, n, t, i, f) ==
  \A u \in Frames, j \in Index :
    n.table[u][j] = IF u = t /\ j = i THEN f ELSE m.table[u][j]

\* What a link does to each entry, in one place.
LEMMA LinkEntries ==
  ASSUME NEW m \in Paging, NEW n, NEW t \in Frames, NEW i \in Index, NEW f,
         LinksTo(m, n, t, i, f)
  PROVE  EntersAt(m, n, t, i, f)
<1> SUFFICES ASSUME NEW u \in Frames, NEW j \in Index
             PROVE  n.table[u][j] = IF u = t /\ j = i THEN f ELSE m.table[u][j]
  BY DEF EntersAt
<1>1. u # t => n.table[u] = m.table[u]
  BY TableType DEF LinksTo
<1>2. n.table[t] = [m.table[t] EXCEPT ![i] = f]
  BY TableType DEF LinksTo
<1>3. m.table[t] \in [Index -> Absent .. NumFrames]
  BY TableType
<1> QED BY <1>1, <1>2, <1>3

\* A new entry where there was none changes no walk that has an end.
LEMMA WalkKept ==
  ASSUME NEW m \in Paging, Rooted(m), NEW n, NEW t \in Frames, NEW i \in Index, NEW f,
         LinksTo(m, n, t, i, f), m.table[t][i] = Absent,
         NEW d, d[1] \in Index, d[2] \in Index, d[3] \in Index, d[4] \in Index
  PROVE  /\ Pdp(m, d) # Absent => Pdp(n, d) = Pdp(m, d)
         /\ Pd(m, d) # Absent => Pdp(m, d) # Absent /\ Pd(n, d) = Pd(m, d)
         /\ Pt(m, d) # Absent => Pd(m, d) # Absent /\ Pt(n, d) = Pt(m, d)
         /\ Page(m, d) # Absent => Pt(m, d) # Absent /\ Page(n, d) = Page(m, d)
<1>1. \A u \in Frames, j \in Index :
        m.table[u][j] # Absent => n.table[u][j] = m.table[u][j] /\ m.table[u][j] \in Frames
  <2>1. ASSUME NEW u \in Frames, NEW j \in Index, m.table[u][j] # Absent
        PROVE  n.table[u][j] = m.table[u][j]
    <3>1. EntersAt(m, n, t, i, f)
      BY LinkEntries
    <3>2. ~(u = t /\ j = i)
      BY <2>1
    <3> QED BY <3>1, <3>2 DEF EntersAt
  <2> QED BY <2>1, TableType
<1>2. \A j \in Index : m.table[Absent][j] = Absent
  BY DEF Rooted, EmptyTable, Index
<1>3. 0 \in Frames
  BY VmmAssumption DEF Frames
<1>4. Pdp(m, d) # Absent => Pdp(n, d) = Pdp(m, d) /\ Pdp(m, d) \in Frames
  BY <1>1, <1>3 DEF Pdp
<1>5. Pd(m, d) # Absent =>
        Pdp(m, d) # Absent /\ Pd(n, d) = Pd(m, d) /\ Pd(m, d) \in Frames
  BY <1>1, <1>2, <1>4 DEF Pd
<1>6. Pt(m, d) # Absent =>
        Pd(m, d) # Absent /\ Pt(n, d) = Pt(m, d) /\ Pt(m, d) \in Frames
  BY <1>1, <1>2, <1>5 DEF Pt
<1>7. Page(m, d) # Absent => Pt(m, d) # Absent /\ Page(n, d) = Page(m, d)
  BY <1>1, <1>2, <1>6 DEF Page
<1> QED BY <1>4, <1>5, <1>6, <1>7

\* So the pages that were mapped stay where they are.
LEMMA MapsKept ==
  ASSUME NEW m \in Paging, Rooted(m), NEW n, NEW t \in Frames, NEW i \in Index, NEW f,
         LinksTo(m, n, t, i, f), m.table[t][i] = Absent,
         NEW level, NEW V, Maps(m, level, V)
  PROVE  \A v \in V : Page(n, Indices(v)) = Page(m, Indices(v))
<1> SUFFICES ASSUME NEW v \in V
             PROVE  Page(n, Indices(v)) = Page(m, Indices(v))
  OBVIOUS
<1> DEFINE d == Indices(v)
<1>1. v \in Nat /\ Page(m, d) # Absent
  BY DEF Maps, Pages
<1>2. d[1] \in Index /\ d[2] \in Index /\ d[3] \in Index /\ d[4] \in Index
  BY <1>1, IndicesType
<1> HIDE DEF d
<1>3. Page(n, d) = Page(m, d)
  BY <1>1, <1>2, WalkKept
<1> QED BY <1>3 DEF d

\* The link of a new table keeps the tree; only the new table may be empty.
LEMMA LinkTable ==
  ASSUME NEW m, NEW level, NEW idle, NEW V,
         NEW t \in Frames, NEW i \in Index, ~Loop(t, i), level[t] <= 2, m.table[t][i] = Absent,
         Tree(m, level, idle, t, V),
         NEW f \in m.free \cup idle,
         NEW n \in Paging, LinksTo(m, n, t, i, f), n.free = m.free \ {f}
  PROVE  Tree(n, [level EXCEPT ![f] = level[t] + 1], idle \ {f}, f, V)
<1> DEFINE next == [level EXCEPT ![f] = level[t] + 1]
<1>1. Levels(m, level, idle) /\ EnteredOnce(m) /\ Filled(m, level, t) /\ Maps(m, level, V)
  BY DEF Tree
<1>2. /\ m \in Paging /\ Rooted(m) /\ f \in Frames /\ f # Absent /\ level[f] = 5
      /\ level \in [Frames -> 0 .. 5] /\ f # t
  <2>1. m \in Paging /\ Rooted(m) /\ level[f] = 5 /\ level \in [Frames -> 0 .. 5]
    BY <1>1 DEF Levels
  <2>2. f \in Frames
    BY <1>1, VmmAssumption DEF Levels, Paging, Frames
  <2> QED BY <2>1, <2>2, TableType
<1>3. Levels(n, next, idle \ {f}) /\ EnteredOnce(n)
  <2>1. level[t] <= 3
    BY <1>2
  <2> QED BY <1>1, <2>1, LinkLevels
<1>4. \A u \in Frames, j \in Index :
        n.table[u][j] = IF u = t /\ j = i THEN f ELSE m.table[u][j]
  <2>1. EntersAt(m, n, t, i, f)
    BY <1>2, LinkEntries
  <2> QED BY <2>1 DEF EntersAt
<1>5. /\ next[f] = level[t] + 1
      /\ \A u \in Frames : u # f => next[u] = level[u]
  BY <1>2
<1>6. \A j \in Index : m.table[f][j] = Absent
  <2>1. level[f] >= 4
    BY <1>2
  <2> QED BY <1>1, <1>2, <2>1, UnusedEmpty
<1> HIDE DEF next
<1>7. ASSUME NEW u \in Frames, next[u] \in 1 .. 3, u # f
      PROVE  \E j \in Index : n.table[u][j] # Absent
  <2>1. CASE u = t
    BY <1>2, <1>4, <2>1
  <2>2. CASE u # t
    <3>1. PICK j \in Index : m.table[u][j] # Absent
      BY <1>1, <1>5, <1>7, <2>2 DEF Filled
    <3> QED BY <1>4, <2>2, <3>1
  <2> QED BY <2>1, <2>2
<1>8. Filled(n, next, f)
  BY <1>7 DEF Filled
<1>9. \A v \in V : Page(n, Indices(v)) = Page(m, Indices(v))
  BY <1>1, <1>2, MapsKept
<1>10. ASSUME NEW u \in Frames, NEW j \in Index, next[u] = 3, n.table[u][j] # Absent
       PROVE  \E v \in V : n.table[u][j] = Page(n, Indices(v))
  <2>1. u # f
    BY <1>2, <1>4, <1>6, <1>10
  <2>2. level[u] = 3 /\ u # t
    BY <1>2, <1>5, <1>10, <2>1
  <2>3. n.table[u][j] = m.table[u][j]
    BY <1>4, <2>2
  <2> QED BY <1>1, <1>9, <1>10, <2>2, <2>3 DEF Maps
<1>11. Maps(n, next, V)
  BY <1>1, <1>9, <1>10 DEF Maps
<1> QED BY <1>3, <1>8, <1>11 DEF Tree, next

\* The link of a page, in the table that was new or had entries, completes it.
LEMMA LinkPage ==
  ASSUME NEW m, NEW level, NEW idle, NEW V, NEW v \in Pages, Indices(v)[1] # FractalIndex,
         Pt(m, Indices(v)) \in Frames, level[Pt(m, Indices(v))] = 3,
         Page(m, Indices(v)) = Absent,
         Tree(m, level, idle, Pt(m, Indices(v)), V),
         NEW f \in m.free \cup idle,
         NEW n \in Paging, LinksTo(m, n, Pt(m, Indices(v)), Indices(v)[4], f),
         n.free = m.free \ {f}
  PROVE  \E next : Tree(n, next, idle \ {f}, Absent, V \cup {v})
<1> DEFINE d == Indices(v)
           t == Pt(m, d)
           i == d[4]
           next == [level EXCEPT ![f] = level[t] + 1]
<1>1. Levels(m, level, idle) /\ EnteredOnce(m) /\ Filled(m, level, t) /\ Maps(m, level, V)
  BY DEF Tree
<1>2. /\ m \in Paging /\ Rooted(m) /\ f \in Frames /\ f # Absent /\ level[f] = 5
      /\ level \in [Frames -> 0 .. 5]
  <2>1. m \in Paging /\ Rooted(m) /\ level[f] = 5 /\ level \in [Frames -> 0 .. 5]
    BY <1>1 DEF Levels
  <2>2. f \in Frames
    BY <1>1, VmmAssumption DEF Levels, Paging, Frames
  <2> QED BY <2>1, <2>2, TableType
<1>3. v \in Nat /\ d[1] \in Index /\ d[2] \in Index /\ d[3] \in Index /\ d[4] \in Index
  <2>1. v \in Nat
    BY DEF Pages
  <2> QED BY <2>1, IndicesType
<1>4. t \in Frames /\ i \in Index /\ level[t] = 3 /\ m.table[t][i] = Absent /\ t # Absent
  <2>1. t \in Frames /\ level[t] = 3 /\ m.table[t][i] = Absent
    BY DEF Page
  <2> QED BY <1>2, <1>3, <2>1, TableType
<1>5. LinksTo(m, n, t, i, f) /\ ~Loop(t, i)
  <2>1. level[0] = 0
    BY <1>1, VmmAssumption DEF Levels, Frames
  <2> QED BY <1>4, <2>1 DEF Loop
<1> HIDE DEF d
<1>6. Pt(n, d) = t
  BY <1>2, <1>3, <1>4, <1>5, WalkKept
<1> HIDE DEF t, i
<1>7. Levels(n, next, idle \ {f}) /\ EnteredOnce(n)
  <2>1. level[t] <= 3
    BY <1>4
  <2> QED BY <1>1, <1>4, <1>5, <2>1, LinkLevels
<1>8. \A u \in Frames, j \in Index :
        n.table[u][j] = IF u = t /\ j = i THEN f ELSE m.table[u][j]
  <2>1. EntersAt(m, n, t, i, f)
    BY <1>2, <1>4, <1>5, LinkEntries
  <2> QED BY <2>1 DEF EntersAt
<1>9. /\ next[f] = 4
      /\ \A u \in Frames : u # f => next[u] = level[u]
  BY <1>2, <1>4
<1> HIDE DEF next
<1>10. Page(n, d) = f
  BY <1>4, <1>6, <1>8 DEF Page, i
<1>11. ASSUME NEW u \in Frames, next[u] \in 1 .. 3
       PROVE  \E j \in Index : n.table[u][j] # Absent
  <2>1. CASE u = t
    BY <1>2, <1>4, <1>8, <2>1
  <2>2. CASE u # t
    <3>1. PICK j \in Index : m.table[u][j] # Absent
      BY <1>1, <1>9, <1>11, <2>2 DEF Filled
    <3> QED BY <1>8, <2>2, <3>1
  <2> QED BY <2>1, <2>2
<1>12. Filled(n, next, Absent)
  BY <1>11 DEF Filled
<1>13. \A w \in V : Page(n, Indices(w)) = Page(m, Indices(w))
  BY <1>1, <1>2, <1>4, <1>5, MapsKept
<1>14. ASSUME NEW u \in Frames, NEW j \in Index, next[u] = 3, n.table[u][j] # Absent
       PROVE  \E w \in V \cup {v} : n.table[u][j] = Page(n, Indices(w))
  <2>1. CASE u = t /\ j = i
    BY <1>8, <1>10, <2>1 DEF d
  <2>2. CASE ~(u = t /\ j = i)
    <3>1. level[u] = 3 /\ n.table[u][j] = m.table[u][j]
      BY <1>8, <1>9, <1>14, <2>2
    <3> QED BY <1>1, <1>13, <1>14, <3>1 DEF Maps
  <2> QED BY <2>1, <2>2
<1>15. Maps(n, next, V \cup {v})
  <2>1. V \cup {v} \subseteq Pages /\ \A w \in V \cup {v} : Indices(w)[1] # FractalIndex
    BY <1>1 DEF Maps
  <2>2. \A w \in V \cup {v} : Page(n, Indices(w)) # Absent
    BY <1>1, <1>2, <1>10, <1>13 DEF Maps, d
  <2> QED BY <1>14, <2>1, <2>2 DEF Maps
<1> QED BY <1>7, <1>12, <1>15 DEF Tree

-----------------------------------------------------------------------------
(***************************************************************************)
(* vmm_map.                                                                *)
(***************************************************************************)
LEMMA MinFree ==
  ASSUME NEW m \in Paging, m.free # {}
  PROVE  Min(m.free) \in m.free
<1> DEFINE T == m.free
<1>1. T \in SUBSET Nat /\ T # {}
  BY VmmAssumption DEF Paging
<1> HIDE DEF T
<1>2. \E x \in T : \A y \in T : x <= y
  BY <1>1, LeastNumber
<1>3. Min(T) \in T
  BY <1>2 DEF Min
<1> QED BY <1>3 DEF T

\* A frame is free when more than the last one is (request_page).
LEMMA NotLastFree ==
  ASSUME NEW m, ~LastFrame(m)
  PROVE  m.free # {}
BY DEF LastFrame

\* The paging structures stay what they are, whatever the tables hold.
LEMMA RequestType ==
  ASSUME NEW m \in Paging
  PROVE  Request(m) \in Paging /\ (m.out => Request(m).out)
<1>1. m.free \subseteq 1 .. NumFrames /\ m.out \in BOOLEAN
  BY DEF Paging
<1> QED BY <1>1 DEF Request, Paging

\* A walk ends in a table, or at an entry that is absent.
LEMMA TableAtType ==
  ASSUME NEW m \in Paging
  PROVE  /\ TableAt(m, << >>) \in Absent .. NumFrames
         /\ \A a \in Index : TableAt(m, <<a>>) \in Absent .. NumFrames
         /\ \A a, b \in Index : TableAt(m, <<a, b>>) \in Absent .. NumFrames
         /\ \A a, b, c \in Index : TableAt(m, <<a, b, c>>) \in Absent .. NumFrames
<1>1. FractalIndex \in Index /\ 0 \in Absent .. NumFrames
  BY VmmAssumption DEF Index, Absent
<1>2. \A u \in Absent .. NumFrames, j \in Index : m.table[u][j] \in Absent .. NumFrames
  BY DEF Paging
<1>3. \A i : i[1] \in Index /\ i[2] \in Index /\ i[3] \in Index /\ i[4] \in Index
              => Translate(m, i) \in Absent .. NumFrames
  BY <1>1, <1>2 DEF Translate
<1>4. TableAt(m, << >>) \in Absent .. NumFrames
  <2>1. /\ Fractal(<< >>)[1] \in Index /\ Fractal(<< >>)[2] \in Index
        /\ Fractal(<< >>)[3] \in Index /\ Fractal(<< >>)[4] \in Index
    BY <1>1 DEF Fractal
  <2> QED BY <1>3, <2>1 DEF TableAt
<1>5. ASSUME NEW a \in Index
      PROVE  TableAt(m, <<a>>) \in Absent .. NumFrames
  <2>1. /\ Fractal(<<a>>)[1] \in Index /\ Fractal(<<a>>)[2] \in Index
        /\ Fractal(<<a>>)[3] \in Index /\ Fractal(<<a>>)[4] \in Index
    BY <1>1 DEF Fractal
  <2> QED BY <1>3, <2>1 DEF TableAt
<1>6. ASSUME NEW a \in Index, NEW b \in Index
      PROVE  TableAt(m, <<a, b>>) \in Absent .. NumFrames
  <2>1. /\ Fractal(<<a, b>>)[1] \in Index /\ Fractal(<<a, b>>)[2] \in Index
        /\ Fractal(<<a, b>>)[3] \in Index /\ Fractal(<<a, b>>)[4] \in Index
    BY <1>1 DEF Fractal
  <2> QED BY <1>3, <2>1 DEF TableAt
<1>7. ASSUME NEW a \in Index, NEW b \in Index, NEW c \in Index
      PROVE  TableAt(m, <<a, b, c>>) \in Absent .. NumFrames
  <2>1. /\ Fractal(<<a, b, c>>)[1] \in Index /\ Fractal(<<a, b, c>>)[2] \in Index
        /\ Fractal(<<a, b, c>>)[3] \in Index /\ Fractal(<<a, b, c>>)[4] \in Index
    BY <1>1 DEF Fractal
  <2> QED BY <1>3, <2>1 DEF TableAt
<1> QED BY <1>4, <1>5, <1>6, <1>7

\* What Ensure does (vmm_map).
LEMMA EnsureUnfold ==
  ASSUME NEW m, NEW path, NEW i
  PROVE  Ensure(m, path, i) = IF m.out \/ Entry(m, path, i) # Absent THEN m
                              ELSE NewTable(m, TableAt(m, path), i)
BY DEF Ensure, Once

\* What Enter does (vmm_map).
LEMMA EnterUnfold ==
  ASSUME NEW m, NEW path, NEW i, NEW f
  PROVE  Enter(m, path, i, f) = IF m.out THEN m
                                ELSE [m EXCEPT !.table[TableAt(m, path)][i] = f]
BY DEF Enter, Once

\* A table that is made sure of keeps the types, and a request that did not return stays so.
LEMMA EnsureType ==
  ASSUME NEW m \in Paging, NEW path, TableAt(m, path) \in Absent .. NumFrames, NEW i \in Index
  PROVE  Ensure(m, path, i) \in Paging /\ (m.out => Ensure(m, path, i).out)
<1> DEFINE t == TableAt(m, path)
<1>1. ASSUME ~LastFrame(m)
      PROVE  NewTable(m, t, i) \in Paging
  <2> DEFINE f == Min(m.free)
             r == Request(m)
  <2>1. f \in 1 .. NumFrames
    BY <1>1, MinFree, NotLastFree DEF Paging
  <2> HIDE DEF f
  <2>2. r \in Paging
    BY RequestType
  <2> HIDE DEF r
  <2>3. f \in Absent .. NumFrames /\ EmptyTable \in [Index -> Absent .. NumFrames]
    BY <2>1, VmmAssumption DEF Absent, EmptyTable, Index
  <2>4. NewTable(m, t, i) = [r EXCEPT !.table[t][i] = f, !.table[f] = EmptyTable]
    BY <1>1 DEF NewTable, f, r
  <2> HIDE DEF t
  <2>5. /\ r.table \in [Absent .. NumFrames -> [Index -> Absent .. NumFrames]]
        /\ t \in Absent .. NumFrames
    BY <2>2 DEF Paging, t
  <2>6. [r.table[t] EXCEPT ![i] = f] \in [Index -> Absent .. NumFrames]
    BY <2>3, <2>5
  <2>7. [[r.table EXCEPT ![t] = [r.table[t] EXCEPT ![i] = f]] EXCEPT ![f] = EmptyTable]
          \in [Absent .. NumFrames -> [Index -> Absent .. NumFrames]]
    BY <2>3, <2>5, <2>6
  <2>8. NewTable(m, t, i) =
          [r EXCEPT !.table = [[r.table EXCEPT ![t] = [r.table[t] EXCEPT ![i] = f]]
                                 EXCEPT ![f] = EmptyTable]]
    BY <2>2, <2>4 DEF Paging
  <2> QED BY <2>2, <2>7, <2>8 DEF Paging
<1>2. NewTable(m, t, i) \in Paging
  BY <1>1, RequestType DEF NewTable
<1> QED BY <1>2, EnsureUnfold

\* An entry keeps the types, and a request that did not return stays so.
LEMMA EnterType ==
  ASSUME NEW m \in Paging, NEW path, TableAt(m, path) \in Absent .. NumFrames, NEW i \in Index,
         NEW f \in Frames
  PROVE  Enter(m, path, i, f) \in Paging /\ (m.out => Enter(m, path, i, f).out)
<1> DEFINE t == TableAt(m, path)
           n == [m EXCEPT !.table[t][i] = f]
<1> HIDE DEF t
<1>1. /\ m.table \in [Absent .. NumFrames -> [Index -> Absent .. NumFrames]]
      /\ t \in Absent .. NumFrames /\ f \in Absent .. NumFrames
  BY TableType DEF Paging, t
<1>2. [m.table EXCEPT ![t] = [m.table[t] EXCEPT ![i] = f]]
        \in [Absent .. NumFrames -> [Index -> Absent .. NumFrames]]
  BY <1>1
<1>3. n = [m EXCEPT !.table = [m.table EXCEPT ![t] = [m.table[t] EXCEPT ![i] = f]]]
  OBVIOUS
<1>4. n \in Paging
  BY <1>2, <1>3 DEF Paging
<1>5. Enter(m, path, i, f) = IF m.out THEN m ELSE n
  BY EnterUnfold DEF t
<1> HIDE DEF n
<1> QED BY <1>4, <1>5

\* vmm_map keeps the types, and a request that did not return stays so.
LEMMA VmmMapType ==
  ASSUME NEW m \in Paging, NEW v \in Nat, NEW f \in Frames
  PROVE  VmmMap(m, v, f) \in Paging /\ (m.out => VmmMap(m, v, f).out)
<1> DEFINE d == Indices(v)
           pdp == Ensure(m, << >>, d[1])
           pd == Ensure(pdp, <<d[1]>>, d[2])
           pt == Ensure(pd, <<d[1], d[2]>>, d[3])
<1>1. d[1] \in Index /\ d[2] \in Index /\ d[3] \in Index /\ d[4] \in Index
  BY IndicesType
<1>2. VmmMap(m, v, f) = Enter(pt, <<d[1], d[2], d[3]>>, d[4], f)
  BY DEF VmmMap
<1> HIDE DEF d
<1>3. pdp \in Paging /\ (m.out => pdp.out)
  BY <1>1, TableAtType, EnsureType
<1> HIDE DEF pdp
<1>4. pd \in Paging /\ (pdp.out => pd.out)
  BY <1>1, <1>3, TableAtType, EnsureType
<1> HIDE DEF pd
<1>5. pt \in Paging /\ (pd.out => pt.out)
  BY <1>1, <1>4, TableAtType, EnsureType
<1> HIDE DEF pt
<1> QED BY <1>1, <1>2, <1>3, <1>4, <1>5, TableAtType, EnterType

\* NewTable takes a free frame, which is empty, and links it.
LEMMA NewTableLinks ==
  ASSUME NEW m, NEW level, NEW idle, Levels(m, level, idle), ~LastFrame(m),
         NEW t \in Frames, NEW i \in Index, level[t] <= 3
  PROVE  /\ NewTable(m, t, i) \in Paging
         /\ LinksTo(m, NewTable(m, t, i), t, i, Min(m.free))
         /\ NewTable(m, t, i).free = m.free \ {Min(m.free)}
<1> DEFINE f == Min(m.free)
           n == NewTable(m, t, i)
<1>1. m \in Paging
  BY DEF Levels
<1>2. f \in m.free /\ f \in Frames /\ level[f] = 5
  <2>1. f \in m.free
    BY <1>1, MinFree, NotLastFree
  <2>2. f \in Frames
    BY <1>1, <2>1, VmmAssumption DEF Paging, Frames
  <2> QED BY <2>1, <2>2 DEF Levels
<1>3. f # t /\ m.table[f] = EmptyTable
  <2>1. level[f] >= 4
    BY <1>2
  <2> QED BY <1>2, <2>1, UnusedEmpty
<1> HIDE DEF f
<1>4. Request(m) = [m EXCEPT !.free = m.free \ {f}]
  BY DEF Request, f
<1>5. n = [m EXCEPT !.free = m.free \ {f},
                    !.table = [[m.table EXCEPT ![t] = [m.table[t] EXCEPT ![i] = f]]
                                 EXCEPT ![f] = EmptyTable]]
  BY <1>1, <1>4 DEF NewTable, f, Paging
<1>6. [[m.table EXCEPT ![t] = [m.table[t] EXCEPT ![i] = f]] EXCEPT ![f] = EmptyTable]
        = [m.table EXCEPT ![t] = [m.table[t] EXCEPT ![i] = f]]
  BY <1>1, <1>2, <1>3, TableType
<1>7. n = [m EXCEPT !.free = m.free \ {f},
                    !.table = [m.table EXCEPT ![t] = [m.table[t] EXCEPT ![i] = f]]]
  BY <1>5, <1>6
<1> HIDE DEF n
<1>8. [m.table EXCEPT ![t] = [m.table[t] EXCEPT ![i] = f]]
        \in [Absent .. NumFrames -> [Index -> Absent .. NumFrames]]
  BY <1>1, <1>2, TableType
<1>9. n \in Paging
  BY <1>1, <1>7, <1>8 DEF Paging
<1>10. LinksTo(m, n, t, i, f) /\ n.free = m.free \ {f}
  BY <1>1, <1>7 DEF LinksTo, Paging
<1> QED BY <1>9, <1>10 DEF n, f

\* Ensure at a table t of level up to 2 gives it a table at entry i.
LEMMA EnsureTree ==
  ASSUME NEW m, NEW level, NEW idle, NEW V,
         NEW t \in Frames, NEW i \in Index, ~Loop(t, i), level[t] <= 2,
         Tree(m, level, idle, t, V),
         NEW path, TableAt(m, path) = t,
         NEW n, n = Ensure(m, path, i), ~n.out
  PROVE  /\ n.table[t][i] \in Frames
         /\ \E next : next[n.table[t][i]] = level[t] + 1 /\ Tree(n, next, idle, n.table[t][i], V)
         /\ n = m \/ \E f : LinksTo(m, n, t, i, f) /\ m.table[t][i] = Absent
<1>1. Levels(m, level, idle) /\ EnteredOnce(m) /\ Filled(m, level, t) /\ Maps(m, level, V)
  BY DEF Tree
<1>2. m \in Paging /\ level \in [Frames -> 0 .. 5] /\ level[t] <= 3 /\ m.free \cap idle = {}
  BY <1>1 DEF Levels
<1>3. n = IF m.out \/ m.table[t][i] # Absent THEN m ELSE NewTable(m, t, i)
  BY EnsureUnfold DEF Entry
<1>4. ~m.out
  BY <1>3
<1>5. CASE m.table[t][i] # Absent
  <2>1. n = m /\ n.table[t][i] \in Frames
    BY <1>2, <1>3, <1>5, TableType
  <2>2. level[n.table[t][i]] = level[t] + 1
    BY <1>1, <1>5, <2>1 DEF Levels
  <2>3. Filled(m, level, n.table[t][i])
    BY <1>1, <1>5 DEF Filled
  <2>4. Tree(n, level, idle, n.table[t][i], V)
    BY <1>1, <2>1, <2>3 DEF Tree
  <2> QED BY <2>1, <2>2, <2>4
<1>6. CASE m.table[t][i] = Absent
  <2> DEFINE f == Min(m.free)
             next == [level EXCEPT ![f] = level[t] + 1]
  <2>1. n = NewTable(m, t, i)
    BY <1>3, <1>4, <1>6
  <2>2. ~LastFrame(m)
    BY <2>1, <1>2 DEF NewTable, Request, Paging
  <2>3. n \in Paging /\ LinksTo(m, n, t, i, f) /\ n.free = m.free \ {f}
    BY <1>1, <1>2, <2>1, <2>2, NewTableLinks
  <2>4. f \in m.free
    BY <1>2, <2>2, MinFree, NotLastFree
  <2>5. f \in Frames
    BY <1>2, <2>4, VmmAssumption DEF Paging, Frames
  <2> HIDE DEF f
  <2>6. f \in m.free \cup idle /\ idle \ {f} = idle
    BY <1>2, <2>4
  <2>7. Tree(n, next, idle \ {f}, f, V)
    BY <1>6, <2>3, <2>6, LinkTable
  <2>8. n.table[t][i] = f
    <3>1. EntersAt(m, n, t, i, f)
      BY <1>2, <2>3, LinkEntries
    <3> QED BY <3>1 DEF EntersAt
  <2>9. next[f] = level[t] + 1
    BY <1>2, <2>5
  <2> HIDE DEF next
  <2> QED BY <1>6, <2>3, <2>5, <2>6, <2>7, <2>8, <2>9
<1> QED BY <1>5, <1>6

\* Two pages in one frame are one page.
LEMMA PageUnique ==
  ASSUME NEW m \in Paging, Rooted(m), EnteredOnce(m),
         NEW v \in Pages, NEW w \in Pages,
         Page(m, Indices(v)) = Page(m, Indices(w)), Page(m, Indices(v)) # Absent
  PROVE  v = w
<1> DEFINE d == Indices(v)
           e == Indices(w)
<1>1. m \in Paging /\ Rooted(m)
  OBVIOUS
<1>2. v \in Nat /\ w \in Nat
  BY DEF Pages
<1>3. d[1] \in Index /\ d[2] \in Index /\ d[3] \in Index /\ d[4] \in Index
  BY <1>2, IndicesType
<1>4. e[1] \in Index /\ e[2] \in Index /\ e[3] \in Index /\ e[4] \in Index
  BY <1>2, IndicesType
<1>5. Page(m, d) = Page(m, e) /\ Page(m, d) # Absent
  OBVIOUS
<1> HIDE DEF d, e
<1>6. \A j \in Index : m.table[Absent][j] = Absent
  BY <1>1 DEF Rooted, EmptyTable, Index
<1>7. \A u \in Frames, j \in Index : m.table[u][j] # Absent => m.table[u][j] \in Frames
  BY <1>1, TableType
<1>8. 0 \in Frames
  BY VmmAssumption DEF Frames
<1>9. /\ Pdp(m, d) \in Frames /\ Pd(m, d) \in Frames /\ Pt(m, d) \in Frames
       /\ Pdp(m, d) # Absent /\ Pd(m, d) # Absent /\ Pt(m, d) # Absent
  <2>1. Pt(m, d) # Absent /\ Pd(m, d) # Absent /\ Pdp(m, d) # Absent
    BY <1>3, <1>5, <1>6 DEF Page, Pt, Pd
  <2>2. Pdp(m, d) \in Frames
    BY <1>3, <1>7, <1>8, <2>1 DEF Pdp
  <2>3. Pd(m, d) \in Frames
    BY <1>3, <1>7, <2>1, <2>2 DEF Pd
  <2> QED BY <1>3, <1>7, <2>1, <2>2, <2>3 DEF Pt
<1>10. Pdp(m, e) \in Frames /\ Pd(m, e) \in Frames /\ Pt(m, e) \in Frames
  <2>1. Pt(m, e) # Absent /\ Pd(m, e) # Absent /\ Pdp(m, e) # Absent
    BY <1>4, <1>5, <1>6 DEF Page, Pt, Pd
  <2>2. Pdp(m, e) \in Frames
    BY <1>4, <1>7, <1>8, <2>1 DEF Pdp
  <2>3. Pd(m, e) \in Frames
    BY <1>4, <1>7, <2>1, <2>2 DEF Pd
  <2> QED BY <1>4, <1>7, <2>1, <2>2, <2>3 DEF Pt
<1>11. Pt(m, d) = Pt(m, e) /\ d[4] = e[4]
  BY <1>3, <1>4, <1>5, <1>9, <1>10 DEF EnteredOnce, Page
<1>12. Pd(m, d) = Pd(m, e) /\ d[3] = e[3]
  BY <1>3, <1>4, <1>9, <1>10, <1>11 DEF EnteredOnce, Pt
<1>13. Pdp(m, d) = Pdp(m, e) /\ d[2] = e[2]
  BY <1>3, <1>4, <1>9, <1>10, <1>12 DEF EnteredOnce, Pd
<1>14. d[1] = e[1]
  BY <1>3, <1>4, <1>8, <1>9, <1>13 DEF EnteredOnce, Pdp
<1> QED BY <1>11, <1>12, <1>13, <1>14, IndicesUnique DEF d, e

\* A page that is not mapped has no frame, even if it has all tables.
LEMMA NotMapped ==
  ASSUME NEW m, NEW level, NEW idle, NEW V, Levels(m, level, idle), EnteredOnce(m),
         Maps(m, level, V), NEW v \in Pages, v \notin V,
         Pt(m, Indices(v)) \in Frames, level[Pt(m, Indices(v))] = 3
  PROVE  Page(m, Indices(v)) = Absent
<1> SUFFICES ASSUME Page(m, Indices(v)) # Absent PROVE FALSE
  OBVIOUS
<1> DEFINE d == Indices(v)
<1>1. v \in Nat /\ m \in Paging /\ Rooted(m)
  BY DEF Pages, Levels
<1>2. d[1] \in Index /\ d[2] \in Index /\ d[3] \in Index /\ d[4] \in Index
  BY <1>1, IndicesType
<1>3. PICK w \in V : Page(m, d) = Page(m, Indices(w))
  BY <1>2 DEF Maps, Page
<1>4. w \in Pages
  BY DEF Maps
<1>5. v = w
  BY <1>1, <1>3, <1>4, PageUnique
<1> QED BY <1>5

\* The pages in V are mapped, and the frames in idle are requested and unused.
Mapped(m, idle, V) == \E level : Tree(m, level, idle, Absent, V)

\* vmm_map maps one more page, in the frame it is given.
LEMMA VmmMapMaps ==
  ASSUME NEW m, NEW idle, NEW V, Mapped(m, idle, V), NEW f \in idle,
         NEW v \in Pages, v \notin V, Indices(v)[1] # FractalIndex,
         ~VmmMap(m, v, f).out
  PROVE  Mapped(VmmMap(m, v, f), idle \ {f}, V \cup {v})
<1>1. PICK L0 : Tree(m, L0, idle, Absent, V)
  BY DEF Mapped
<1>2. v \in Nat /\ m \in Paging /\ Rooted(m) /\ L0[0] = 0 /\ 0 \in Frames /\ f \in Frames
  BY <1>1, VmmAssumption DEF Pages, Tree, Levels, Frames
<1> DEFINE d == Indices(v)
           pdp == Ensure(m, << >>, d[1])
           pd == Ensure(pdp, <<d[1]>>, d[2])
           pt == Ensure(pd, <<d[1], d[2]>>, d[3])
           n == VmmMap(m, v, f)
<1>3. d[1] \in Index /\ d[2] \in Index /\ d[3] \in Index /\ d[4] \in Index
  BY <1>2, IndicesType
<1>4. n = Enter(pt, <<d[1], d[2], d[3]>>, d[4], f)
  BY DEF VmmMap
<1>5. ~n.out /\ d[1] # FractalIndex
  OBVIOUS
<1> HIDE DEF d, n
<1>6. pdp \in Paging /\ (m.out => pdp.out)
  BY <1>2, <1>3, TableAtType, EnsureType
<1>7. pd \in Paging /\ (pdp.out => pd.out)
  <2> HIDE DEF pdp
  <2> QED BY <1>3, <1>6, TableAtType, EnsureType
<1>8. pt \in Paging /\ (pd.out => pt.out)
  <2> HIDE DEF pd
  <2> QED BY <1>3, <1>7, TableAtType, EnsureType
<1>9. n = IF pt.out THEN pt
          ELSE [pt EXCEPT !.table[TableAt(pt, <<d[1], d[2], d[3]>>)][d[4]] = f]
  <2> HIDE DEF pt
  <2> QED BY <1>4, EnterUnfold
<1>10. ~pt.out /\ ~pd.out /\ ~pdp.out /\ ~m.out
  <2> HIDE DEF pt, pd, pdp
  <2> QED BY <1>5, <1>6, <1>7, <1>8, <1>9
<1>11. /\ Pdp(pdp, d) \in Frames
       /\ \E L : L[Pdp(pdp, d)] = 1 /\ Tree(pdp, L, idle, Pdp(pdp, d), V)
  <2>1. Tree(m, L0, idle, 0, V)
    <3>1. Filled(m, L0, Absent) /\ \A u \in Frames : u # Absent
      BY <1>1, <1>2, TableType DEF Tree
    <3>2. Filled(m, L0, 0)
      BY <3>1 DEF Filled
    <3> QED BY <1>1, <3>2 DEF Tree
  <2>2. TableAt(m, << >>) = 0 /\ ~Loop(0, d[1]) /\ L0[0] <= 2
    <3>1. TableAt(m, << >>) = 0
      BY <1>2, TableAtWalk
    <3> QED BY <1>2, <1>5, <3>1 DEF Loop
  <2>3. pdp.table[0][d[1]] \in Frames
        /\ \E L : L[pdp.table[0][d[1]]] = L0[0] + 1 /\ Tree(pdp, L, idle, pdp.table[0][d[1]], V)
    BY <1>2, <1>3, <1>10, <2>1, <2>2, EnsureTree
  <2> HIDE DEF pdp
  <2> QED BY <1>2, <2>3 DEF Pdp
<1>12. PICK L1 : L1[Pdp(pdp, d)] = 1 /\ Tree(pdp, L1, idle, Pdp(pdp, d), V)
  BY <1>11
<1>13. /\ Pd(pd, d) \in Frames
       /\ \E L : L[Pd(pd, d)] = 2 /\ Tree(pd, L, idle, Pd(pd, d), V)
  <2> HIDE DEF pdp
  <2> DEFINE t == Pdp(pdp, d)
  <2>1. Rooted(pdp) /\ L1[0] = 0
    BY <1>2, <1>12 DEF Tree, Levels
  <2>2. TableAt(pdp, <<d[1]>>) = t /\ ~Loop(t, d[2]) /\ L1[t] <= 2 /\ t \in Frames
    <3>1. TableAt(pdp, <<d[1]>>) = t
      BY <1>3, <2>1, PathWalk
    <3>2. t \in Frames /\ L1[t] \in 1 .. 2
      BY <1>11, <1>12
    <3> QED BY <2>1, <3>1, <3>2 DEF Loop
  <2>3. Tree(pdp, L1, idle, t, V) /\ L1[t] = 1
    BY <1>12
  <2> HIDE DEF t
  <2>4. /\ pd.table[t][d[2]] \in Frames
        /\ \E L : L[pd.table[t][d[2]]] = L1[t] + 1 /\ Tree(pd, L, idle, pd.table[t][d[2]], V)
        /\ pd = pdp \/ \E g : LinksTo(pdp, pd, t, d[2], g) /\ pdp.table[t][d[2]] = Absent
    BY <1>3, <1>10, <2>2, <2>3, EnsureTree
  <2> HIDE DEF pd
  <2>5. Pdp(pd, d) = t
    <3>1. t # Absent /\ t = Pdp(pdp, d)
      BY <1>6, <2>2, TableType DEF t
    <3>2. CASE pd = pdp
      BY <3>1, <3>2
    <3>3. CASE pd # pdp
      <4>1. PICK g : LinksTo(pdp, pd, t, d[2], g) /\ pdp.table[t][d[2]] = Absent
        BY <2>4, <3>3
      <4> QED BY <1>3, <1>6, <2>1, <2>2, <3>1, <4>1, WalkKept
    <3> QED BY <3>2, <3>3
  <2>6. Pd(pd, d) = pd.table[t][d[2]]
    BY <2>5 DEF Pd
  <2> QED BY <2>3, <2>4, <2>6
<1>14. PICK L2 : L2[Pd(pd, d)] = 2 /\ Tree(pd, L2, idle, Pd(pd, d), V)
  BY <1>13
<1>15. /\ Pt(pt, d) \in Frames
       /\ \E L : L[Pt(pt, d)] = 3 /\ Tree(pt, L, idle, Pt(pt, d), V)
  <2> HIDE DEF pdp, pd
  <2> DEFINE t == Pd(pd, d)
  <2>1. Rooted(pd) /\ L2[0] = 0
    BY <1>2, <1>14 DEF Tree, Levels
  <2>2. TableAt(pd, <<d[1], d[2]>>) = t /\ ~Loop(t, d[3]) /\ L2[t] <= 2 /\ t \in Frames
    <3>1. TableAt(pd, <<d[1], d[2]>>) = t
      BY <1>3, <2>1, PathWalk
    <3>2. t \in Frames /\ L2[t] \in 1 .. 2
      BY <1>13, <1>14
    <3> QED BY <2>1, <3>1, <3>2 DEF Loop
  <2>3. Tree(pd, L2, idle, t, V) /\ L2[t] = 2
    BY <1>14
  <2> HIDE DEF t
  <2>4. /\ pt.table[t][d[3]] \in Frames
        /\ \E L : L[pt.table[t][d[3]]] = L2[t] + 1 /\ Tree(pt, L, idle, pt.table[t][d[3]], V)
        /\ pt = pd \/ \E g : LinksTo(pd, pt, t, d[3], g) /\ pd.table[t][d[3]] = Absent
    BY <1>3, <1>10, <2>2, <2>3, EnsureTree
  <2> HIDE DEF pt
  <2>5. Pd(pt, d) = t
    <3>1. t # Absent /\ t = Pd(pd, d)
      BY <1>7, <2>2, TableType DEF t
    <3>2. CASE pt = pd
      BY <3>1, <3>2
    <3>3. CASE pt # pd
      <4>1. PICK g : LinksTo(pd, pt, t, d[3], g) /\ pd.table[t][d[3]] = Absent
        BY <2>4, <3>3
      <4> QED BY <1>3, <1>7, <2>1, <2>2, <3>1, <4>1, WalkKept
    <3> QED BY <3>2, <3>3
  <2>6. Pt(pt, d) = pt.table[t][d[3]]
    BY <2>5 DEF Pt
  <2> QED BY <2>3, <2>4, <2>6
<1> HIDE DEF pdp, pd, pt
<1> DEFINE t == Pt(pt, d)
<1>16. PICK L3 : L3[t] = 3 /\ Tree(pt, L3, idle, t, V)
  BY <1>15
<1>17. Levels(pt, L3, idle) /\ EnteredOnce(pt) /\ Maps(pt, L3, V) /\ Rooted(pt)
       /\ pt.free \cap idle = {}
  BY <1>16 DEF Tree, Levels
<1>18. t \in Frames /\ TableAt(pt, <<d[1], d[2], d[3]>>) = t
  BY <1>3, <1>15, <1>17, PathWalk
<1>19. Page(pt, d) = Absent
  BY <1>16, <1>17, <1>18, NotMapped DEF d
<1>20. n \in Paging
  BY <1>2, VmmMapType DEF n
<1>21. n = [pt EXCEPT !.table = [pt.table EXCEPT ![t] = [pt.table[t] EXCEPT ![d[4]] = f]]]
  BY <1>9, <1>10, <1>18
<1>22. LinksTo(pt, n, t, d[4], f) /\ n.free = pt.free
  BY <1>8, <1>21 DEF LinksTo, Paging
<1>23. n.free = pt.free \ {f} /\ f \in pt.free \cup idle
  BY <1>17, <1>22
<1>24. \E next : Tree(n, next, idle \ {f}, Absent, V \cup {v})
  BY <1>5, <1>16, <1>18, <1>19, <1>20, <1>22, <1>23, LinkPage DEF d
<1> QED BY <1>24 DEF Mapped, n

\* What MapNew does: a frame, and then its page.
LEMMA MapNewUnfold ==
  ASSUME NEW m, NEW v
  PROVE  MapNew(m, v) = IF LastFrame(m) THEN Request(m) ELSE VmmMap(Request(m), v, Min(m.free))
BY DEF MapNew, Once

\* A newly mapped page keeps the types, and a request that did not return stays so.
LEMMA MapNewType ==
  ASSUME NEW m \in Paging, NEW v \in Nat
  PROVE  MapNew(m, v) \in Paging /\ (m.out => MapNew(m, v).out)
<1>1. Request(m) \in Paging /\ (m.out => Request(m).out)
  BY RequestType
<1>2. m.free # {} => Min(m.free) \in Frames
  BY MinFree, VmmAssumption DEF Paging, Frames
<1> QED BY <1>1, <1>2, VmmMapType, MapNewUnfold, NotLastFree

\* A page is requested and mapped, if its requests return.
LEMMA MapNewMaps ==
  ASSUME NEW m, NEW V, Mapped(m, {}, V),
         NEW v \in Nat, v \notin V, m.free # {} => v \in Pages /\ Indices(v)[1] # FractalIndex,
         ~MapNew(m, v).out
  PROVE  m.free # {} /\ Mapped(MapNew(m, v), {}, V \cup {v})
<1>1. PICK L : Tree(m, L, {}, Absent, V)
  BY DEF Mapped
<1>2. m \in Paging
  BY <1>1 DEF Tree, Levels
<1>3. ~LastFrame(m) /\ m.free # {}
  BY <1>2, MapNewUnfold, NotLastFree DEF Request, Paging
<1> DEFINE f == Min(m.free)
           r == Request(m)
<1>4. f \in m.free
  BY <1>2, <1>3, MinFree
<1>5. r = [m EXCEPT !.free = m.free \ {f}] /\ r \in Paging
  BY <1>2, <1>3, RequestType DEF Request
<1>6. MapNew(m, v) = VmmMap(r, v, f)
  BY <1>3, MapNewUnfold
<1> HIDE DEF f, r
<1>7. r.table = m.table /\ r.free = m.free \ {f}
  BY <1>2, <1>5 DEF Paging
<1>8. Levels(r, L, {f})
  <2>1. Levels(m, L, {}) /\ f \in Frames
    BY <1>1, <1>2, <1>4, VmmAssumption DEF Tree, Paging, Frames
  <2>2. Rooted(r)
    BY <1>7, <2>1 DEF Levels, Rooted
  <2>3. \A u \in r.free \cup {f} : L[u] = 5
    BY <1>4, <1>7, <2>1 DEF Levels
  <2>4. {f} \subseteq Frames /\ r.free \cap {f} = {}
    BY <1>7, <2>1
  <2> QED BY <1>5, <1>7, <2>1, <2>2, <2>3, <2>4 DEF Levels
<1>9. Tree(r, L, {f}, Absent, V)
  <2>1. EnteredOnce(m) /\ Filled(m, L, Absent) /\ Maps(m, L, V)
    BY <1>1 DEF Tree
  <2>2. EnteredOnce(r)
    BY <1>7, <2>1 DEF EnteredOnce
  <2>3. Filled(r, L, Absent)
    BY <1>7, <2>1 DEF Filled
  <2>4. Maps(r, L, V)
    <3>1. \A d : Page(r, d) = Page(m, d)
      BY <1>7 DEF Page, Pt, Pd, Pdp
    <3> QED BY <1>7, <2>1, <3>1 DEF Maps
  <2> QED BY <1>8, <2>2, <2>3, <2>4 DEF Tree
<1>10. Mapped(r, {f}, V)
  BY <1>9 DEF Mapped
<1>11. Mapped(VmmMap(r, v, f), {f} \ {f}, V \cup {v})
  BY <1>3, <1>6, <1>10, VmmMapMaps
<1>12. {f} \ {f} = {}
  OBVIOUS
<1> QED BY <1>3, <1>6, <1>11, <1>12

\* What a page is mapped to is a frame that is no table and not free.
LEMMA PageLevel ==
  ASSUME NEW m, NEW L, NEW idle, NEW V, Tree(m, L, idle, Absent, V), NEW v \in V
  PROVE  VmmMapping(m, v) = Page(m, Indices(v)) /\ VmmMapping(m, v) \in Frames
         /\ L[VmmMapping(m, v)] = 4
<1> DEFINE d == Indices(v)
<1>1. /\ Levels(m, L, idle) /\ m \in Paging /\ Rooted(m) /\ v \in Nat
      /\ Page(m, d) # Absent /\ d[1] # FractalIndex
  BY DEF Tree, Levels, Maps, Pages
<1>2. d[1] \in Index /\ d[2] \in Index /\ d[3] \in Index /\ d[4] \in Index
  BY <1>1, IndicesType
<1>3. VmmMapping(m, v) = Page(m, d)
  BY <1>1, MappingWalk
<1> HIDE DEF d
<1>4. \A j \in Index : m.table[Absent][j] = Absent
  BY <1>1 DEF Rooted, EmptyTable, Index
<1>5. Pt(m, d) # Absent /\ Pd(m, d) # Absent /\ Pdp(m, d) # Absent
  BY <1>1, <1>2, <1>4 DEF Page, Pt, Pd
<1>6. \A u \in Frames, j \in Index : ~Loop(u, j) /\ m.table[u][j] # Absent =>
         m.table[u][j] \in Frames /\ L[m.table[u][j]] = L[u] + 1
  BY <1>1, TableType DEF Levels
<1>7. 0 \in Frames /\ L[0] = 0
  BY <1>1, VmmAssumption DEF Levels, Frames
<1>8. Pdp(m, d) \in Frames /\ L[Pdp(m, d)] = 1
  BY <1>1, <1>2, <1>5, <1>6, <1>7 DEF Pdp, Loop
<1>9. Pd(m, d) \in Frames /\ L[Pd(m, d)] = 2
  BY <1>2, <1>5, <1>6, <1>7, <1>8 DEF Pd, Loop
<1>10. Pt(m, d) \in Frames /\ L[Pt(m, d)] = 3
  BY <1>2, <1>5, <1>6, <1>7, <1>9 DEF Pt, Loop
<1>11. Page(m, d) \in Frames /\ L[Page(m, d)] = 4
  BY <1>1, <1>2, <1>6, <1>7, <1>10 DEF Page, Loop
<1> QED BY <1>3, <1>11 DEF d

\* Mapped pages have different frames, none of which is free or a table, and
\* each entry leads to one of them or to a table.
MappedWell(m, V) ==
  LET taken == {VmmMapping(m, v) : v \in V}
  IN  /\ taken \subseteq 1 .. NumFrames
      /\ IsFiniteSet(taken) /\ Cardinality(taken) = Cardinality(V)
      /\ taken \cap (m.free \cup Tables(m)) = {}
      /\ \A t \in Tables(m) : \A i \in Index :
           m.table[t][i] \in taken \cup Tables(m) \cup {Absent}

\* Mapped pages are told apart: no two of them share a frame, and no frame is both a
\* table and a page.
LEMMA MappedSound ==
  ASSUME NEW m, NEW idle, NEW V, Mapped(m, idle, V), IsFiniteSet(V)
  PROVE  MappedWell(m, V)
<1>1. PICK L : Tree(m, L, idle, Absent, V)
  BY DEF Mapped
<1>2. Levels(m, L, idle) /\ m \in Paging /\ Rooted(m) /\ EnteredOnce(m)
      /\ L \in [Frames -> 0 .. 5] /\ V \subseteq Pages
  BY <1>1 DEF Tree, Levels, Maps
<1>3. \A v \in V : /\ VmmMapping(m, v) = Page(m, Indices(v))
                   /\ VmmMapping(m, v) \in Frames /\ L[VmmMapping(m, v)] = 4
  BY <1>1, PageLevel
<1> DEFINE taken == {VmmMapping(m, v) : v \in V}
           F == [v \in V |-> VmmMapping(m, v)]
<1>4. \A f \in taken : f \in Frames /\ L[f] = 4 /\ f # 0 /\ f \notin m.free
  <2>1. \A f \in taken : f \in Frames /\ L[f] = 4
    BY <1>3
  <2> HIDE DEF taken
  <2> QED BY <1>2, <2>1 DEF Levels
<1>5. IsFiniteSet(taken) /\ Cardinality(taken) = Cardinality(V)
  <2>1. F \in Surjection(V, taken)
    BY DEF Surjection
  <2>2. \A v, w \in V : F[v] = F[w] => v = w
    <3>1. ASSUME NEW v \in V, NEW w \in V, F[v] = F[w]
          PROVE  v = w
      <4>1. /\ Page(m, Indices(v)) = Page(m, Indices(w)) /\ Page(m, Indices(v)) \in Frames
            /\ v \in Pages /\ w \in Pages
        BY <1>2, <1>3, <3>1
      <4>2. Page(m, Indices(v)) # Absent
        BY <1>2, <4>1, TableType
      <4> QED BY <1>2, <4>1, <4>2, PageUnique
    <3> QED BY <3>1
  <2>3. F \in Injection(V, taken)
    <3>1. F \in [V -> taken]
      OBVIOUS
    <3> HIDE DEF F, taken
    <3> QED BY <2>2, <3>1 DEF Injection, IsInjective
  <2> HIDE DEF F, taken
  <2> QED BY <2>1, <2>3, FS_Surjection
<1> HIDE DEF taken
<1>6. taken \subseteq 1 .. NumFrames
  BY <1>4, VmmAssumption DEF Frames
<1>7. \A t \in Frames : L[t] >= 4 => t \notin Tables(m)
  BY <1>2, UnusedEmpty DEF Tables
<1>8. taken \cap (m.free \cup Tables(m)) = {}
  BY <1>4, <1>7
<1>9. ASSUME NEW t \in Tables(m), NEW i \in Index, m.table[t][i] # Absent
      PROVE  m.table[t][i] \in taken \cup Tables(m)
  <2>1. t \in Absent .. NumFrames /\ m.table[t] # EmptyTable
    BY <1>2 DEF Tables, Paging
  <2>2. t # Absent
    BY <1>2, <2>1 DEF Rooted
  <2>3. t \in Frames /\ m.table[t][i] \in Frames
    <3>1. t \in Frames
      BY <2>1, <2>2, VmmAssumption DEF Frames, Absent
    <3> QED BY <1>2, <1>9, <3>1, TableType
  <2> DEFINE e == m.table[t][i]
  <2>4. CASE Loop(t, i)
    BY <1>2, <2>4 DEF Loop, Rooted
  <2>5. CASE ~Loop(t, i) /\ L[t] = 3
    <3>1. PICK v \in V : e = Page(m, Indices(v))
      BY <1>1, <1>9, <2>3, <2>5 DEF Tree, Maps
    <3> QED BY <1>3, <3>1 DEF taken
  <2>6. CASE ~Loop(t, i) /\ L[t] # 3
    <3>1. L[t] <= 3 /\ L[e] = L[t] + 1 /\ L[t] \in 0 .. 5
      BY <1>2, <1>9, <2>3, <2>6 DEF Levels
    <3>2. L[e] \in 1 .. 3 /\ e # Absent
      BY <1>9, <2>6, <3>1
    <3>3. PICK j \in Index : m.table[e][j] # Absent
      BY <1>1, <2>3, <3>2 DEF Tree, Filled
    <3>4. e \in DOMAIN m.table /\ m.table[e] # EmptyTable
      BY <1>2, <2>3, <3>3, TableType DEF EmptyTable, Index
    <3> QED BY <3>4 DEF Tables
  <2> QED BY <2>4, <2>5, <2>6
<1> QED BY <1>5, <1>6, <1>8, <1>9 DEF taken, MappedWell

\* There are no more mapped pages than frames, and fewer while one is free.
LEMMA MappedFit ==
  ASSUME NEW m, NEW V, Mapped(m, {}, V), IsFiniteSet(V)
  PROVE  Cardinality(V) <= NumFrames /\ (m.free # {} => Cardinality(V) < NumFrames)
<1> DEFINE taken == {VmmMapping(m, v) : v \in V}
<1>1. /\ taken \subseteq 1 .. NumFrames /\ taken \cap m.free = {}
      /\ IsFiniteSet(taken) /\ Cardinality(taken) = Cardinality(V)
  <2>1. /\ taken \subseteq 1 .. NumFrames
        /\ IsFiniteSet(taken) /\ Cardinality(taken) = Cardinality(V)
        /\ taken \cap (m.free \cup Tables(m)) = {}
    BY MappedSound DEF MappedWell
  <2> HIDE DEF taken
  <2> QED BY <2>1
<1> HIDE DEF taken
<1>2. m.free \subseteq 1 .. NumFrames
  BY DEF Mapped, Tree, Levels, Paging
<1>3. IsFiniteSet(1 .. NumFrames) /\ Cardinality(1 .. NumFrames) = NumFrames
  BY VmmAssumption, FS_Interval
<1>4. Cardinality(taken) <= NumFrames /\ (Cardinality(taken) = NumFrames => taken = 1 .. NumFrames)
  <2>1. taken \in SUBSET (1 .. NumFrames)
    BY <1>1
  <2> QED BY <1>3, <2>1, FS_Subset
<1>5. Cardinality(taken) \in Nat
  BY <1>1, FS_CardinalityType
<1> QED BY <1>1, <1>2, <1>4, <1>5, VmmAssumption

\* At first nothing is mapped; frames may be requested before they are.
LEMMA InitMapped ==
  ASSUME NEW n \in 0 .. NumFrames
  PROVE  Mapped([VmmInit EXCEPT !.free = @ \ (1 .. n)], 1 .. n, {})
<1> DEFINE m == [VmmInit EXCEPT !.free = @ \ (1 .. n)]
           L == [f \in Frames |-> IF f = 0 THEN 0 ELSE 5]
           root == [EmptyTable EXCEPT ![FractalIndex] = 0]
<1>1. FractalIndex \in Index /\ 0 \in Frames /\ Absent \notin Frames
  BY VmmAssumption DEF Index, Frames, Absent
<1>2. /\ EmptyTable \in [Index -> Absent .. NumFrames] /\ root \in [Index -> Absent .. NumFrames]
      /\ \A i \in Index : EmptyTable[i] = Absent /\ root[i] = IF i = FractalIndex THEN 0 ELSE Absent
  BY <1>1, VmmAssumption DEF EmptyTable, Index, Absent
<1> DEFINE left == (1 .. NumFrames) \ (1 .. n)
           table == [f \in Absent .. NumFrames |-> IF f = 0 THEN root ELSE EmptyTable]
<1>3. m = [VmmInit EXCEPT !.free = left]
  BY DEF VmmInit
<1> HIDE DEF m
<1>4. m \in Paging /\ m.free = left /\ m.table = table
  <2>1. VmmInit = [free |-> 1 .. NumFrames, out |-> FALSE, table |-> table]
    BY DEF VmmInit
  <2>2. table \in [Absent .. NumFrames -> [Index -> Absent .. NumFrames]]
    BY <1>2
  <2>3. left \in SUBSET (1 .. NumFrames)
    OBVIOUS
  <2> HIDE DEF table, left
  <2>4. VmmInit \in Paging /\ VmmInit.table = table
    BY <2>1, <2>2 DEF Paging
  <2> QED BY <1>3, <2>3, <2>4 DEF Paging
<1>5. m.table[Absent] = EmptyTable /\ m.table[0] = root
      /\ \A f \in Frames : f # 0 => m.table[f] = EmptyTable
  <2>1. Absent \in Absent .. NumFrames /\ Frames \subseteq Absent .. NumFrames
    BY VmmAssumption DEF Absent, Frames
  <2> QED BY <1>1, <1>4, <2>1
<1>6. \A f \in Frames, i \in Index : m.table[f][i] # Absent => Loop(f, i)
  BY <1>2, <1>5 DEF Loop
<1>7. Levels(m, L, 1 .. n)
  <2>1. Rooted(m)
    BY <1>1, <1>2, <1>5 DEF Rooted
  <2>2. L \in [Frames -> 0 .. 5] /\ \A f \in Frames : L[f] = 0 <=> f = 0
    OBVIOUS
  <2>3. 1 .. n \subseteq Frames /\ m.free \subseteq Frames /\ m.free \cap (1 .. n) = {}
        /\ 0 \notin m.free /\ 0 \notin 1 .. n
    BY <1>4, VmmAssumption DEF Frames
  <2>4. \A f \in m.free \cup (1 .. n) : L[f] = 5
    BY <2>3
  <2> QED BY <1>4, <1>6, <2>1, <2>2, <2>3, <2>4 DEF Levels
<1>8. EnteredOnce(m)
  BY <1>6 DEF EnteredOnce, Loop
<1>9. Filled(m, L, Absent)
  BY DEF Filled
<1>10. Maps(m, L, {})
  BY DEF Maps
<1>11. Tree(m, L, 1 .. n, Absent, {})
  BY <1>7, <1>8, <1>9, <1>10 DEF Tree
<1> QED BY <1>11 DEF Mapped, m

-----------------------------------------------------------------------------
(***************************************************************************)
(* What holds of a list between any two calls of its operators.            *)
(***************************************************************************)
Header0 == [size : Nat, prev : Nat \cup {NULL}, next : Nat \cup {NULL}, used : BOOLEAN]

\* A list has a header at each address of a set of numbers.
IsList(l) == /\ l = [seg |-> l.seg, last |-> l.last]
             /\ l.seg = [x \in DOMAIN l.seg |-> l.seg[x]]
             /\ DOMAIN l.seg \subseteq Nat
             /\ \A a \in DOMAIN l.seg : l.seg[a] \in Header0
             /\ heap_first \in DOMAIN l.seg /\ l.last \in DOMAIN l.seg

\* Each segment ends where the next one begins, the last one at top.
Forward(l, top) == \A a \in DOMAIN l.seg :
                     IF a = l.last THEN l.seg[a].next = NULL /\ End(l.seg, a) = top
                     ELSE l.seg[a].next = End(l.seg, a) /\ l.seg[a].next \in DOMAIN l.seg

Backward(l) == \A a \in DOMAIN l.seg :
                 IF l.seg[a].prev = NULL THEN a = heap_first
                 ELSE /\ l.seg[a].prev \in DOMAIN l.seg
                      /\ l.seg[l.seg[a].prev].next = a

\* No segment reaches into another, and none is behind the last one.
Apart(l) == /\ \A a, b \in DOMAIN l.seg : a < b => End(l.seg, a) <= b
            /\ \A a \in DOMAIN l.seg : a <= l.last

Sound(l, top) == IsList(l) /\ Forward(l, top) /\ Backward(l) /\ Apart(l)

\* Segment a and the one behind it are not both free.
Joined(l, a) == l.seg[a].next # NULL => l.seg[a].used \/ l.seg[l.seg[a].next].used

\* From a list to another one, blocks in use stay where they are.
Keeps(l, m) == /\ \A x \in DOMAIN l.seg :
                    l.seg[x].used => x \in DOMAIN m.seg /\ m.seg[x].used
               /\ \A x \in DOMAIN m.seg :
                    m.seg[x].used =>
                      x \in DOMAIN l.seg /\ l.seg[x].used /\ m.seg[x].size = l.seg[x].size

-----------------------------------------------------------------------------
(***************************************************************************)
(* The operators on lists.                                                 *)
(***************************************************************************)

\* No two segments lead to the same one.
LEMMA NextUnique ==
  ASSUME NEW l, NEW top, Sound(l, top), NEW x \in DOMAIN l.seg, NEW y \in DOMAIN l.seg,
         l.seg[x].next = l.seg[y].next, l.seg[x].next # NULL
  PROVE  x = y
<1>1. l.seg[x].next = End(l.seg, x) /\ l.seg[y].next = End(l.seg, y)
  BY DEF Sound, Forward
<1>2. x \in Nat /\ y \in Nat /\ l.seg[x].size \in Nat /\ l.seg[y].size \in Nat
  BY DEF Sound, IsList, Header0
<1>3. (x < y => End(l.seg, x) <= y) /\ (y < x => End(l.seg, y) <= x)
  BY DEF Sound, Apart
<1>4. End(l.seg, x) = End(l.seg, y)
  BY <1>1
<1>5. End(l.seg, x) \in Nat /\ End(l.seg, x) > x /\ End(l.seg, y) > y
  BY <1>2 DEF End, Header
<1> QED BY <1>2, <1>3, <1>4, <1>5

\* CombineForward keeps a list sound, joins the free segment a for good, and
\* disturbs no other pair of neighbours and no block in use.
LEMMA CombineForwardSound ==
  ASSUME NEW l, NEW top, Sound(l, top), NEW a \in DOMAIN l.seg, ~l.seg[a].used,
         \A x \in DOMAIN l.seg : x > a => Joined(l, x),
         NEW m, m = CombineForward(l, a)
  PROVE  /\ Sound(m, top)
         /\ a \in DOMAIN m.seg /\ ~m.seg[a].used
         /\ m.seg[a].prev = l.seg[a].prev /\ m.seg[a].size >= l.seg[a].size
         /\ LET n == l.seg[a].next
            IN  n # NULL /\ ~l.seg[n].used => m.seg[a].size = l.seg[a].size + Header + l.seg[n].size
         /\ Joined(m, a)
         /\ \A x \in DOMAIN m.seg :
              x # a => /\ x \in DOMAIN l.seg /\ m.seg[x].next = l.seg[x].next
                       /\ Joined(l, x) => Joined(m, x)
         /\ Keeps(l, m)
<1> DEFINE n == l.seg[a].next
<1>1. CASE n = NULL \/ l.seg[n].used \/ n # End(l.seg, a)
  <2>1. m = l
    BY <1>1 DEF CombineForward
  <2>2. Joined(l, a)
    BY <1>1 DEF Joined, Sound, Forward
  <2>3. ~(n # NULL /\ ~l.seg[n].used)
    BY <1>1 DEF Sound, Forward
  <2> QED BY <2>1, <2>2, <2>3 DEF Keeps, Sound, IsList, Header0
<1>2. CASE n # NULL /\ ~l.seg[n].used /\ n = End(l.seg, a)
  <2> DEFINE nn == l.seg[n].next
  <2>1. /\ DOMAIN m.seg = DOMAIN l.seg \ {n}
        /\ m = [seg |-> m.seg, last |-> m.last]
        /\ m.seg = [x \in DOMAIN m.seg |-> m.seg[x]]
        /\ m.last = IF n = l.last THEN a ELSE l.last
        /\ \A x \in DOMAIN l.seg \ {n} : m.seg[x] =
             IF x = a THEN [l.seg[a] EXCEPT !.size = @ + Header + l.seg[n].size, !.next = nn]
             ELSE IF x = nn THEN [l.seg[x] EXCEPT !.prev = a]
             ELSE l.seg[x]
    BY <1>2 DEF CombineForward
  <2>2. /\ \A x \in DOMAIN l.seg : l.seg[x] \in Header0 /\ x \in Nat
        /\ n \in DOMAIN l.seg /\ a < n /\ n # a /\ a # l.last
    BY <1>2 DEF Sound, IsList, Forward, End, Header, Header0, NULL
  <2>3. /\ a \in DOMAIN m.seg
        /\ m.seg[a] = [size |-> l.seg[a].size + Header + l.seg[n].size,
                       prev |-> l.seg[a].prev, next |-> nn, used |-> FALSE]
    BY <2>1, <2>2 DEF Header0
  <2>4. ASSUME NEW x \in DOMAIN m.seg, x # a
        PROVE  /\ m.seg[x].size = l.seg[x].size /\ m.seg[x].next = l.seg[x].next
               /\ m.seg[x].used = l.seg[x].used
               /\ m.seg[x].prev = IF x = nn THEN a ELSE l.seg[x].prev
               /\ m.seg[x] \in Header0
    <3>1. CASE x = nn
      <4>1. m.seg[x] = [l.seg[x] EXCEPT !.prev = a] /\ l.seg[x] \in Header0
        BY <2>1, <2>2, <2>4, <3>1
      <4>2. m.seg[x] = [size |-> l.seg[x].size, prev |-> a, next |-> l.seg[x].next,
                        used |-> l.seg[x].used]
        BY <4>1 DEF Header0
      <4> QED BY <2>2, <3>1, <4>1, <4>2 DEF Header0
    <3>2. CASE x # nn
      BY <2>1, <2>2, <2>4, <3>2
    <3> QED BY <3>1, <3>2
  <2>5. nn # NULL => nn \in DOMAIN m.seg /\ n < nn
    BY <2>1, <2>2 DEF Sound, Forward, Header0, End, Header
  <2>6. IsList(m)
    <3>1. m.seg[a] \in Header0
      BY <2>2, <2>3 DEF Header0, Header
    <3>2. \A x \in DOMAIN m.seg : m.seg[x] \in Header0
      BY <3>1, <2>4
    <3>3. heap_first \in DOMAIN m.seg /\ m.last \in DOMAIN m.seg
      BY <2>1, <2>2 DEF Sound, IsList, heap_first
    <3> QED BY <2>1, <2>2, <3>2, <3>3 DEF IsList
  <2>7. Forward(m, top)
    <3>1. ASSUME NEW x \in DOMAIN m.seg
          PROVE  IF x = m.last THEN m.seg[x].next = NULL /\ End(m.seg, x) = top
                 ELSE m.seg[x].next = End(m.seg, x) /\ m.seg[x].next \in DOMAIN m.seg
      <4>1. CASE x = a
        <5>1. End(m.seg, a) = End(l.seg, n)
          BY <1>2, <2>2, <2>3 DEF End, Header0, Header
        <5>2. (a = m.last) <=> (n = l.last)
          BY <2>1, <2>2
        <5>3. IF n = l.last THEN nn = NULL /\ End(l.seg, n) = top
              ELSE nn = End(l.seg, n) /\ nn \in DOMAIN l.seg
          BY <2>2 DEF Sound, Forward
        <5>4. m.seg[a].next = nn
          BY <2>3
        <5>5. nn \in DOMAIN l.seg => nn # NULL
          BY <2>2 DEF NULL
        <5> QED BY <2>5, <4>1, <5>1, <5>2, <5>3, <5>4, <5>5
      <4>2. CASE x # a
        <5>1. x \in DOMAIN l.seg /\ x # n /\ (x = m.last <=> x = l.last)
          BY <2>1, <2>2, <4>2
        <5>2. End(m.seg, x) = End(l.seg, x) /\ m.seg[x].next = l.seg[x].next
          BY <2>4, <4>2 DEF End
        <5>3. x # l.last => l.seg[x].next # n
          BY <1>2, <2>2, <4>2, <5>1 DEF Sound, Forward, Apart, End, Header, Header0
        <5> QED BY <2>1, <5>1, <5>2, <5>3 DEF Sound, Forward
      <4> QED BY <4>1, <4>2
    <3> QED BY <3>1 DEF Forward
  <2>8. Apart(m)
    <3>1. ASSUME NEW x \in DOMAIN m.seg, NEW y \in DOMAIN m.seg, x < y
          PROVE  End(m.seg, x) <= y
      <4>1. End(l.seg, x) <= y
        BY <2>1, <3>1 DEF Sound, Apart
      <4>2. CASE x = a
        <5>1. End(m.seg, a) = End(l.seg, n)
          BY <1>2, <2>2, <2>3 DEF End, Header0, Header
        <5>2. y \in DOMAIN l.seg /\ y # n /\ n <= y /\ y \in Nat
          BY <1>2, <2>1, <2>2, <4>1, <4>2
        <5>3. n < y => End(l.seg, n) <= y
          BY <2>2, <5>2 DEF Sound, Apart
        <5> QED BY <2>2, <4>2, <5>1, <5>2, <5>3
      <4>3. CASE x # a
        BY <2>4, <4>1, <4>3 DEF End
      <4> QED BY <4>2, <4>3
    <3>2. ASSUME NEW x \in DOMAIN m.seg
          PROVE  x <= m.last
      <4>1. x \in DOMAIN l.seg /\ x # n /\ x <= l.last
        BY <2>1 DEF Sound, Apart
      <4>2. a < x => End(l.seg, a) <= x
        BY <4>1 DEF Sound, Apart
      <4> QED BY <1>2, <2>1, <2>2, <4>1, <4>2
    <3> QED BY <3>1, <3>2 DEF Apart
  <2>9. Backward(m)
    <3>1. ASSUME NEW x \in DOMAIN m.seg
          PROVE  IF m.seg[x].prev = NULL THEN x = heap_first
                 ELSE /\ m.seg[x].prev \in DOMAIN m.seg
                      /\ m.seg[m.seg[x].prev].next = x
      <4>1. x \in DOMAIN l.seg /\ x # n
        BY <2>1
      <4>2. CASE x = nn
        <5>1. nn # NULL /\ x # a
          BY <2>2, <2>5, <4>1, <4>2 DEF NULL
        <5>2. m.seg[x].prev = a /\ a # NULL
          BY <2>2, <2>4, <4>2, <5>1 DEF NULL
        <5> QED BY <2>3, <4>2, <5>2
      <4>3. CASE x # nn
        <5>1. m.seg[x].prev = l.seg[x].prev
          BY <2>3, <2>4, <4>3
        <5>2. l.seg[x].prev # n
          BY <2>2, <4>1, <4>3 DEF Sound, Backward, NULL
        <5>3. l.seg[x].prev # a
          BY <2>2, <4>1 DEF Sound, Backward, NULL
        <5>4. IF l.seg[x].prev = NULL THEN x = heap_first
              ELSE l.seg[x].prev \in DOMAIN l.seg /\ l.seg[l.seg[x].prev].next = x
          BY <4>1 DEF Sound, Backward
        <5>5. l.seg[x].prev # NULL =>
                l.seg[x].prev \in DOMAIN m.seg /\ m.seg[l.seg[x].prev].next = x
          BY <2>1, <2>4, <5>2, <5>3, <5>4
        <5> QED BY <5>1, <5>4, <5>5
      <4> QED BY <4>2, <4>3
    <3> QED BY <3>1 DEF Backward
  <2>10. Joined(m, a)
    <3>1. CASE nn = NULL
      BY <2>3, <3>1 DEF Joined
    <3>2. CASE nn # NULL
      <4>1. Joined(l, n) /\ ~l.seg[n].used
        BY <1>2, <2>2
      <4>2. l.seg[nn].used
        BY <4>1, <3>2 DEF Joined
      <4>3. nn # a /\ nn \in DOMAIN m.seg
        BY <2>2, <2>5, <3>2
      <4>4. m.seg[nn].used = l.seg[nn].used
        BY <2>4, <4>3
      <4>5. m.seg[a].next = nn
        BY <2>3
      <4>6. m.seg[m.seg[a].next].used
        BY <4>2, <4>4, <4>5
      <4> QED BY <4>6 DEF Joined
    <3> QED BY <3>1, <3>2
  <2>11. ASSUME NEW x \in DOMAIN m.seg, x # a, Joined(l, x)
         PROVE  Joined(m, x)
    <3>1. CASE l.seg[x].next = NULL
      BY <2>4, <2>11, <3>1 DEF Joined
    <3>2. CASE l.seg[x].next # NULL
      <4>1. x \in DOMAIN l.seg /\ x # n
        BY <2>1
      <4>2. l.seg[x].next = End(l.seg, x) /\ l.seg[x].next \in DOMAIN l.seg
        BY <3>2, <4>1 DEF Sound, Forward
      <4>3. l.seg[x].next # n
        BY <1>2, <2>2, <2>11, <4>1, <4>2 DEF Sound, Apart, End, Header, Header0
      <4>4. l.seg[x].next \in DOMAIN m.seg
        BY <2>1, <4>2, <4>3
      <4> QED BY <2>3, <2>4, <2>11, <4>4 DEF Joined
    <3> QED BY <3>1, <3>2
  <2>12. Keeps(l, m)
    BY <1>2, <2>1, <2>2, <2>3, <2>4 DEF Keeps
  <2>13. m.seg[a].size >= l.seg[a].size
    BY <2>2, <2>3 DEF Header0, Header
  <2>14. Sound(m, top)
    BY <2>6, <2>7, <2>8, <2>9 DEF Sound
  <2>15. \A x \in DOMAIN m.seg :
           x # a => /\ x \in DOMAIN l.seg /\ m.seg[x].next = l.seg[x].next
                    /\ Joined(l, x) => Joined(m, x)
    BY <2>1, <2>4, <2>11
  <2>16. ~m.seg[a].used /\ m.seg[a].prev = l.seg[a].prev
         /\ m.seg[a].size = l.seg[a].size + Header + l.seg[n].size
    BY <2>3
  <2> QED BY <2>3, <2>10, <2>12, <2>13, <2>14, <2>15, <2>16
<1> QED BY <1>1, <1>2

\* CombineBackward keeps a list sound.  If only the pair in front of the free
\* segment a may be unjoined, all pairs are joined afterwards, and a free
\* segment of at least the size of a is there.
LEMMA CombineBackwardSound ==
  ASSUME NEW l, NEW top, Sound(l, top), NEW a \in DOMAIN l.seg, ~l.seg[a].used,
         \A x \in DOMAIN l.seg : l.seg[x].next # a => Joined(l, x),
         NEW m, m = CombineBackward(l, a)
  PROVE  /\ Sound(m, top)
         /\ \A x \in DOMAIN m.seg : Joined(m, x)
         /\ Keeps(l, m)
         /\ \E b \in DOMAIN m.seg : ~m.seg[b].used /\ m.seg[b].size >= l.seg[a].size
<1> DEFINE p == l.seg[a].prev
<1>1. CASE p = NULL \/ l.seg[p].used
  <2>1. m = l
    BY <1>1 DEF CombineBackward
  <2>2. ASSUME NEW x \in DOMAIN l.seg
        PROVE  Joined(l, x)
    <3>1. CASE l.seg[x].next = a
      <4>1. a # NULL /\ x # l.last /\ a = End(l.seg, x)
        BY <3>1 DEF Sound, IsList, Forward, NULL
      <4>2. p # NULL
        BY <4>1 DEF Sound, IsList, Backward, heap_first, End, Header, Header0
      <4>3. p \in DOMAIN l.seg /\ l.seg[p].next = a
        BY <4>2 DEF Sound, Backward
      <4>4. p = x
        BY <3>1, <4>1, <4>3, NextUnique
      <4> QED BY <1>1, <4>2, <4>4 DEF Joined
    <3>2. CASE l.seg[x].next # a
      BY <3>2
    <3> QED BY <3>1, <3>2
  <2> QED BY <2>1, <2>2 DEF Keeps, Sound, IsList, Header0
<1>2. CASE p # NULL /\ ~l.seg[p].used
  <2>1. p \in DOMAIN l.seg /\ l.seg[p].next = a /\ m = CombineForward(l, p)
    BY <1>2 DEF CombineBackward, Sound, Backward
  <2>2. a # NULL /\ a = End(l.seg, p)
    BY <2>1 DEF Sound, IsList, Forward, NULL
  <2>3. ASSUME NEW x \in DOMAIN l.seg, x > p
        PROVE  Joined(l, x)
    <3>1. x >= a
      BY <2>1, <2>2, <2>3 DEF Sound, Apart
    <3>2. l.seg[x].next # a
      BY <2>2, <3>1 DEF Sound, IsList, Forward, End, Header, Header0
    <3> QED BY <3>2
  <2>4. ASSUME NEW x \in DOMAIN l.seg, x # p
        PROVE  Joined(l, x)
    <3>1. l.seg[x].next # a
      BY <2>1, <2>2, <2>4, NextUnique
    <3> QED BY <3>1
  <2>5. /\ Sound(m, top) /\ p \in DOMAIN m.seg /\ ~m.seg[p].used /\ Joined(m, p)
        /\ m.seg[p].size = l.seg[p].size + Header + l.seg[a].size
        /\ \A x \in DOMAIN m.seg : x # p => x \in DOMAIN l.seg /\ (Joined(l, x) => Joined(m, x))
        /\ Keeps(l, m)
    BY <1>2, <2>1, <2>2, <2>3, CombineForwardSound
  <2>6. ASSUME NEW x \in DOMAIN m.seg
        PROVE  Joined(m, x)
    BY <2>4, <2>5
  <2>7. m.seg[p].size >= l.seg[a].size
    <3>1. l.seg[p].size \in Nat /\ l.seg[a].size \in Nat
      BY <2>1 DEF Sound, IsList, Header0
    <3> QED BY <2>5, <3>1 DEF Header
  <2> QED BY <2>5, <2>6, <2>7
<1> QED BY <1>1, <1>2

\* SetUsed and SetFree change nothing but the flag.
LEMMA SetUsedSound ==
  ASSUME NEW l, NEW top, Sound(l, top), NEW a \in DOMAIN l.seg,
         NEW m, m = SetUsed(l, a) \/ m = SetFree(l, a)
  PROVE  /\ Sound(m, top)
         /\ DOMAIN m.seg = DOMAIN l.seg /\ m.last = l.last
         /\ \A x \in DOMAIN m.seg :
              /\ m.seg[x].size = l.seg[x].size /\ m.seg[x].next = l.seg[x].next
              /\ m.seg[x].prev = l.seg[x].prev
              /\ x # a => m.seg[x].used = l.seg[x].used
<1>1. \A x \in DOMAIN l.seg : l.seg[x] \in Header0
  BY DEF Sound, IsList
<1>2. /\ m.last = l.last /\ DOMAIN m.seg = DOMAIN l.seg
      /\ m = [seg |-> m.seg, last |-> m.last] /\ m.seg = [x \in DOMAIN m.seg |-> m.seg[x]]
      /\ \A x \in DOMAIN m.seg : x # a => m.seg[x] = l.seg[x]
  <2>1. CASE m = SetUsed(l, a)
    BY ZenonT(60), <2>1 DEF SetUsed, SetFree, Sound, IsList
  <2>2. CASE m = SetFree(l, a)
    BY <2>2 DEF SetUsed, SetFree, Sound, IsList
  <2> QED BY <2>1, <2>2
<1>3. \/ m.seg[a] = [l.seg[a] EXCEPT !.used = TRUE]
      \/ m.seg[a] = [l.seg[a] EXCEPT !.used = FALSE]
  BY DEF SetUsed, SetFree, Sound, IsList
<1>4. /\ m.seg[a].size = l.seg[a].size /\ m.seg[a].next = l.seg[a].next
      /\ m.seg[a].prev = l.seg[a].prev /\ m.seg[a] \in Header0
  BY <1>1, <1>3 DEF Header0
<1>5. \A x \in DOMAIN m.seg :
        /\ m.seg[x].size = l.seg[x].size /\ m.seg[x].next = l.seg[x].next
        /\ m.seg[x].prev = l.seg[x].prev
        /\ x # a => m.seg[x].used = l.seg[x].used
        /\ m.seg[x] \in Header0
  BY <1>1, <1>2, <1>4
<1>6. IsList(m)
  BY <1>2, <1>5 DEF Sound, IsList
<1>7. Forward(m, top) /\ Apart(m)
  BY <1>2, <1>5 DEF Sound, Forward, Apart, End
<1>8. Backward(m)
  BY <1>2, <1>5 DEF Sound, Backward
<1> QED BY <1>2, <1>5, <1>6, <1>7, <1>8 DEF Sound

\* They do change the flag.
LEMMA SetUsedFlag ==
  ASSUME NEW l, NEW top, Sound(l, top), NEW a \in DOMAIN l.seg
  PROVE  SetUsed(l, a).seg[a].used /\ ~SetFree(l, a).seg[a].used
<1>1. l.seg[a] \in Header0
  BY DEF Sound, IsList
<1> QED BY <1>1 DEF SetUsed, SetFree, Sound, IsList, Header0

\* Split cuts a new segment off a, right behind the size units that a keeps.
LEMMA SplitSound ==
  ASSUME NEW l, NEW top, Sound(l, top), NEW a \in DOMAIN l.seg, NEW size \in Nat,
         size + Header <= l.seg[a].size,
         NEW m, m = Split(l, a, size)
  PROVE  LET new == a + Header + size
         IN  /\ Sound(m, top)
             /\ new \notin DOMAIN l.seg /\ DOMAIN m.seg = DOMAIN l.seg \cup {new}
             /\ m.seg[a].size = size /\ m.seg[a].next = new /\ m.seg[a].used = l.seg[a].used
             /\ m.seg[new].next = l.seg[a].next /\ m.seg[new].used = l.seg[a].used
             /\ \A x \in DOMAIN l.seg \ {a} :
                  /\ m.seg[x].size = l.seg[x].size /\ m.seg[x].next = l.seg[x].next
                  /\ m.seg[x].used = l.seg[x].used
<1> DEFINE new == a + Header + size
           n == l.seg[a].next
<1>1. /\ \A x \in DOMAIN l.seg : l.seg[x] \in Header0 /\ x \in Nat
      /\ new \in Nat /\ a < new /\ new + Header <= End(l.seg, a) /\ a + Header <= new
  BY DEF Sound, IsList, Header0, Header, End
<1>2. new \notin DOMAIN l.seg
  <2>1. new \in DOMAIN l.seg => End(l.seg, a) <= new
    BY <1>1 DEF Sound, Apart
  <2>2. End(l.seg, a) \in Nat
    BY <1>1 DEF Header0, End, Header
  <2> QED BY <1>1, <2>1, <2>2 DEF Header
<1>3. /\ DOMAIN m.seg = DOMAIN l.seg \cup {new}
      /\ m = [seg |-> m.seg, last |-> m.last]
      /\ m.seg = [x \in DOMAIN m.seg |-> m.seg[x]]
      /\ m.last = IF l.last = a THEN new ELSE l.last
      /\ m.seg[new] = [size |-> l.seg[a].size - size - Header, prev |-> a, next |-> n,
                       used |-> l.seg[a].used]
      /\ \A x \in DOMAIN l.seg : m.seg[x] =
           IF x = a THEN [l.seg[a] EXCEPT !.size = size, !.next = new]
           ELSE IF x = n THEN [l.seg[x] EXCEPT !.prev = new]
           ELSE l.seg[x]
  BY <1>2 DEF Split, SplitRest
<1>4. n \in DOMAIN l.seg => n > new
  BY <1>1 DEF Sound, Forward, Header, NULL
<1>5. m.seg[a] = [size |-> size, prev |-> l.seg[a].prev, next |-> new, used |-> l.seg[a].used]
  BY <1>1, <1>3 DEF Header0
<1>6. ASSUME NEW x \in DOMAIN l.seg \ {a}
      PROVE  /\ m.seg[x].size = l.seg[x].size /\ m.seg[x].next = l.seg[x].next
             /\ m.seg[x].used = l.seg[x].used
             /\ m.seg[x].prev = IF x = n THEN new ELSE l.seg[x].prev
             /\ m.seg[x] \in Header0
  <2>1. CASE x = n
    <3>1. m.seg[x] = [l.seg[x] EXCEPT !.prev = new] /\ l.seg[x] \in Header0
      BY <1>1, <1>3, <2>1
    <3>2. m.seg[x] = [size |-> l.seg[x].size, prev |-> new, next |-> l.seg[x].next,
                      used |-> l.seg[x].used]
      BY <3>1 DEF Header0
    <3> QED BY <1>1, <2>1, <3>1, <3>2 DEF Header0
  <2>2. CASE x # n
    BY <1>1, <1>3, <2>2
  <2> QED BY <2>1, <2>2
<1>7. IsList(m)
  <2>1. m.seg[a] \in Header0
    BY <1>1, <1>5 DEF Header0
  <2>2. m.seg[new] \in Header0
    BY <1>1, <1>3 DEF Header0, Header, End
  <2>3. \A x \in DOMAIN m.seg : m.seg[x] \in Header0
    BY <1>3, <1>6, <2>1, <2>2
  <2>4. heap_first \in DOMAIN m.seg /\ m.last \in DOMAIN m.seg /\ DOMAIN m.seg \subseteq Nat
    BY <1>1, <1>3 DEF Sound, IsList
  <2> QED BY <1>3, <2>3, <2>4 DEF IsList
<1>8. End(m.seg, a) = new /\ End(m.seg, new) = End(l.seg, a)
  BY <1>1, <1>3, <1>5 DEF End, Header, Header0
<1>9. Forward(m, top)
  <2>1. ASSUME NEW x \in DOMAIN m.seg
        PROVE  IF x = m.last THEN m.seg[x].next = NULL /\ End(m.seg, x) = top
               ELSE m.seg[x].next = End(m.seg, x) /\ m.seg[x].next \in DOMAIN m.seg
    <3>1. CASE x = a
      BY <1>1, <1>3, <1>5, <1>8, <3>1
    <3>2. CASE x = new
      <4>1. new = m.last <=> a = l.last
        BY <1>2, <1>3 DEF Sound, IsList
      <4>2. IF a = l.last THEN n = NULL /\ End(l.seg, a) = top
            ELSE n = End(l.seg, a) /\ n \in DOMAIN l.seg
        BY DEF Sound, Forward
      <4> QED BY <1>3, <1>8, <3>2, <4>1, <4>2
    <3>3. CASE x # a /\ x # new
      <4>1. x \in DOMAIN l.seg \ {a} /\ (x = m.last <=> x = l.last)
        BY <1>3, <3>3
      <4>2. End(m.seg, x) = End(l.seg, x)
        BY <1>6, <4>1 DEF End
      <4> QED BY <1>3, <1>6, <4>1, <4>2 DEF Sound, Forward
    <3> QED BY <3>1, <3>2, <3>3
  <2> QED BY <2>1 DEF Forward
<1>10. Apart(m)
  <2>1. ASSUME NEW x \in DOMAIN m.seg, NEW y \in DOMAIN m.seg, x < y
        PROVE  End(m.seg, x) <= y
    <3>1. CASE x = a
      <4>1. y \in DOMAIN l.seg => End(l.seg, a) <= y
        BY <2>1, <3>1 DEF Sound, Apart
      <4>2. End(l.seg, a) \in Nat
        BY <1>1 DEF Header0, End, Header
      <4> QED BY <1>1, <1>3, <1>8, <3>1, <4>1, <4>2 DEF Header
    <3>2. CASE x = new
      <4>1. y \in DOMAIN l.seg /\ a < y
        BY <1>1, <1>3, <2>1, <3>2
      <4> QED BY <1>8, <3>2, <4>1 DEF Sound, Apart
    <3>3. CASE x # a /\ x # new
      <4>1. x \in DOMAIN l.seg \ {a} /\ End(m.seg, x) = End(l.seg, x)
        BY <1>3, <1>6, <3>3 DEF End
      <4>2. CASE y = new
        <5>1. x < a \/ a < x
          BY <1>1, <4>1
        <5>2. a < x => End(l.seg, a) <= x
          BY <4>1 DEF Sound, Apart
        <5>3. x < a => End(l.seg, x) <= a
          BY <4>1 DEF Sound, Apart
        <5>4. l.seg[x].size \in Nat /\ l.seg[a].size \in Nat /\ x \in Nat
          BY <1>1, <4>1 DEF Header0
        <5> QED BY <1>1, <2>1, <4>1, <4>2, <5>1, <5>2, <5>3, <5>4 DEF End, Header
      <4>3. CASE y # new
        BY <1>3, <2>1, <4>1, <4>3 DEF Sound, Apart
      <4> QED BY <4>2, <4>3
    <3> QED BY <3>1, <3>2, <3>3
  <2>2. ASSUME NEW x \in DOMAIN m.seg
        PROVE  x <= m.last
    <3>1. \A y \in DOMAIN l.seg : y <= l.last
      BY DEF Sound, Apart
    <3>2. CASE l.last = a
      BY <1>1, <1>3, <3>1, <3>2
    <3>3. CASE l.last # a
      <4>1. l.last \in DOMAIN l.seg /\ a < l.last
        BY <1>1, <3>1, <3>3 DEF Sound, IsList
      <4>2. End(l.seg, a) <= l.last /\ End(l.seg, a) \in Nat
        BY <1>1, <4>1 DEF Sound, Apart, End, Header, Header0
      <4> QED BY <1>1, <1>3, <3>1, <3>3, <4>1, <4>2 DEF Header
    <3> QED BY <3>2, <3>3
  <2> QED BY <2>1, <2>2 DEF Apart
<1>11. Backward(m)
  <2>1. ASSUME NEW x \in DOMAIN m.seg
        PROVE  IF m.seg[x].prev = NULL THEN x = heap_first
               ELSE /\ m.seg[x].prev \in DOMAIN m.seg
                    /\ m.seg[m.seg[x].prev].next = x
    <3>1. CASE x = new
      BY <1>1, <1>3, <1>5, <3>1 DEF NULL
    <3>2. CASE x = a
      <4>1. m.seg[a].prev = l.seg[a].prev /\ l.seg[a].prev # a
        BY <1>1, <1>5 DEF Sound, Forward, Backward, End, Header, Header0, NULL
      <4> QED BY <1>3, <1>6, <3>2, <4>1 DEF Sound, Backward
    <3>3. CASE x # new /\ x # a
      <4>1. x \in DOMAIN l.seg \ {a}
        BY <1>3, <3>3
      <4>2. CASE x = n
        <5>1. m.seg[x].prev = new /\ new # NULL
          BY <1>1, <1>6, <4>1, <4>2 DEF NULL
        <5>2. new \in DOMAIN m.seg /\ m.seg[new].next = x
          BY <1>3, <4>2
        <5> QED BY <5>1, <5>2
      <4>3. CASE x # n
        <5>1. m.seg[x].prev = l.seg[x].prev /\ l.seg[x].prev # a
          BY <1>1, <1>6, <4>1, <4>3 DEF Sound, Backward, NULL
        <5> QED BY <1>3, <1>6, <4>1, <5>1 DEF Sound, Backward
      <4> QED BY <4>2, <4>3
    <3> QED BY <3>1, <3>2, <3>3
  <2> QED BY <2>1 DEF Backward
<1> QED BY <1>2, <1>3, <1>5, <1>6, <1>7, <1>9, <1>10, <1>11 DEF Sound

\* List m is l with a free segment of size units at new behind its last one.
Appended(l, m, new, size) ==
  /\ new \in Nat \ DOMAIN l.seg /\ DOMAIN m.seg = DOMAIN l.seg \cup {new}
  /\ m.last = new /\ m.seg[new].size = size /\ ~m.seg[new].used /\ m.seg[new].next = NULL
  /\ \A x \in DOMAIN l.seg :
       /\ m.seg[x].size = l.seg[x].size /\ m.seg[x].used = l.seg[x].used
       /\ m.seg[x].next = IF x = l.last THEN new ELSE l.seg[x].next

\* AppendSegment puts a free segment at the old end of the region.
LEMMA AppendSegmentSound ==
  ASSUME NEW l, NEW top, Sound(l, top), NEW size \in Nat,
         NEW m, m = AppendSegment(l, size)
  PROVE  Sound(m, top + Header + size) /\ Appended(l, m, top, size)
<1>1. /\ \A x \in DOMAIN l.seg : l.seg[x] \in Header0 /\ x \in Nat
      /\ l.last \in DOMAIN l.seg /\ l.seg[l.last].next = NULL
      /\ top = End(l.seg, l.last)
  BY DEF Sound, IsList, Forward
<1>2. top \in Nat /\ \A x \in DOMAIN l.seg : End(l.seg, x) <= top /\ x < top
  <2>1. \A x \in DOMAIN l.seg : l.seg[x].size \in Nat
    BY <1>1 DEF Header0
  <2>2. \A x \in DOMAIN l.seg : x < l.last => End(l.seg, x) <= l.last
    BY <1>1 DEF Sound, Apart
  <2>3. \A x \in DOMAIN l.seg : x <= l.last
    BY DEF Sound, Apart
  <2> QED BY <1>1, <2>1, <2>2, <2>3 DEF End, Header
<1>3. /\ top \notin DOMAIN l.seg
      /\ DOMAIN m.seg = DOMAIN l.seg \cup {top}
      /\ m = [seg |-> m.seg, last |-> top]
      /\ m.seg = [x \in DOMAIN m.seg |-> m.seg[x]]
      /\ m.seg[top] = [size |-> size, prev |-> l.last, next |-> NULL, used |-> FALSE]
      /\ \A x \in DOMAIN l.seg : m.seg[x] =
           IF x = l.last THEN [l.seg[x] EXCEPT !.next = top] ELSE l.seg[x]
  BY <1>1, <1>2 DEF AppendSegment
<1>4. ASSUME NEW x \in DOMAIN l.seg
      PROVE  /\ m.seg[x].size = l.seg[x].size /\ m.seg[x].used = l.seg[x].used
             /\ m.seg[x].next = IF x = l.last THEN top ELSE l.seg[x].next
             /\ m.seg[x].prev = l.seg[x].prev
             /\ m.seg[x] \in Header0
  <2>1. CASE x = l.last
    <3>1. m.seg[x] = [l.seg[x] EXCEPT !.next = top] /\ l.seg[x] \in Header0
      BY <1>1, <1>3, <2>1
    <3>2. m.seg[x] = [size |-> l.seg[x].size, prev |-> l.seg[x].prev, next |-> top,
                      used |-> l.seg[x].used]
      BY <3>1 DEF Header0
    <3> QED BY <1>2, <2>1, <3>1, <3>2 DEF Header0
  <2>2. CASE x # l.last
    BY <1>1, <1>3, <2>2
  <2> QED BY <2>1, <2>2
<1>5. IsList(m)
  <2>1. m.seg[top] \in Header0
    BY <1>1, <1>3 DEF Header0
  <2> QED BY <1>2, <1>3, <1>4, <2>1 DEF Sound, IsList
<1>6. Forward(m, top + Header + size)
  <2>1. m.seg[top].next = NULL /\ End(m.seg, top) = top + Header + size /\ m.last = top
    BY <1>3 DEF End
  <2>2. ASSUME NEW x \in DOMAIN l.seg
        PROVE  x # top /\ m.seg[x].next = End(m.seg, x) /\ m.seg[x].next \in DOMAIN m.seg
    <3>1. End(m.seg, x) = End(l.seg, x)
      BY <1>4 DEF End
    <3>2. IF x = l.last THEN End(l.seg, x) = top
          ELSE l.seg[x].next = End(l.seg, x) /\ l.seg[x].next \in DOMAIN l.seg
      BY DEF Sound, Forward
    <3> QED BY <1>3, <1>4, <3>1, <3>2
  <2> QED BY <1>3, <2>1, <2>2 DEF Forward
<1>7. Apart(m)
  <2>1. \A x \in DOMAIN l.seg : End(m.seg, x) = End(l.seg, x)
    BY <1>4 DEF End
  <2>2. ASSUME NEW x \in DOMAIN m.seg, NEW y \in DOMAIN m.seg, x < y
        PROVE  End(m.seg, x) <= y
    <3>1. x \in DOMAIN l.seg
      BY <1>1, <1>2, <1>3, <2>2
    <3> QED BY <1>2, <1>3, <2>1, <2>2, <3>1 DEF Sound, Apart
  <2>3. \A x \in DOMAIN m.seg : x <= top
    BY <1>1, <1>2, <1>3
  <2> QED BY <1>3, <2>2, <2>3 DEF Apart
<1>8. Backward(m)
  <2>1. ASSUME NEW x \in DOMAIN l.seg, l.seg[x].prev # NULL
        PROVE  l.seg[x].prev # l.last
    BY <1>1, <2>1 DEF Sound, IsList, Backward, NULL
  <2> QED BY <1>1, <1>2, <1>3, <1>4, <2>1 DEF Sound, Backward, NULL
<1> QED BY <1>2, <1>3, <1>4, <1>5, <1>6, <1>7, <1>8 DEF Sound, Appended

-----------------------------------------------------------------------------
(***************************************************************************)
(* The invariant of the list, and each action.                             *)
(***************************************************************************)
HeapInv == /\ heap_top \in Nat /\ Sound(List, heap_top)
           /\ \A a \in DOMAIN seg : Joined(List, a)
           /\ HeldIntact
           /\ pending \in [Cpus -> Sizes \cup {0}]
           /\ \A a \in DOMAIN held : held[a] \in Sizes
           /\ stuck \in BOOLEAN

\* expand_heap adds whole pages, enough for the request and a header.
LEMMA PagesEnough ==
  ASSUME NEW size \in Nat, size > 0
  PROVE  /\ PagesFor(size) \in Nat /\ PagesFor(size) > 0
         /\ PagesFor(size) * PageUnits \in Nat
         /\ PagesFor(size) * PageUnits >= size + Header
<1> DEFINE x == size + Header
<1>1. x \in Nat /\ x > 0 /\ PageUnits \in Nat /\ PageUnits > 0
  BY PagesAssumption DEF Header
<1>2. PagesFor(size) = (x + PageUnits - 1) \div PageUnits
  BY DEF PagesFor
<1> HIDE DEF x
<1>3. /\ (x + PageUnits - 1) \div PageUnits \in Nat
      /\ PageUnits * ((x + PageUnits - 1) \div PageUnits) >= x
      /\ (x + PageUnits - 1) \div PageUnits > 0
  BY <1>1
<1>4. PagesFor(size) * PageUnits = PageUnits * PagesFor(size) /\ PagesFor(size) * PageUnits \in Nat
  BY <1>1, <1>2, <1>3
<1> QED BY <1>2, <1>3, <1>4 DEF x

\* heap_init makes one free segment of all pages.
LEMMA InitHeapInv == Init => HeapInv
<1> SUFFICES ASSUME Init PROVE HeapInv
  OBVIOUS
<1> DEFINE size == InitialPages * PageUnits - Header
<1>1. InitialPages * PageUnits \in Nat /\ size \in Nat
  <2>1. InitialPages * PageUnits >= PageUnits
    BY PagesAssumption
  <2> QED BY <2>1, PagesAssumption DEF Header
<1>2. /\ List = [seg |-> seg, last |-> 0] /\ List.seg = seg /\ List.last = 0
      /\ DOMAIN seg = {0}
      /\ seg = [x \in DOMAIN seg |-> seg[x]]
      /\ seg[0] = [size |-> size, prev |-> NULL, next |-> NULL, used |-> FALSE]
  BY DEF Init, List, heap_first
<1> HIDE DEF size
<1>3. seg[0] \in Header0
  BY <1>1, <1>2 DEF Header0
<1>4. End(seg, 0) = heap_top
  BY <1>1, <1>2 DEF Init, End, Header, size
<1>5. Sound(List, heap_top)
  <2>1. IsList(List)
    <3>1. List = [seg |-> List.seg, last |-> List.last]
      BY <1>2
    <3>2. List.seg = [x \in DOMAIN List.seg |-> List.seg[x]] /\ DOMAIN List.seg = {0}
      BY <1>2
    <3>3. \A a \in DOMAIN List.seg : List.seg[a] \in Header0
      BY <1>2, <1>3
    <3>4. DOMAIN List.seg \subseteq Nat /\ heap_first \in DOMAIN List.seg
          /\ List.last \in DOMAIN List.seg
      BY <1>2 DEF heap_first
    <3> QED BY <3>1, <3>2, <3>3, <3>4, Zenon DEF IsList
  <2>2. Forward(List, heap_top) /\ Backward(List) /\ Apart(List)
    BY <1>2, <1>4 DEF Forward, Backward, Apart, heap_first
  <2> QED BY <2>1, <2>2 DEF Sound
<1>6. \A a \in DOMAIN seg : Joined(List, a)
  BY <1>2 DEF Joined
<1>7. HeldIntact
  BY <1>2 DEF Init, HeldIntact
<1>8. stuck \in BOOLEAN
  BY Zenon DEF Init
<1> QED BY <1>1, <1>5, <1>6, <1>7, <1>8 DEF Init, HeapInv

\* A pass of kmalloc that finds a segment.
LEMMA TakeHeapInv ==
  ASSUME HeapInv, NEW c \in Cpus, Take(c)
  PROVE  HeapInv'
<1>1. PICK a \in DOMAIN seg :
        /\ FirstFit(a, pending[c])
        /\ LET l == IF WorthSplitting(a, pending[c]) THEN Split(List, a, pending[c]) ELSE List
           IN  UpdateList(SetUsed(l, a))
        /\ held' = [x \in DOMAIN held \cup {a} |-> IF x = a THEN pending[c] ELSE held[x]]
  BY DEF Take
<1> DEFINE size == pending[c]
           l == IF WorthSplitting(a, size) THEN Split(List, a, size) ELSE List
           m == SetUsed(l, a)
           new == a + Header + size
<1>2. /\ size \in Sizes /\ size \in Nat /\ size > 0
      /\ ~seg[a].used /\ seg[a].size >= size
      /\ heap_top' = heap_top /\ stuck' = stuck
      /\ pending' = [pending EXCEPT ![c] = 0]
  <2>1. size \in Sizes \cup {0} /\ size # 0
    BY DEF Take, HeapInv
  <2>2. size \in Sizes /\ size \in Nat \ {0}
    BY <2>1, SizesAssumption
  <2>3. size \in Nat /\ size > 0
    BY <2>2
  <2> QED BY <1>1, <2>2, <2>3 DEF Take, FirstFit, Fits
<1>3. List.seg = seg /\ List.last = heap_last /\ Sound(List, heap_top)
  BY DEF List, HeapInv
<1>4. \A x \in DOMAIN seg : seg[x] \in Header0 /\ x \in Nat
  BY <1>3 DEF Sound, IsList
<1>5. /\ Sound(l, heap_top) /\ a \in DOMAIN l.seg
      /\ \A x \in DOMAIN seg : x \in DOMAIN l.seg /\ l.seg[x].used = seg[x].used
      /\ \A x \in DOMAIN seg : x # a => l.seg[x].size = seg[x].size
      /\ l.seg[a].size >= size
      /\ \A x \in DOMAIN l.seg \ DOMAIN seg : ~l.seg[x].used
      /\ \A x \in DOMAIN l.seg : x # a => Joined(l, x)
  <2>1. CASE WorthSplitting(a, size)
    <3>1. size + Header <= seg[a].size
      BY <1>2, <1>4, <2>1 DEF WorthSplitting, Header, Header0
    <3>2. l = Split(List, a, size)
      BY <2>1
    <3> HIDE DEF l
    <3>3. /\ Sound(l, heap_top)
          /\ new \notin DOMAIN seg /\ DOMAIN l.seg = DOMAIN seg \cup {new}
          /\ l.seg[a].size = size /\ l.seg[a].next = new /\ l.seg[a].used = seg[a].used
          /\ l.seg[new].next = seg[a].next /\ l.seg[new].used = seg[a].used
          /\ \A x \in DOMAIN seg \ {a} :
               /\ l.seg[x].size = seg[x].size /\ l.seg[x].next = seg[x].next
               /\ l.seg[x].used = seg[x].used
      BY <1>2, <1>3, <3>1, <3>2, SplitSound
    <3>4. ASSUME NEW x \in DOMAIN l.seg, x # a
          PROVE  Joined(l, x)
      <4> DEFINE y == IF x = new THEN a ELSE x
      <4>1. l.seg[x].next = seg[y].next /\ l.seg[x].used = seg[y].used /\ y \in DOMAIN seg
        BY <3>3, <3>4
      <4>2. Joined(List, y)
        BY <4>1 DEF HeapInv
      <4>3. seg[y].next # NULL => seg[y].next \in DOMAIN seg
        BY <1>3, <4>1 DEF Sound, Forward
      <4> QED BY <1>3, <3>3, <4>1, <4>2, <4>3 DEF Joined
    <3> QED BY <1>2, <3>3, <3>4
  <2>2. CASE ~WorthSplitting(a, size)
    BY <1>2, <1>3, <2>2 DEF HeapInv
  <2> QED BY <2>1, <2>2
<1>5a. m = SetUsed(l, a)
  OBVIOUS
<1> HIDE DEF l, m
<1>6. /\ Sound(m, heap_top)
      /\ DOMAIN m.seg = DOMAIN l.seg /\ m.last = l.last
      /\ \A x \in DOMAIN m.seg :
           /\ m.seg[x].size = l.seg[x].size /\ m.seg[x].next = l.seg[x].next
           /\ m.seg[x].prev = l.seg[x].prev
           /\ x # a => m.seg[x].used = l.seg[x].used
      /\ m.seg[a].used
  BY <1>5, <1>5a, SetUsedSound, SetUsedFlag
<1>7. seg' = m.seg /\ heap_last' = m.last
  BY <1>1 DEF UpdateList, l, m
<1>8. List' = m
  BY <1>6, <1>7 DEF List, Sound, IsList
<1>9. \A x \in DOMAIN seg' : Joined(List', x)
  <2>1. ASSUME NEW x \in DOMAIN m.seg
        PROVE  Joined(m, x)
    <3>1. x \in DOMAIN l.seg /\ (x # a => Joined(l, x))
      BY <1>5, <1>6
    <3>2. l.seg[x].next # NULL => l.seg[x].next \in DOMAIN l.seg
      BY <1>5, <3>1 DEF Sound, Forward
    <3> QED BY <1>6, <3>1, <3>2 DEF Joined
  <2> QED BY <1>7, <1>8, <2>1
<1>10. HeldIntact'
  <2>1. DOMAIN held' = DOMAIN held \cup {a}
    BY <1>1
  <2>2. {x \in DOMAIN seg' : seg'[x].used} = {x \in DOMAIN seg : seg[x].used} \cup {a}
    BY <1>5, <1>6, <1>7
  <2>3. ASSUME NEW x \in DOMAIN held'
        PROVE  seg'[x].size >= held'[x]
    BY <1>1, <1>5, <1>6, <1>7 DEF HeapInv, HeldIntact
  <2> QED BY <2>1, <2>2, <2>3 DEF HeapInv, HeldIntact
<1>11. /\ pending' \in [Cpus -> Sizes \cup {0}]
       /\ \A x \in DOMAIN held' : held'[x] \in Sizes
  BY <1>1, <1>2 DEF HeapInv
<1> QED BY <1>2, <1>6, <1>8, <1>9, <1>10, <1>11 DEF HeapInv

\* A pass of kmalloc that finds none: the list grows by a free segment that is
\* large enough, alone or joined with the segment that was the last.
LEMMA ExpandHeapInv ==
  ASSUME HeapInv, NEW c \in Cpus, Expand(c)
  PROVE  /\ HeapInv'
         /\ ~stuck' => \E a \in DOMAIN seg' : ~seg'[a].used /\ seg'[a].size >= pending[c]
<1> DEFINE size == pending[c]
           grown == PagesFor(size) * PageUnits
           rest == grown - Header
           l == AppendSegment(List, rest)
           m == CombineBackward(l, l.last)
<1>1. size \in Nat /\ size > 0 /\ pending' = pending /\ held' = held
  <2>1. size \in Sizes \cup {0} /\ size # 0
    BY DEF Expand, HeapInv
  <2>2. size \in Nat \ {0}
    BY <2>1, SizesAssumption
  <2> QED BY <2>2 DEF Expand
<1>2. CASE stuck'
  <2>1. UNCHANGED <<seg, heap_last, heap_top>> /\ stuck' = TRUE
    BY <1>2 DEF Expand, HeapInv
  <2> QED BY <1>1, <1>2, <2>1 DEF HeapInv, List, HeldIntact
<1>3. CASE ~stuck'
  <2>1. heap_top' = heap_top + grown /\ seg' = m.seg /\ heap_last' = m.last /\ stuck' = stuck
    BY <1>3 DEF Expand, UpdateList
  <2>2. grown \in Nat /\ grown >= size + Header
    BY <1>1, PagesEnough
  <2>3. List.seg = seg /\ List.last = heap_last /\ Sound(List, heap_top) /\ heap_top \in Nat
    BY DEF List, HeapInv
  <2>4. l = AppendSegment(List, rest) /\ rest \in Nat
        /\ m = CombineBackward(l, l.last)
    BY <1>1, <2>2, PagesAssumption DEF Header
  <2>4a. rest = grown - Header
    OBVIOUS
  <2> HIDE DEF l, m, grown, rest
  <2>5. /\ Sound(l, heap_top + Header + rest)
        /\ heap_top \notin DOMAIN seg /\ DOMAIN l.seg = DOMAIN seg \cup {heap_top}
        /\ l.last = heap_top /\ l.seg[heap_top].size = rest
        /\ ~l.seg[heap_top].used /\ l.seg[heap_top].next = NULL
        /\ \A x \in DOMAIN seg :
             /\ l.seg[x].size = seg[x].size /\ l.seg[x].used = seg[x].used
             /\ l.seg[x].next = IF x = heap_last THEN heap_top ELSE seg[x].next
    <3>1. Sound(l, heap_top + Header + rest) /\ Appended(List, l, heap_top, rest)
      BY <2>3, <2>4, AppendSegmentSound
    <3> QED BY <2>3, <3>1 DEF Appended
  <2>6. heap_top' = heap_top + Header + rest /\ heap_top' \in Nat
    BY <2>1, <2>2, <2>3, <2>4a DEF Header
  <2>7. ASSUME NEW x \in DOMAIN l.seg, l.seg[x].next # heap_top
        PROVE  Joined(l, x)
    <3>1. CASE x = heap_top
      BY <2>5, <3>1 DEF Joined
    <3>2. CASE x # heap_top
      <4>1. x \in DOMAIN seg /\ x # heap_last /\ Joined(List, x)
        BY <2>5, <2>7, <3>2 DEF HeapInv
      <4>2. seg[x].next \in DOMAIN seg
        BY <2>3, <4>1 DEF Sound, Forward
      <4> QED BY <2>3, <2>5, <4>1, <4>2 DEF Joined
    <3> QED BY <3>1, <3>2
  <2>8. /\ Sound(m, heap_top')
        /\ \A x \in DOMAIN m.seg : Joined(m, x)
        /\ Keeps(l, m)
        /\ \E b \in DOMAIN m.seg : ~m.seg[b].used /\ m.seg[b].size >= rest
    <3>1. heap_top \in DOMAIN l.seg /\ Sound(l, heap_top')
      BY <2>5, <2>6
    <3> QED BY <2>4, <2>5, <2>7, <3>1, CombineBackwardSound
  <2>9. List' = m
    BY <2>1, <2>8 DEF List, Sound, IsList
  <2>10. HeldIntact'
    <3>1. ASSUME NEW x \in DOMAIN m.seg, m.seg[x].used
          PROVE  x \in DOMAIN seg /\ seg[x].used /\ m.seg[x].size = seg[x].size
      <4>1. x \in DOMAIN l.seg /\ l.seg[x].used /\ m.seg[x].size = l.seg[x].size
        BY <2>8, <3>1 DEF Keeps
      <4>2. x \in DOMAIN seg
        BY <2>5, <4>1
      <4> QED BY <2>5, <4>1, <4>2
    <3>2. ASSUME NEW x \in DOMAIN seg, seg[x].used
          PROVE  x \in DOMAIN m.seg /\ m.seg[x].used
      <4>1. x \in DOMAIN l.seg /\ l.seg[x].used
        BY <2>5, <3>2
      <4> QED BY <2>8, <4>1 DEF Keeps
    <3>3. {x \in DOMAIN m.seg : m.seg[x].used} = {x \in DOMAIN seg : seg[x].used}
      BY <3>1, <3>2
    <3> QED BY <1>1, <2>1, <3>1, <3>2, <3>3 DEF HeapInv, HeldIntact
  <2>11. \E b \in DOMAIN seg' : ~seg'[b].used /\ seg'[b].size >= size
    <3>1. PICK b \in DOMAIN m.seg : ~m.seg[b].used /\ m.seg[b].size >= rest
      BY <2>8
    <3>2. m.seg[b].size \in Nat
      BY <2>8 DEF Sound, IsList, Header0
    <3> QED BY <1>1, <2>1, <2>2, <2>4, <2>4a, <3>1, <3>2 DEF Header
  <2> QED BY <1>1, <2>1, <2>6, <2>8, <2>9, <2>10, <2>11 DEF HeapInv
<1> QED BY <1>2, <1>3

\* kfree joins the block with its free neighbours.
LEMMA KfreeHeapInv ==
  ASSUME HeapInv, NEW c \in Cpus, NEW a \in Address, Kfree(c, a)
  PROVE  HeapInv'
<1> DEFINE l == SetFree(List, a)
           f == CombineForward(l, a)
           m == CombineBackward(f, a)
<1>1. /\ a \in DOMAIN held /\ seg' = m.seg /\ heap_last' = m.last
      /\ held' = Restrict(held, DOMAIN held \ {a})
      /\ heap_top' = heap_top /\ pending' = pending /\ stuck' = stuck
  BY DEF Kfree, UpdateList
<1>2. l = SetFree(List, a) /\ f = CombineForward(l, a) /\ m = CombineBackward(f, a)
  OBVIOUS
<1> HIDE DEF l, f, m
<1>3. List.seg = seg /\ List.last = heap_last /\ Sound(List, heap_top)
      /\ a \in DOMAIN seg /\ \A x \in DOMAIN seg : seg[x] \in Header0 /\ x \in Nat
  BY <1>1 DEF List, HeapInv, HeldIntact, Sound, IsList
<1>4. /\ Sound(l, heap_top) /\ DOMAIN l.seg = DOMAIN seg /\ l.last = heap_last
      /\ \A x \in DOMAIN seg : /\ l.seg[x].size = seg[x].size /\ l.seg[x].next = seg[x].next
                               /\ x # a => l.seg[x].used = seg[x].used
      /\ ~l.seg[a].used
  BY <1>2, <1>3, SetUsedSound, SetUsedFlag
<1>5. ASSUME NEW x \in DOMAIN l.seg, x # a, l.seg[x].next # a
      PROVE  Joined(l, x)
  <2>1. seg[x].next # NULL => seg[x].next \in DOMAIN seg
    BY <1>3, <1>4, <1>5 DEF Sound, Forward
  <2>2. Joined(List, x)
    BY <1>4, <1>5 DEF HeapInv
  <2> QED BY <1>3, <1>4, <1>5, <2>1, <2>2 DEF Joined
<1>6. ASSUME NEW x \in DOMAIN l.seg, x > a
      PROVE  Joined(l, x)
  <2>1. l.seg[x].next # a
    BY <1>3, <1>4, <1>6 DEF Sound, Forward, End, Header, Header0, NULL
  <2> QED BY <1>3, <1>4, <1>5, <1>6, <2>1
<1>7. /\ Sound(f, heap_top) /\ a \in DOMAIN f.seg /\ ~f.seg[a].used /\ Joined(f, a)
      /\ \A x \in DOMAIN f.seg :
           x # a => /\ x \in DOMAIN l.seg /\ f.seg[x].next = l.seg[x].next
                    /\ Joined(l, x) => Joined(f, x)
      /\ Keeps(l, f)
  BY <1>2, <1>3, <1>4, <1>6, CombineForwardSound
<1>8. \A x \in DOMAIN f.seg : f.seg[x].next # a => Joined(f, x)
  BY <1>5, <1>7
<1>9. /\ Sound(m, heap_top)
      /\ \A x \in DOMAIN m.seg : Joined(m, x)
      /\ Keeps(f, m)
  BY <1>2, <1>7, <1>8, CombineBackwardSound
<1>10. List' = m
  BY <1>1, <1>9 DEF List, Sound, IsList
<1>11. HeldIntact'
  <2>1. ASSUME NEW x \in DOMAIN m.seg, m.seg[x].used
        PROVE  x \in DOMAIN seg /\ x # a /\ seg[x].used /\ m.seg[x].size = seg[x].size
    <3>1. x \in DOMAIN f.seg /\ f.seg[x].used /\ m.seg[x].size = f.seg[x].size
      BY <1>9, <2>1 DEF Keeps
    <3>2. x \in DOMAIN l.seg /\ l.seg[x].used /\ f.seg[x].size = l.seg[x].size
      BY <1>7, <3>1 DEF Keeps
    <3> QED BY <1>4, <3>1, <3>2
  <2>2. ASSUME NEW x \in DOMAIN seg, x # a, seg[x].used
        PROVE  x \in DOMAIN m.seg /\ m.seg[x].used
    <3>1. x \in DOMAIN l.seg /\ l.seg[x].used
      BY <1>4, <2>2
    <3>2. x \in DOMAIN f.seg /\ f.seg[x].used
      BY <1>7, <3>1 DEF Keeps
    <3> QED BY <1>9, <3>2 DEF Keeps
  <2>4. {x \in DOMAIN m.seg : m.seg[x].used} = {x \in DOMAIN seg : seg[x].used} \ {a}
    BY <2>1, <2>2
  <2>3. DOMAIN held' = DOMAIN held \ {a} /\ \A x \in DOMAIN held' : held'[x] = held[x]
    BY <1>1 DEF Restrict
  <2> QED BY <1>1, <2>1, <2>2, <2>3, <2>4 DEF HeapInv, HeldIntact
<1>12. \A x \in DOMAIN held' : held'[x] \in Sizes
  BY <1>1 DEF Restrict, HeapInv
<1> QED BY <1>1, <1>9, <1>10, <1>11, <1>12 DEF HeapInv

\* The beginning of a call of kmalloc.
LEMMA KmallocHeapInv ==
  ASSUME HeapInv, NEW c \in Cpus, NEW size \in Sizes, Kmalloc(c, size)
  PROVE  HeapInv'
BY DEF HeapInv, Kmalloc, List, HeldIntact

\* The list is sound, no neighbours are free, and the blocks in use are those
\* that callers hold, whichever CPU calls kmalloc or kfree.
THEOREM HeapInvariant == Spec => []HeapInv
<1>1. Init => HeapInv
  BY InitHeapInv
<1>2. HeapInv /\ [Next]_vars => HeapInv'
  <2> SUFFICES ASSUME HeapInv, [Next]_vars PROVE HeapInv'
    OBVIOUS
  <2>1. ASSUME NEW c \in Cpus, NEW size \in Sizes, Kmalloc(c, size) PROVE HeapInv'
    BY <2>1, KmallocHeapInv
  <2>2. ASSUME NEW c \in Cpus, Take(c) PROVE HeapInv'
    BY <2>2, TakeHeapInv
  <2>3. ASSUME NEW c \in Cpus, Expand(c) PROVE HeapInv'
    BY <2>3, ExpandHeapInv
  <2>4. ASSUME NEW c \in Cpus, NEW a \in Address, Kfree(c, a) PROVE HeapInv'
    BY <2>4, KfreeHeapInv
  <2>5. CASE UNCHANGED vars
    BY <2>5 DEF vars, HeapInv, List, HeldIntact
  <2> QED BY <2>1, <2>2, <2>3, <2>4, <2>5 DEF Next
<1> QED BY <1>1, <1>2, PTL DEF Spec

\* The segments tile the region.
THEOREM TilingHolds == Spec => []Tiling
<1>1. HeapInv => Tiling
  <2> SUFFICES ASSUME HeapInv PROVE Tiling
    OBVIOUS
  <2>1. List.seg = seg /\ List.last = heap_last /\ Sound(List, heap_top)
    BY DEF List, HeapInv
  <2>2. ASSUME NEW a \in DOMAIN seg, a # heap_first
        PROVE  \E b \in DOMAIN seg : seg[b].next = a
    BY <2>1, <2>2 DEF Sound, Backward
  <2> QED BY <2>1, <2>2 DEF Tiling, Sound, IsList, Forward
<1> QED BY <1>1, HeapInvariant, PTL

\* The list can be walked backwards.
THEOREM LinkedHolds == Spec => []Linked
<1>1. HeapInv => Linked
  BY DEF HeapInv, List, Sound, Backward, Linked
<1> QED BY <1>1, HeapInvariant, PTL

\* No two neighbours are free.
THEOREM CoalescedHolds == Spec => []Coalesced
<1>1. HeapInv => Coalesced
  <2> SUFFICES ASSUME HeapInv, NEW a \in DOMAIN seg, NEW b \in DOMAIN seg, seg[a].next = b
               PROVE  seg[a].used \/ seg[b].used
    BY DEF Coalesced
  <2>1. b # NULL
    BY DEF HeapInv, List, Sound, IsList, NULL
  <2> QED BY <2>1 DEF HeapInv, Joined, List
<1> QED BY <1>1, HeapInvariant, PTL

\* No call takes a block from under its holder, and none is lost.
THEOREM HeldIntactHolds == Spec => []HeldIntact
<1>1. HeapInv => HeldIntact
  BY DEF HeapInv
<1> QED BY <1>1, HeapInvariant, PTL

\* After an expansion a segment fits the request.
THEOREM ExpansionSufficesHolds == Spec => ExpansionSuffices
<1>1. HeapInv /\ [Next]_vars =>
        [\A c \in Cpus : Expand(c) /\ ~stuck' =>
           \E a \in DOMAIN seg' : ~seg'[a].used /\ seg'[a].size >= pending[c]]_vars
  BY ExpandHeapInv
<1> QED BY <1>1, HeapInvariant, PTL DEF Spec, ExpansionSuffices

-----------------------------------------------------------------------------
(***************************************************************************)
(* The pages of the heap.                                                  *)
(***************************************************************************)

\* The first k pages of the heap.
HeapPages(k) == HeapBase .. HeapBase + k - 1

\* The heap's first k pages are k pages.
LEMMA HeapPagesSize ==
  ASSUME NEW k \in Nat
  PROVE  IsFiniteSet(HeapPages(k)) /\ Cardinality(HeapPages(k)) = k
<1>1. HeapBase \in Int /\ HeapBase + k - 1 \in Int
  BY PagesAssumption
<1> QED BY <1>1, FS_Interval, PagesAssumption DEF HeapPages

\* While the heap is no larger than the memory, there is space for its pages.
LEMMA HeapPageFits ==
  ASSUME NEW k \in 0 .. NumFrames - 1
  PROVE  /\ HeapBase + k \in Pages /\ Indices(HeapBase + k)[1] # FractalIndex
         /\ HeapBase + k \notin HeapPages(k)
         /\ HeapPages(k) \cup {HeapBase + k} = HeapPages(k + 1)
BY HeapSpaceAssumption, PagesAssumption DEF HeapPages, Pages

\* The loop of expand_heap is a sequence of pages mapped.
PageByPage(m, first, pages) ==
  \E g : /\ g[0] = m
         /\ \A k \in 1 .. pages : g[k] = MapNew(g[k - 1], first + k - 1)
         /\ MapPages(m, first, pages) = g[pages]

\* Pages are mapped one by one (map_pages).
LEMMA MapPagesSteps ==
  ASSUME NEW m \in Paging, NEW first \in Nat, NEW pages \in Nat
  PROVE  PageByPage(m, first, pages)
<1> DEFINE F == [p \in (1 .. pages) \X Paging |-> MapNew(p[2], first + p[1] - 1)]
           Recurs(f) == f = [n \in 0 .. pages |->
                               IF n = 0 THEN m ELSE MapNew(f[n - 1], first + n - 1)]
           mapped == CHOOSE f : Recurs(f)
<1>1. F \in [(1 .. pages) \X Paging -> Paging]
  BY MapNewType
<1>2. \A k \in 1 .. pages, q \in Paging : F[<<k, q>>] = MapNew(q, first + k - 1)
  OBVIOUS
<1> HIDE DEF F
<1>3. PICK g \in [0 .. pages -> Paging] : g[0] = m /\ \A k \in 1 .. pages : g[k] = F[<<k, g[k - 1]>>]
  <2>1. Iterates(pages, Paging, m, F)
    BY <1>1, Iteration
  <2> QED BY <2>1 DEF Iterates
<1>4. \A k \in 1 .. pages : g[k] = MapNew(g[k - 1], first + k - 1)
  <2>1. \A k \in 1 .. pages : g[k - 1] \in Paging
    BY <1>3
  <2> QED BY <1>2, <1>3, <2>1
<1>5. Recurs(g)
  <2>1. \A n \in 0 .. pages : g[n] = IF n = 0 THEN m ELSE MapNew(g[n - 1], first + n - 1)
    BY <1>3, <1>4
  <2> QED BY <1>3, <2>1
<1>6. Recurs(mapped)
  <2> HIDE DEF Recurs
  <2> QED BY <1>5
<1>7. MapPages(m, first, pages) = mapped[pages]
  BY DEF MapPages
<1> HIDE DEF mapped
<1>8. mapped[0] = m /\ \A k \in 1 .. pages : mapped[k] = MapNew(mapped[k - 1], first + k - 1)
  <2>1. \A n \in 0 .. pages : mapped[n] = IF n = 0 THEN m ELSE MapNew(mapped[n - 1], first + n - 1)
    BY <1>6
  <2> QED BY <2>1
<1> QED BY <1>7, <1>8 DEF PageByPage

\* When the requests of expand_heap return, the pages it asked for are
\* mapped behind those that were.
LEMMA MapPagesMaps ==
  ASSUME NEW m, NEW k \in Nat, Mapped(m, {}, HeapPages(k)), NEW pages \in Nat,
         ~MapPages(m, HeapBase + k, pages).out
  PROVE  Mapped(MapPages(m, HeapBase + k, pages), {}, HeapPages(k + pages))
<1>1. m \in Paging /\ HeapBase + k \in Nat
  BY PagesAssumption DEF Mapped, Tree, Levels
<1>2. PICK g : /\ g[0] = m
               /\ \A j \in 1 .. pages : g[j] = MapNew(g[j - 1], HeapBase + k + j - 1)
               /\ MapPages(m, HeapBase + k, pages) = g[pages]
  <2>1. PageByPage(m, HeapBase + k, pages)
    BY <1>1, MapPagesSteps
  <2> QED BY <2>1 DEF PageByPage
<1> DEFINE T == {j \in 0 .. pages :
                   g[j] \in Paging /\ (g[j].out \/ Mapped(g[j], {}, HeapPages(k + j)))}
<1>3. 0 \in T
  <2>1. HeapPages(k + 0) = HeapPages(k)
    OBVIOUS
  <2> QED BY <1>1, <1>2, <2>1
<1>4. ASSUME NEW j \in 0 .. pages - 1, j \in T
      PROVE  j + 1 \in T
  <2> DEFINE v == HeapBase + (k + j)
             q == g[j]
  <2>1. g[j + 1] = MapNew(q, v) /\ v \in Nat /\ q \in Paging /\ j + 1 \in 0 .. pages
        /\ (q.out \/ Mapped(q, {}, HeapPages(k + j)))
    <3>1. j + 1 \in 1 .. pages /\ HeapBase + k + (j + 1) - 1 = v /\ (j + 1) - 1 = j
      BY PagesAssumption
    <3>2. g[j + 1] = MapNew(g[(j + 1) - 1], HeapBase + k + (j + 1) - 1)
      BY <1>2, <3>1
    <3> QED BY <1>4, <3>1, <3>2, PagesAssumption
  <2> HIDE DEF q, v
  <2>2. MapNew(q, v) \in Paging /\ (q.out => MapNew(q, v).out)
    BY <2>1, MapNewType
  <2>3. ASSUME ~MapNew(q, v).out
        PROVE  Mapped(MapNew(q, v), {}, HeapPages(k + (j + 1)))
    <3>1. Mapped(q, {}, HeapPages(k + j))
      BY <2>1, <2>2, <2>3
    <3>2. IsFiniteSet(HeapPages(k + j)) /\ Cardinality(HeapPages(k + j)) = k + j
      BY HeapPagesSize
    <3>3. q.free # {} => k + j < NumFrames
      BY <3>1, <3>2, MappedFit
    <3>4. q.free # {} => /\ v \in Pages /\ Indices(v)[1] # FractalIndex
                        /\ HeapPages(k + j) \cup {v} = HeapPages(k + (j + 1))
      <4>1. q.free # {} => k + j \in 0 .. NumFrames - 1
        BY <3>3, VmmAssumption
      <4>2. k + j + 1 = k + (j + 1)
        OBVIOUS
      <4> QED BY <4>1, <4>2, HeapPageFits DEF v
    <3>5. v \notin HeapPages(k + j)
      BY PagesAssumption DEF HeapPages, v
    <3>6. q.free # {} /\ Mapped(MapNew(q, v), {}, HeapPages(k + j) \cup {v})
      BY <2>1, <2>3, <3>1, <3>4, <3>5, MapNewMaps
    <3> QED BY <3>4, <3>6
  <2> QED BY <2>1, <2>2, <2>3
<1> HIDE DEF T
<1>5. pages \in T
  <2>1. 0 .. pages \subseteq T
    BY <1>3, <1>4, InductionTo
  <2> QED BY <2>1
<1> QED BY <1>2, <1>5 DEF T

\* The loop of heap_init.
InitialPageByPage ==
  \E g : /\ g[0] = [VmmInit EXCEPT !.free = @ \ (1 .. InitialPages)]
         /\ \A k \in 1 .. InitialPages : g[k] = VmmMap(g[k - 1], HeapBase + k - 1, k)
         /\ InitialPaging = g[InitialPages]

\* The first pages of the heap are mapped one by one (initialize_heap).
LEMMA InitialSteps == InitialPageByPage
<1> DEFINE pages == InitialPages
           m == [VmmInit EXCEPT !.free = @ \ (1 .. pages)]
           F == [p \in (1 .. pages) \X Paging |-> VmmMap(p[2], HeapBase + p[1] - 1, p[1])]
           Recurs(f) == f = [n \in 0 .. pages |->
                               IF n = 0 THEN m ELSE VmmMap(f[n - 1], HeapBase + n - 1, n)]
           mapped == CHOOSE f : Recurs(f)
<1>1. m \in Paging /\ pages \in Nat
  <2>1. InitialPages \in 0 .. NumFrames
    BY PagesAssumption, VmmAssumption
  <2>2. Mapped([VmmInit EXCEPT !.free = @ \ (1 .. InitialPages)], 1 .. InitialPages, {})
    BY <2>1, InitMapped
  <2> QED BY <2>1, <2>2 DEF Mapped, Tree, Levels
<1>2. InitialPaging = mapped[pages]
  BY DEF InitialPaging
<1> HIDE DEF m, pages
<1>3. \A k \in 1 .. pages : k \in Frames /\ HeapBase + k - 1 \in Nat
  BY <1>1, PagesAssumption, VmmAssumption DEF Frames, pages
<1>4. F \in [(1 .. pages) \X Paging -> Paging]
  BY <1>3, VmmMapType
<1>5. \A k \in 1 .. pages, q \in Paging : F[<<k, q>>] = VmmMap(q, HeapBase + k - 1, k)
  OBVIOUS
<1> HIDE DEF F
<1>6. PICK g \in [0 .. pages -> Paging] : g[0] = m /\ \A k \in 1 .. pages : g[k] = F[<<k, g[k - 1]>>]
  <2>1. Iterates(pages, Paging, m, F)
    BY <1>1, <1>4, Iteration
  <2> QED BY <2>1 DEF Iterates
<1>7. \A k \in 1 .. pages : g[k] = VmmMap(g[k - 1], HeapBase + k - 1, k)
  <2>1. \A k \in 1 .. pages : g[k - 1] \in Paging
    BY <1>1, <1>6
  <2> QED BY <1>5, <1>6, <2>1
<1>8. Recurs(g)
  <2>1. \A n \in 0 .. pages : g[n] = IF n = 0 THEN m ELSE VmmMap(g[n - 1], HeapBase + n - 1, n)
    BY <1>1, <1>6, <1>7
  <2> QED BY <1>6, <2>1
<1>9. Recurs(mapped)
  <2> HIDE DEF Recurs
  <2> QED BY <1>8
<1> HIDE DEF mapped
<1>10. mapped[0] = m /\ \A k \in 1 .. pages : mapped[k] = VmmMap(mapped[k - 1], HeapBase + k - 1, k)
  <2>1. \A n \in 0 .. pages :
          mapped[n] = IF n = 0 THEN m ELSE VmmMap(mapped[n - 1], HeapBase + n - 1, n)
    BY <1>9
  <2> QED BY <1>1, <2>1
<1> QED BY <1>2, <1>10 DEF m, pages, InitialPageByPage

\* After that, the first pages of the heap are mapped, each to a frame of its own.
LEMMA InitialMaps ==
  ASSUME ~InitialPaging.out
  PROVE  Mapped(InitialPaging, {}, HeapPages(InitialPages))
<1>1. PICK g : /\ g[0] = [VmmInit EXCEPT !.free = @ \ (1 .. InitialPages)]
               /\ \A k \in 1 .. InitialPages : g[k] = VmmMap(g[k - 1], HeapBase + k - 1, k)
               /\ InitialPaging = g[InitialPages]
  BY InitialSteps DEF InitialPageByPage
<1> DEFINE left(j) == j + 1 .. InitialPages
           T == {j \in 0 .. InitialPages :
                   g[j] \in Paging /\ (g[j].out \/ Mapped(g[j], left(j), HeapPages(j)))}
<1>2. InitialPages \in Nat /\ InitialPages \in 0 .. NumFrames
  BY PagesAssumption, VmmAssumption
<1>3. 0 \in T
  <2>1. Mapped(g[0], 1 .. InitialPages, {})
    BY <1>1, <1>2, InitMapped
  <2>2. left(0) = 1 .. InitialPages /\ HeapPages(0) = {}
    BY PagesAssumption DEF HeapPages
  <2> HIDE DEF left
  <2>3. g[0] \in Paging
    BY <2>1 DEF Mapped, Tree, Levels
  <2> QED BY <1>2, <2>1, <2>2, <2>3
<1>4. ASSUME NEW j \in 0 .. InitialPages - 1, j \in T
      PROVE  j + 1 \in T
  <2> DEFINE v == HeapBase + j
             q == g[j]
             f == j + 1
             n == VmmMap(q, v, f)
  <2>1. g[f] = n /\ v \in Nat /\ f \in Frames /\ q \in Paging /\ f \in 0 .. InitialPages
        /\ (q.out \/ Mapped(q, left(j), HeapPages(j))) /\ j \in 0 .. NumFrames - 1
    <3>1. f \in 1 .. InitialPages /\ HeapBase + f - 1 = v /\ f - 1 = j
      BY <1>2, PagesAssumption
    <3>2. g[f] = VmmMap(g[f - 1], HeapBase + f - 1, f)
      BY <1>1, <3>1
    <3> QED BY <1>2, <1>4, <3>1, <3>2, PagesAssumption, VmmAssumption DEF Frames
  <2>2. f \in left(j) /\ left(j) \ {f} = left(f)
    BY <1>2
  <2> HIDE DEF q, v, left
  <2>3. n \in Paging /\ (q.out => n.out)
    BY <2>1, VmmMapType
  <2>4. ASSUME ~n.out
        PROVE  Mapped(n, left(f), HeapPages(f))
    <3>1. Mapped(q, left(j), HeapPages(j))
      BY <2>1, <2>3, <2>4
    <3>2. /\ v \in Pages /\ Indices(v)[1] # FractalIndex
          /\ v \notin HeapPages(j) /\ HeapPages(j) \cup {v} = HeapPages(f)
      BY <2>1, HeapPageFits DEF v
    <3>3. Mapped(n, left(j) \ {f}, HeapPages(j) \cup {v})
      BY <2>2, <2>4, <3>1, <3>2, VmmMapMaps
    <3> QED BY <2>2, <3>2, <3>3
  <2> QED BY <2>1, <2>3, <2>4
<1> HIDE DEF T
<1>5. InitialPages \in T
  <2>1. 0 .. InitialPages \subseteq T
    BY <1>2, <1>3, <1>4, InductionTo
  <2> QED BY <1>2, <2>1
<1>6. left(InitialPages) = {}
  BY <1>2
<1> QED BY <1>1, <1>5, <1>6 DEF T

\* The region of the heap is k pages, those are mapped, and nothing else is.
PagingInv == \E k \in Nat : heap_top = k * PageUnits /\ Mapped(paging, {}, HeapPages(k))

\* The page that the heap grows into is the one after its last.
LEMMA TopPageIs ==
  ASSUME NEW k \in Nat, heap_top = k * PageUnits
  PROVE  TopPage = HeapBase + k
<1>1. PageUnits \in Nat /\ PageUnits > 0
  BY PagesAssumption DEF Header
<1>2. (k * PageUnits) \div PageUnits = k
  BY <1>1
<1> QED BY <1>2 DEF TopPage

\* At first, exactly the first pages of the heap are mapped.
LEMMA InitPagingInv == Init => PagingInv
<1> SUFFICES ASSUME Init PROVE PagingInv
  OBVIOUS
<1>1. Mapped(paging, {}, HeapPages(InitialPages))
  BY InitialMaps DEF Init
<1> QED BY <1>1, PagesAssumption DEF Init, PagingInv

\* An expansion maps the pages by which it moves heap_top, if its requests return.
LEMMA ExpandPagingInv ==
  ASSUME HeapInv, PagingInv, NEW c \in Cpus, Expand(c)
  PROVE  PagingInv'
<1>1. PICK k \in Nat : heap_top = k * PageUnits /\ Mapped(paging, {}, HeapPages(k))
  BY DEF PagingInv
<1> DEFINE pages == PagesFor(pending[c])
           mapped == MapPages(paging, TopPage, pages)
<1>2. pages \in Nat
  <2>1. pending[c] \in Nat
    <3>1. pending[c] \in Sizes \cup {0}
      BY DEF HeapInv
    <3>2. Sizes \cup {0} \subseteq Nat
      BY SizesAssumption
    <3> QED BY <3>1, <3>2
  <2>2. pending[c] + Header + PageUnits - 1 \in Nat /\ PageUnits \in Nat /\ PageUnits > 0
    BY <2>1, PagesAssumption DEF Header
  <2> QED BY <2>2, DivMod DEF PagesFor
<1>3. TopPage = HeapBase + k
  BY <1>1, TopPageIs
<1> HIDE DEF pages
<1>4. CASE mapped.out
  <2>1. heap_top' = heap_top /\ paging' = paging
    BY <1>4 DEF Expand, pages
  <2> QED BY <1>1, <2>1 DEF PagingInv
<1>5. CASE ~mapped.out
  <2>1. heap_top' = heap_top + pages * PageUnits /\ paging' = mapped
    BY <1>5 DEF Expand, pages
  <2>2. Mapped(mapped, {}, HeapPages(k + pages))
    BY <1>1, <1>2, <1>3, <1>5, MapPagesMaps
  <2>3. heap_top' = (k + pages) * PageUnits /\ k + pages \in Nat
    BY <1>1, <1>2, <2>1, PagesAssumption
  <2> QED BY <2>1, <2>2, <2>3 DEF PagingInv
<1> QED BY <1>4, <1>5

\* The page tables are a tree that maps the pages of the heap (heap_init,
\* expand_heap, vmm_map).
THEOREM PagingInvariant == Spec => []PagingInv
<1>1. Init => PagingInv
  BY InitPagingInv
<1>2. HeapInv /\ PagingInv /\ [Next]_vars => PagingInv'
  <2> SUFFICES ASSUME HeapInv, PagingInv, [Next]_vars PROVE PagingInv'
    OBVIOUS
  <2>1. CASE UNCHANGED <<heap_top, paging>>
    BY <2>1 DEF PagingInv
  <2>2. ASSUME NEW c \in Cpus, NEW size \in Sizes, Kmalloc(c, size) PROVE PagingInv'
    BY <2>1, <2>2 DEF Kmalloc
  <2>3. ASSUME NEW c \in Cpus, Take(c) PROVE PagingInv'
    BY <2>1, <2>3 DEF Take
  <2>4. ASSUME NEW c \in Cpus, Expand(c) PROVE PagingInv'
    BY <2>4, ExpandPagingInv
  <2>5. ASSUME NEW c \in Cpus, NEW a \in Address, Kfree(c, a) PROVE PagingInv'
    BY <2>1, <2>5 DEF Kfree
  <2>6. CASE UNCHANGED vars
    BY <2>1, <2>6 DEF vars
  <2> QED BY <2>2, <2>3, <2>4, <2>5, <2>6 DEF Next
<1> QED BY <1>1, <1>2, HeapInvariant, PTL DEF Spec

\* Each page of the heap is mapped to a frame of its own, which is neither free
\* nor a table, and nothing else is mapped.
THEOREM HeapMappedHolds == Spec => []HeapMapped
<1>1. PagingInv => HeapMapped
  <2> SUFFICES ASSUME PagingInv PROVE HeapMapped
    OBVIOUS
  <2>1. PICK k \in Nat : heap_top = k * PageUnits /\ Mapped(paging, {}, HeapPages(k))
    BY DEF PagingInv
  <2> DEFINE heap == HeapBase .. TopPage - 1
             taken == {VmmMapping(paging, v) : v \in heap}
             leaves == UNION {Range(paging.table[t]) : t \in Tables(paging)}
  <2>2. heap = HeapPages(k)
    <3>1. TopPage = HeapBase + k
      BY <2>1, TopPageIs
    <3>2. TopPage - 1 = HeapBase + k - 1
      BY <3>1, PagesAssumption
    <3> QED BY <3>2 DEF HeapPages
  <2>3. IsFiniteSet(HeapPages(k))
    BY HeapPagesSize
  <2>4. /\ taken \subseteq 1 .. NumFrames /\ Cardinality(taken) = Cardinality(heap)
        /\ taken \cap (paging.free \cup Tables(paging)) = {}
        /\ \A t \in Tables(paging) : \A i \in Index :
             paging.table[t][i] \in taken \cup Tables(paging) \cup {Absent}
    <3> DEFINE T == {VmmMapping(paging, v) : v \in HeapPages(k)}
    <3>1. /\ T \subseteq 1 .. NumFrames /\ Cardinality(T) = Cardinality(HeapPages(k))
          /\ T \cap (paging.free \cup Tables(paging)) = {}
          /\ \A t \in Tables(paging) : \A i \in Index :
               paging.table[t][i] \in T \cup Tables(paging) \cup {Absent}
      <4>1. MappedWell(paging, HeapPages(k))
        BY <2>1, <2>3, MappedSound
      <4> QED BY <4>1 DEF MappedWell
    <3> HIDE DEF T
    <3>2. T = taken
      BY <2>2 DEF T
    <3> QED BY <2>2, <3>1, <3>2
  <2>5. \A t \in Tables(paging) : DOMAIN paging.table[t] = Index
    BY <2>1 DEF Mapped, Tree, Levels, Paging, Tables
  <2> HIDE DEF taken
  <2>6. leaves \subseteq taken \cup Tables(paging) \cup {Absent}
    BY <2>4, <2>5 DEF Range
  <2>7. Absent \notin taken
    BY <2>4, VmmAssumption DEF Absent
  <2> QED BY <2>4, <2>6, <2>7 DEF HeapMapped, taken
<1> QED BY <1>1, PagingInvariant, PTL

\* The headers lie in the region, which is never larger than the memory.
THEOREM TypeOKHolds == Spec => []TypeOK
<1>1. HeapInv /\ PagingInv => TypeOK
  <2> SUFFICES ASSUME HeapInv, PagingInv PROVE TypeOK
    OBVIOUS
  <2>1. PICK k \in Nat : heap_top = k * PageUnits /\ Mapped(paging, {}, HeapPages(k))
    BY DEF PagingInv
  <2>2. k <= NumFrames
    BY <2>1, HeapPagesSize, MappedFit
  <2>3. heap_top \in 0 .. NumFrames * PageUnits
    <3>1. PageUnits \in Nat /\ NumFrames \in Nat
      BY PagesAssumption, VmmAssumption
    <3>2. k * PageUnits \in Nat /\ NumFrames * PageUnits \in Nat
          /\ k * PageUnits <= NumFrames * PageUnits
      BY <2>2, <3>1
    <3> QED BY <2>1, <3>2
  <2>4. List.seg = seg /\ List.last = heap_last /\ Sound(List, heap_top)
    BY DEF List, HeapInv
  <2>5. /\ DOMAIN seg \subseteq Nat /\ heap_last \in DOMAIN seg
        /\ \A a \in DOMAIN seg : seg[a] \in Header0 /\ a <= heap_last
    BY <2>4 DEF Sound, IsList, Apart
  <2>6. heap_last < heap_top
    BY <2>3, <2>4, <2>5 DEF Sound, Forward, End, Header, Header0
  <2>7. DOMAIN seg \subseteq Address
    <3>1. NumFrames * PageUnits \in Nat
      BY PagesAssumption, VmmAssumption
    <3> QED BY <2>3, <2>5, <2>6, <3>1 DEF Address
  <2>8. ASSUME NEW a \in DOMAIN seg
        PROVE  seg[a] \in Segment
    <3>1. seg[a].next \in Address \cup {NULL} /\ seg[a].prev \in Address \cup {NULL}
      BY <2>4, <2>7 DEF Sound, Forward, Backward
    <3>2. seg[a] \in Header0
      BY <2>5
    <3> QED BY <3>1, <3>2 DEF Header0, Segment
  <2> QED BY <2>3, <2>5, <2>7, <2>8 DEF TypeOK, HeapInv
<1> QED BY <1>1, HeapInvariant, PagingInvariant, PTL
=============================================================================
