----------------------------- MODULE BusProofs ------------------------------
(***************************************************************************)
(* Proofs about Bus: whatever machine the kernel boots on, the scan gives  *)
(* the drivers the functions that are there, each to a driver that fits;   *)
(* names are read from inside their tables, and a search by number agrees  *)
(* with the count.                                                         *)
(***************************************************************************)
EXTENDS Bus, Numbers, FiniteSetTheorems, SequenceTheorems

\* What Min returns.
LEMMA MinIs ==
  ASSUME NEW T \in SUBSET Nat, T # {}
  PROVE  Min(T) \in T /\ \A y \in T : Min(T) <= y
BY LeastNumber DEF Min

\* What Max returns of the only number of a set.
LEMMA MaxOne ==
  ASSUME NEW x \in Nat
  PROVE  Max({x}) = x
BY DEF Max

\* Two digits are known from the number they make.
LEMMA Digits ==
  ASSUME NEW r \in Nat, r > 0, NEW a \in Nat, NEW c \in Nat,
         NEW b \in 0 .. r - 1, NEW d \in 0 .. r - 1, a * r + b = c * r + d
  PROVE  a = c /\ b = d
<1>1. \A x, y \in Nat : x < y => (x + 1) * r <= y * r
  <2> TAKE x, y \in Nat
  <2> HAVE x < y
  <2>1. PICK z \in Nat : y = x + 1 + z
    <3>1. y - x - 1 \in Nat /\ y = x + 1 + (y - x - 1)
      OBVIOUS
    <3> QED BY <3>1
  <2>2. y * r = (x + 1) * r + z * r /\ z * r \in Nat
    BY <2>1
  <2>3. (x + 1) * r \in Nat
    OBVIOUS
  <2> QED BY <2>2, <2>3
<1>2. \A x \in Nat : (x + 1) * r = x * r + r /\ x * r \in Nat
  OBVIOUS
<1>3. ~(a < c)
  <2> SUFFICES ASSUME a < c PROVE FALSE
    OBVIOUS
  <2>1. a * r + r <= c * r
    BY <1>1, <1>2
  <2> QED BY <1>2, <2>1
<1>4. ~(c < a)
  <2> SUFFICES ASSUME c < a PROVE FALSE
    OBVIOUS
  <2>1. c * r + r <= a * r
    BY <1>1, <1>2
  <2> QED BY <1>2, <2>1
<1>5. a = c
  BY <1>3, <1>4
<1>6. a * r = c * r /\ a * r \in Nat
  BY <1>2, <1>5
<1> QED BY <1>5, <1>6

\* The sizes of the buses are positive numbers.
LEMMA Sizes ==
  /\ BusCount \in Nat /\ SlotCount \in Nat /\ FunctionCount \in Nat /\ RegionMod \in Nat
  /\ BusCount > 0 /\ SlotCount > 0 /\ FunctionCount > 0 /\ RegionMod > 0
  /\ PerBus \in Nat /\ PerBus > 0
BY PcieAssumption DEF PerBus

\* The place of a function on its bus, as one digit.
LEMMA SlotIndex ==
  ASSUME NEW s \in 0 .. SlotCount - 1, NEW f \in 0 .. FunctionCount - 1
  PROVE  s * FunctionCount + f \in 0 .. PerBus - 1
<1>1. PICK t \in Nat : SlotCount = s + 1 + t
  <2>1. SlotCount - s - 1 \in Nat /\ SlotCount = s + 1 + (SlotCount - s - 1)
    BY Sizes
  <2> QED BY <2>1
<1>2. PerBus = s * FunctionCount + FunctionCount + t * FunctionCount
  BY <1>1, Sizes DEF PerBus
<1>3. t * FunctionCount \in Nat /\ s * FunctionCount \in Nat
  BY <1>1, Sizes
<1> HIDE DEF PerBus
<1> QED BY <1>2, <1>3, Sizes

\* A function has an index below the number of functions.
LEMMA IndexType ==
  ASSUME NEW p \in Places
  PROVE  Index(p) \in Nat /\ Index(p) < BusCount * PerBus /\ BusCount * PerBus \in Nat
<1> DEFINE low == p[2] * FunctionCount + p[3]
<1>1. p[1] \in 0 .. BusCount - 1 /\ p[2] \in 0 .. SlotCount - 1 /\ p[3] \in 0 .. FunctionCount - 1
  BY DEF Places, Buses
<1>2. low \in 0 .. PerBus - 1
  BY <1>1, SlotIndex
<1>3. Index(p) = p[1] * PerBus + low
  <2>1. p[1] * PerBus \in Nat /\ p[2] * FunctionCount \in Nat /\ p[3] \in Nat
    BY <1>1, Sizes
  <2> QED BY <2>1 DEF Index
<1>4. PICK t \in Nat : BusCount = p[1] + 1 + t
  <2>1. BusCount - p[1] - 1 \in Nat /\ BusCount = p[1] + 1 + (BusCount - p[1] - 1)
    BY <1>1, Sizes
  <2> QED BY <2>1
<1>5. BusCount * PerBus = p[1] * PerBus + PerBus + t * PerBus
  BY <1>1, <1>4, Sizes
<1>6. t * PerBus \in Nat /\ p[1] * PerBus \in Nat
  BY <1>1, <1>4, Sizes
<1> HIDE DEF low
<1> QED BY <1>2, <1>3, <1>5, <1>6, Sizes

\* No two functions have the same index.
LEMMA IndexInjective ==
  ASSUME NEW p \in Places, NEW q \in Places, Index(p) = Index(q)
  PROVE  p = q
<1> DEFINE low(x) == x[2] * FunctionCount + x[3]
<1>1. \A x \in Places : /\ x[1] \in 0 .. BusCount - 1
                        /\ x[2] \in 0 .. SlotCount - 1
                        /\ x[3] \in 0 .. FunctionCount - 1
                        /\ x = <<x[1], x[2], x[3]>>
  BY DEF Places, Buses
<1>2. \A x \in Places : low(x) \in 0 .. PerBus - 1
  BY <1>1, SlotIndex
<1>3. \A x \in Places : Index(x) = x[1] * PerBus + low(x)
  <2> TAKE x \in Places
  <2>1. x[1] * PerBus \in Nat /\ x[2] * FunctionCount \in Nat /\ x[3] \in Nat
    BY <1>1, Sizes
  <2> QED BY <2>1 DEF Index
<1>4. p[1] = q[1] /\ low(p) = low(q)
  <2>1. p[1] \in Nat /\ q[1] \in Nat
    BY <1>1, Sizes
  <2>2. p[1] * PerBus + low(p) = q[1] * PerBus + low(q)
    BY <1>3
  <2>3. low(p) \in 0 .. PerBus - 1 /\ low(q) \in 0 .. PerBus - 1
    BY <1>2
  <2> HIDE DEF low
  <2> QED BY <2>1, <2>2, <2>3, Sizes, Digits
<1>5. p[2] = q[2] /\ p[3] = q[3]
  <2>1. p[2] \in Nat /\ q[2] \in Nat /\ p[3] \in 0 .. FunctionCount - 1 /\ q[3] \in 0 .. FunctionCount - 1
    BY <1>1, Sizes
  <2>2. p[2] * FunctionCount + p[3] = q[2] * FunctionCount + q[3]
    BY <1>4
  <2> DEFINE a == p[2]  b == p[3]  c == q[2]  d == q[3]
  <2>3. /\ a \in Nat /\ c \in Nat /\ b \in 0 .. FunctionCount - 1 /\ d \in 0 .. FunctionCount - 1
        /\ a * FunctionCount + b = c * FunctionCount + d
    BY <2>1, <2>2
  <2> HIDE DEF low, a, b, c, d
  <2>4. a = c /\ b = d
    BY <2>3, Sizes, Digits
  <2> QED BY <2>4 DEF a, b, c, d
<1> QED BY <1>1, <1>4, <1>5

\* Every index is that of a function, the one the scan looks at.
LEMMA PlaceOfIndex ==
  ASSUME NEW n \in Nat, n < BusCount * PerBus
  PROVE  PlaceOf(n) \in Places /\ Index(PlaceOf(n)) = n
<1> DEFINE m == n % PerBus
<1>1. /\ n = PerBus * (n \div PerBus) + m
      /\ n \div PerBus \in Nat /\ m \in 0 .. PerBus - 1
  BY DivMod, Sizes
<1>2. n \div PerBus < BusCount
  <2>1. n < PerBus * BusCount
    BY Sizes
  <2> QED BY <2>1, DivBound, Sizes
<1>3. /\ m = FunctionCount * (m \div FunctionCount) + (m % FunctionCount)
      /\ m \div FunctionCount \in Nat /\ m % FunctionCount \in 0 .. FunctionCount - 1
  BY <1>1, DivMod, Sizes
<1>4. m \div FunctionCount < SlotCount
  <2>1. m < FunctionCount * SlotCount
    BY <1>1, Sizes DEF PerBus
  <2> QED BY <1>1, <2>1, DivBound, Sizes
<1>5. n % FunctionCount = m % FunctionCount
  <2> DEFINE k == (n \div PerBus) * SlotCount + m \div FunctionCount
             f == m % FunctionCount
             g == n % FunctionCount
             l == n \div FunctionCount
  <2>1. n = FunctionCount * l + g /\ l \in Nat /\ g \in 0 .. FunctionCount - 1
    BY DivMod, Sizes
  <2>2. n = k * FunctionCount + f
    BY <1>1, <1>3, Sizes DEF PerBus
  <2>3. k \in Nat /\ f \in 0 .. FunctionCount - 1
    BY <1>1, <1>3, Sizes
  <2> HIDE DEF k, f, g, l
  <2>4. l * FunctionCount + g = k * FunctionCount + f
    BY <2>1, <2>2, Sizes
  <2>5. g = f
    BY <2>1, <2>3, <2>4, Digits, Sizes
  <2> QED BY <2>5 DEF f, g
<1> DEFINE p == PlaceOf(n)
<1>6. p = <<n \div PerBus, m \div FunctionCount, m % FunctionCount>>
  BY <1>5 DEF PlaceOf
<1>7. p \in Places
  BY <1>1, <1>2, <1>3, <1>4, <1>6, Sizes DEF Places, Buses
<1> DEFINE b == n \div PerBus
           s == m \div FunctionCount
           f == m % FunctionCount
<1> HIDE DEF p, m, b, s, f
<1>8. Index(p) = b * PerBus + s * FunctionCount + f
  BY <1>6 DEF Index, b, s, f
<1>9. Index(p) = n
  <2>1. n = PerBus * b + m /\ m = FunctionCount * s + f /\ b \in Nat /\ s \in Nat /\ f \in Nat
    BY <1>1, <1>3, Sizes DEF b, s, f
  <2> QED BY <1>8, <2>1, Sizes
<1> QED BY <1>7, <1>9 DEF p

-----------------------------------------------------------------------------
(***************************************************************************)
(* Regions, pages and headers.                                             *)
(***************************************************************************)

\* The entries of the MCFG of the machine it runs on.
LEMMA McfgType ==
  ASSUME machine \in Machines
  PROVE  /\ machine.mcfg \in Seq(McfgEntry)
         /\ Len(machine.mcfg) \in Nat
         /\ DOMAIN machine.mcfg = 1 .. Len(machine.mcfg)
         /\ \A i \in DOMAIN machine.mcfg : machine.mcfg[i] \in McfgEntry
BY MachinesAssumption

\* As long as their number does not wrap, the regions are the entries.
LEMMA RegionsAreEntries ==
  ASSUME NEW entries \in Seq(McfgEntry), Len(entries) < RegionMod
  PROVE  RegionsOf(entries) = entries /\ Len(entries) % RegionMod = Len(entries)
<1> DEFINE n == Len(entries)
<1>1. n \in Nat /\ DOMAIN entries = 1 .. n /\ entries = [i \in 1 .. n |-> entries[i]]
  OBVIOUS
<1>2. \A k \in 0 .. n : k % RegionMod = k
  BY <1>1, Sizes
<1>3. Min({n, RegionMod}) = n
  <2>1. {n, RegionMod} \in SUBSET Nat /\ {n, RegionMod} # {}
    BY <1>1, Sizes
  <2>2. Min({n, RegionMod}) \in {n, RegionMod} /\ Min({n, RegionMod}) <= n
    BY <2>1, MinIs
  <2> QED BY <2>2, Sizes
<1>4. \A i \in 1 .. n : Max({k \in DOMAIN entries : k % RegionMod = i % RegionMod}) = i
  <2> TAKE i \in 1 .. n
  <2>1. {k \in DOMAIN entries : k % RegionMod = i % RegionMod} = {i}
    BY <1>1, <1>2
  <2> QED BY <2>1, MaxOne
<1>5. RegionsOf(entries) = [i \in 1 .. n |-> entries[i]]
  BY <1>3, <1>4 DEF RegionsOf
<1>6. n \in 0 .. n
  BY <1>1
<1> QED BY <1>1, <1>2, <1>5, <1>6

\* Every function has a header of numbers, the one that is not there too.
LEMMA FunctionType ==
  ASSUME machine \in Machines, NEW s, NEW p
  PROVE  Function(s, p) \in Header
<1>1. NoHeader \in Header
  <2>1. None \in Word /\ 255 \in Byte
    BY DEF None, Word, Byte
  <2> QED BY <2>1 DEF NoHeader, Header
<1> QED BY <1>1, MachinesAssumption DEF Function

\* So has every page.
LEMMA HeaderAtType ==
  ASSUME machine \in Machines, NEW page
  PROVE  HeaderAt(page) \in Header
<1>1. NoHeader \in Header
  <2>1. None \in Word /\ 255 \in Byte
    BY DEF None, Word, Byte
  <2> QED BY <2>1 DEF NoHeader, Header
<1> QED BY <1>1, FunctionType DEF HeaderAt

\* The page of a function that an entry covers shows that function, in the
\* entry's segment.
LEMMA PageShows ==
  ASSUME machine \in Machines, NEW i \in DOMAIN machine.mcfg, NEW p \in Places,
         Covers(machine.mcfg[i], p)
  PROVE  HeaderAt(ConfigPage(machine.mcfg[i], p)) = Function(machine.mcfg[i].segment, p)
<1> DEFINE e == machine.mcfg[i]
           page == ConfigPage(e, p)
           there == {h \in Range(machine.mcfg) \X Places : Covers(h[1], h[2]) /\ page = ConfigPage(h[1], h[2])}
<1>1. e \in Range(machine.mcfg)
  BY DEF Range
<1>2. <<e, p>> \in there
  BY <1>1
<1>3. \A h \in there : h[1].segment = e.segment /\ h[2] = p
  <2> TAKE h \in there
  <2>1. h[1] \in Range(machine.mcfg) /\ h[2] \in Places /\ Covers(h[1], h[2])
        /\ ConfigPage(e, p) = ConfigPage(h[1], h[2])
    OBVIOUS
  <2>2. h[1].segment = e.segment /\ h[2] = p
    BY <1>1, <2>1, MachinesAssumption
  <2> QED BY <2>2
<1> HIDE DEF there
<1>4. LET h == CHOOSE h \in there : TRUE IN h[1].segment = e.segment /\ h[2] = p
  BY <1>2, <1>3
<1>5. HeaderAt(page) = LET h == CHOOSE h \in there : TRUE IN Function(h[1].segment, h[2])
  BY <1>2 DEF HeaderAt, there
<1> QED BY <1>4, <1>5

\* What pcie_init has stored, unless the number of regions wrapped.
Stored == pcie = PcieStored(machine.mcfg) /\ Len(machine.mcfg) < RegionMod

\* Memory shows of each bus the first segment that has it.
LEMMA MemoryShows ==
  ASSUME machine \in Machines, Stored, NEW p \in Places
  PROVE  /\ PcieGetDevice(p) = NULL <=> SegmentOf(p[1]) = NULL
         /\ PcieGetDevice(p) # NULL =>
              HeaderAt(PcieGetDevice(p)) = Function(SegmentOf(p[1]), p)
<1> DEFINE hits == {i \in DOMAIN machine.mcfg : Covers(machine.mcfg[i], p)}
<1>1. pcie.regions = machine.mcfg /\ pcie.count = Len(machine.mcfg)
  BY McfgType, RegionsAreEntries DEF Stored, PcieStored
<1>2. PcieGetDevice(p) = IF hits = {} THEN NULL ELSE ConfigPage(machine.mcfg[Min(hits)], p)
  BY <1>1, McfgType DEF PcieGetDevice, ConfigPage
<1>3. SegmentOf(p[1]) = IF hits = {} THEN NULL ELSE machine.mcfg[Min(hits)].segment
  BY DEF SegmentOf, Covers
<1>4. CASE hits = {}
  BY <1>2, <1>3, <1>4
<1>5. CASE hits # {}
  <2>1. hits \in SUBSET Nat
    BY McfgType
  <2>2. Min(hits) \in hits
    BY <1>5, <2>1, MinIs
  <2> DEFINE i == Min(hits)
  <2>3. i \in DOMAIN machine.mcfg /\ Covers(machine.mcfg[i], p)
    BY <2>2
  <2>4. machine.mcfg[i] \in McfgEntry
    BY <2>3, McfgType
  <2>5. machine.mcfg[i].segment \in Int /\ machine.mcfg[i].base \in Nat /\ machine.mcfg[i].start \in Nat
    BY <2>4 DEF McfgEntry
  <2>6. ConfigPage(machine.mcfg[i], p) \in Int
    <3>1. Index(p) \in Nat /\ machine.mcfg[i].start * PerBus \in Nat
      BY <2>5, IndexType, Sizes
    <3> QED BY <2>5, <3>1 DEF ConfigPage
  <2>7. HeaderAt(ConfigPage(machine.mcfg[i], p)) = Function(machine.mcfg[i].segment, p)
    BY <2>3, PageShows
  <2> HIDE DEF hits
  <2> QED BY <1>2, <1>3, <1>5, <2>5, <2>6, <2>7, NullAssumption
<1> QED BY <1>4, <1>5

-----------------------------------------------------------------------------
(***************************************************************************)
(* Searching by number.                                                    *)
(***************************************************************************)

\* There are finitely many functions.
LEMMA PlacesFinite ==
  ASSUME NEW S \in SUBSET Places
  PROVE  IsFiniteSet(S) /\ Cardinality(S) \in Nat
<1> DEFINE n == BusCount * PerBus
           f == [p \in Places |-> Index(p)]
<1>1. n \in Nat
  <2> QED BY Sizes
<1>2. \A p \in Places : Index(p) \in 0 .. n
  BY IndexType
<1>3. f \in Injection(Places, 0 .. n)
  BY <1>2, IndexInjective DEF Injection, IsInjective
<1>4. IsFiniteSet(0 .. n)
  BY <1>1, FS_Interval
<1> HIDE DEF f
<1>5. IsFiniteSet(Places)
  BY <1>3, <1>4, FS_Injection
<1>6. IsFiniteSet(S)
  BY <1>5, FS_Subset
<1> QED BY <1>6, FS_CardinalityType

\* Of some functions one has n before it exactly when n is less than their
\* number: the search counts them as it goes.
LEMMA NumberN ==
  ASSUME NEW S \in SUBSET Places, NEW n \in Nat
  PROVE  n < Cardinality(S) <=> \E p \in S : Cardinality(Before(p, S)) = n
<1> DEFINE Below(k) == {q \in S : Index(q) < k}
           T == {k \in Nat : n < Cardinality(Below(k))}
<1>1. ASSUME NEW p \in S, Cardinality(Before(p, S)) = n
      PROVE  n < Cardinality(S)
  <2> DEFINE B == Before(p, S)
  <2>1. B \in SUBSET S /\ p \notin B
    BY IndexType DEF Before
  <2>2. B \cup {p} \in SUBSET S
    BY <2>1
  <2> HIDE DEF B
  <2>3. B \in SUBSET Places /\ B \cup {p} \in SUBSET Places
    BY <2>1, <2>2
  <2>4. Cardinality(B \cup {p}) = Cardinality(B) + 1 /\ Cardinality(B) \in Nat
    BY <2>1, <2>3, PlacesFinite, FS_AddElement
  <2>5. Cardinality(B \cup {p}) <= Cardinality(S) /\ Cardinality(S) \in Nat
    BY <2>2, PlacesFinite, FS_Subset
  <2> QED BY <1>1, <2>4, <2>5 DEF B
<1>2. ASSUME n < Cardinality(S)
      PROVE  \E p \in S : Cardinality(Before(p, S)) = n
  <2>1. BusCount * PerBus \in T
    <3>1. Below(BusCount * PerBus) = S
      BY IndexType
    <3> QED BY <1>2, <3>1, Sizes
  <2>2. PICK k \in T : \A j \in T : k <= j
    <3>1. T \in SUBSET Nat /\ T # {}
      BY <2>1
    <3> HIDE DEF T
    <3> QED BY <3>1, LeastNumber
  <2>3. k \in Nat /\ n < Cardinality(Below(k))
    BY <2>2
  <2>4. k # 0
    <3> SUFFICES ASSUME k = 0 PROVE FALSE
      OBVIOUS
    <3>1. Below(0) = {}
      BY IndexType
    <3> HIDE DEF Below
    <3> QED BY <2>3, <3>1, FS_EmptySet
  <2>5. k - 1 \in Nat /\ k - 1 \notin T
    BY <2>2, <2>3, <2>4
  <2>6. Cardinality(Below(k - 1)) <= n /\ Cardinality(Below(k - 1)) \in Nat
    <3>1. Below(k - 1) \in SUBSET Places
      OBVIOUS
    <3>2. Cardinality(Below(k - 1)) \in Nat
      BY <3>1, PlacesFinite
    <3> QED BY <2>5, <3>2
  <2>7. PICK p \in S : Index(p) = k - 1
    <3> SUFFICES ASSUME \A p \in S : Index(p) # k - 1 PROVE FALSE
      OBVIOUS
    <3>1. Below(k) = Below(k - 1)
      BY <2>3, IndexType
    <3> HIDE DEF Below
    <3> QED BY <2>3, <2>6, <3>1
  <2>8. Below(k) = Below(k - 1) \cup {p}
    <3>1. \A q \in S : Index(q) < k <=> Index(q) < k - 1 \/ q = p
      <4> TAKE q \in S
      <4>1. Index(q) \in Nat
        BY IndexType
      <4>2. Index(q) = k - 1 => q = p
        BY <2>7, IndexInjective
      <4> QED BY <2>3, <2>7, <4>1, <4>2
    <3> QED BY <3>1
  <2>9. Below(k - 1) = Before(p, S)
    BY <2>7 DEF Before
  <2>10. Cardinality(Below(k)) = Cardinality(Before(p, S)) + 1
    <3>1. Below(k - 1) \in SUBSET Places /\ p \notin Below(k - 1)
      BY <2>3, <2>7
    <3>2. IsFiniteSet(Below(k - 1))
      BY <3>1, PlacesFinite
    <3> HIDE DEF Below
    <3> QED BY <2>8, <2>9, <3>1, <3>2, FS_AddElement
  <2> HIDE DEF Below
  <2> QED BY <2>3, <2>6, <2>9, <2>10
<1> QED BY <1>1, <1>2

\* Whichever way a header is read, through the ports or through memory, its
\* ids are those of the function.
SegmentAt(p) == IF pcie.initialized THEN SegmentOf(p[1]) ELSE 0

\* The first register of a place holds the vendor and the device of the function
\* there (pci_read).
LEMMA IdsRead ==
  ASSUME machine \in Machines, pcie = PcieInitialState \/ Stored, EveryPageKnown, NEW p \in Places
  PROVE  LET h == Function(SegmentAt(p), p) IN VendorDevice(p) = <<h.vendor, h.device>>
<1>1. CASE pcie.initialized
  <2>1. Stored
    BY <1>1 DEF PcieInitialState
  <2>2. PcieGetDevice(p) # NULL
    BY <1>1 DEF EveryPageKnown
  <2>3. HeaderAt(PcieGetDevice(p)) = Function(SegmentOf(p[1]), p)
    BY <2>1, <2>2, MemoryShows
  <2> QED BY <1>1, <2>3 DEF VendorDevice, SegmentAt
<1>2. CASE ~pcie.initialized
  <2> DEFINE h == Function(0, p)
  <2>1. /\ 2 * (OffsetVendor \div 4) + (1 - (OffsetVendor % 4) \div 2) + 1 = 1
        /\ 2 * (OffsetDevice \div 4) + (1 - (OffsetDevice % 4) \div 2) + 1 = 2
    BY DEF OffsetVendor, OffsetDevice
  <2>2. Words(h)[1] = h.vendor /\ Words(h)[2] = h.device
    BY DEF Words
  <2>3. PciConfigReadWord(p, OffsetVendor) = h.vendor /\ PciConfigReadWord(p, OffsetDevice) = h.device
    BY <2>1, <2>2 DEF PciConfigReadWord
  <2>4. VendorDevice(p) = <<PciConfigReadWord(p, OffsetVendor), PciConfigReadWord(p, OffsetDevice)>>
    BY <1>2 DEF VendorDevice
  <2> QED BY <1>2, <2>3, <2>4 DEF SegmentAt
<1> QED BY <1>1, <1>2

\* What an answer to a search says.
Having(ids) == {p \in Places : LET h == Function(SegmentAt(p), p) IN <<h.vendor, h.device>> = ids}

SearchTrue(ids, number, answer) ==
  LET matching == Having(ids)
  IN  /\ answer.exists <=> number < Cardinality(matching)
      /\ answer.exists =>
           /\ answer.at \in matching
           /\ Cardinality({q \in matching : Index(q) < Index(answer.at)}) = number

\* pci_search finds the function with a given number among those with the ids, in
\* the order of the buses, or reports that there is none.
LEMMA SearchAnswers ==
  ASSUME machine \in Machines, pcie = PcieInitialState \/ Stored, EveryPageKnown,
         NEW ids, NEW number \in Nat
  PROVE  SearchTrue(ids, number, PciSearch(ids, number))
<1> DEFINE S == {p \in Places : LET h == Function(SegmentAt(p), p) IN <<h.vendor, h.device>> = ids}
           hits == {p \in S : Cardinality(Before(p, S)) = number}
           answer == PciSearch(ids, number)
<1>1. Matches(ids) = S
  BY IdsRead DEF Matches
<1>2. S \in SUBSET Places
  OBVIOUS
<1> HIDE DEF S
<1>3. number < Cardinality(S) <=> hits # {}
  BY <1>2, NumberN
<1>4. Cardinality(S) \in Nat
  BY <1>2, PlacesFinite
<1>5. answer = IF Cardinality(S) < number \/ hits = {} THEN NoAddress
               ELSE [exists |-> TRUE, at |-> CHOOSE p \in hits : TRUE]
  BY <1>1 DEF PciSearch, PciGetCount
<1>6. CASE hits = {}
  <2>1. answer = NoAddress /\ ~(number < Cardinality(S))
    BY <1>3, <1>5, <1>6
  <2>2. ~answer.exists
    BY <2>1 DEF NoAddress
  <2> QED BY <2>1, <2>2 DEF SearchTrue, Having, S
<1>7. CASE hits # {}
  <2>1. number < Cardinality(S) /\ ~(Cardinality(S) < number)
    BY <1>3, <1>4, <1>7
  <2>2. (CHOOSE p \in hits : TRUE) \in hits
    BY <1>7
  <2> HIDE DEF hits
  <2>3. answer.exists /\ answer.at \in hits
    BY <1>5, <1>7, <2>1, <2>2
  <2>4. answer.at \in S /\ Cardinality(Before(answer.at, S)) = number
    BY <2>3 DEF hits
  <2> QED BY <2>1, <2>3, <2>4 DEF SearchTrue, Having, S, Before
<1> QED BY <1>6, <1>7

-----------------------------------------------------------------------------
(***************************************************************************)
(* Drivers and the functions they take.                                    *)
(***************************************************************************)
DriverType == [type : DOMAIN Addresses, address : Seq(Nat)]

\* The ids and codes of a header that a driver of each type names.
Values(h) == [VENDOR |-> <<h.vendor>>, VENDORDEVICE |-> <<h.vendor, h.device>>,
              CLASS |-> <<h.class>>, CLASSSUBCLASS |-> <<h.class, h.subclass>>,
              CLASSSUBCLASSPROGIF |-> <<h.class, h.subclass, h.prog_if>>]

\* The drivers in the image.
LEMMA ConstructorType ==
  /\ Len(Constructors) \in Nat /\ DOMAIN Constructors = 1 .. Len(Constructors)
  /\ \A i \in DOMAIN Constructors : /\ Constructors[i] \in DriverType
                                    /\ Len(Constructors[i].address) = Addresses[Constructors[i].type]
<1>1. Constructors \in Seq(DriverType)
  BY ConstructorsAssumption DEF DriverType
<1>2. \A i \in DOMAIN Constructors : Len(Constructors[i].address) = Addresses[Constructors[i].type]
  BY ConstructorsAssumption
<1> HIDE DEF DriverType
<1> QED BY <1>1, <1>2

\* The comparisons of devman_handle_pcie_device compare what the driver names.
LEMMA FitsNames ==
  ASSUME NEW d \in DriverType, Len(d.address) = Addresses[d.type], NEW h \in Header
  PROVE  Fits(d, h) <=> d.address = Values(h)[d.type]
<1> DEFINE a == d.address
<1>1. a \in Seq(Nat) /\ d.type \in {"VENDOR", "VENDORDEVICE", "CLASS", "CLASSSUBCLASS", "CLASSSUBCLASSPROGIF"}
  BY DEF DriverType, Addresses
<1>2. ASSUME NEW x, Len(a) = 1 PROVE a = <<x>> <=> a[1] = x
  BY <1>1, <1>2
<1>3. ASSUME NEW x, NEW y, Len(a) = 2 PROVE a = <<x, y>> <=> a[1] = x /\ a[2] = y
  BY <1>1, <1>3
<1> DEFINE v == Values(h)
<1>9. /\ v["VENDOR"] = <<h.vendor>> /\ v["VENDORDEVICE"] = <<h.vendor, h.device>>
      /\ v["CLASS"] = <<h.class>> /\ v["CLASSSUBCLASS"] = <<h.class, h.subclass>>
      /\ v["CLASSSUBCLASSPROGIF"] = <<h.class, h.subclass, h.prog_if>>
  BY DEF Values
<1> HIDE DEF v
<1>4. CASE d.type = "VENDOR"
  <2>1. Len(a) = 1
    BY <1>4 DEF Addresses
  <2> HIDE DEF a
  <2>2. Fits(d, h) <=> a[1] = h.vendor
    BY <1>4 DEF Fits, a
  <2>3. a = v[d.type] <=> d.address = Values(h)[d.type]
    BY DEF a, v
  <2> QED BY <1>2, <1>4, <1>9, <2>1, <2>2, <2>3
<1>5. CASE d.type = "VENDORDEVICE"
  <2>1. Len(a) = 2
    BY <1>5 DEF Addresses
  <2> HIDE DEF a
  <2>2. Fits(d, h) <=> a[1] = h.vendor /\ a[2] = h.device
    BY <1>5 DEF Fits, a
  <2>3. a = v[d.type] <=> d.address = Values(h)[d.type]
    BY DEF a, v
  <2>4. a = <<h.vendor, h.device>> <=> a[1] = h.vendor /\ a[2] = h.device
    BY <1>3, <2>1
  <2>5. v[d.type] = <<h.vendor, h.device>>
    BY <1>5, <1>9
  <2> QED BY <2>2, <2>3, <2>4, <2>5
<1>6. CASE d.type = "CLASS"
  <2>1. Len(a) = 1
    BY <1>6 DEF Addresses
  <2> HIDE DEF a
  <2>2. Fits(d, h) <=> a[1] = h.class
    BY <1>6 DEF Fits, a
  <2>3. a = v[d.type] <=> d.address = Values(h)[d.type]
    BY DEF a, v
  <2> QED BY <1>2, <1>6, <1>9, <2>1, <2>2, <2>3
<1>7. CASE d.type = "CLASSSUBCLASS"
  <2>1. Len(a) = 2
    BY <1>7 DEF Addresses
  <2> HIDE DEF a
  <2>2. Fits(d, h) <=> a[1] = h.class /\ a[2] = h.subclass
    BY <1>7 DEF Fits, a
  <2>3. a = v[d.type] <=> d.address = Values(h)[d.type]
    BY DEF a, v
  <2>4. a = <<h.class, h.subclass>> <=> a[1] = h.class /\ a[2] = h.subclass
    BY <1>3, <2>1
  <2>5. v[d.type] = <<h.class, h.subclass>>
    BY <1>7, <1>9
  <2> QED BY <2>2, <2>3, <2>4, <2>5
<1>8. CASE d.type = "CLASSSUBCLASSPROGIF"
  BY <1>8 DEF Fits, Values
<1> QED BY <1>1, <1>4, <1>5, <1>6, <1>7, <1>8

\* Each driver is put before those that registered earlier.
DriversOrdered ==
  /\ drivers \in Seq(DriverType)
  /\ Len(drivers) <= Len(Constructors)
  /\ \A i \in DOMAIN drivers : drivers[i] = Constructors[Len(drivers) + 1 - i]

AllRegistered == DriversOrdered /\ Len(drivers) = Len(Constructors)

\* What a driver that takes a function has over the others, when all drivers
\* have registered.
TakerFits(h, refusing, driver) ==
  LET matching == {c \in DOMAIN Constructors : Constructors[c].address = Values(h)[Constructors[c].type]}
      refused == {Len(Constructors) + 1 - r : r \in refusing}
      taker == Len(Constructors) + 1 - driver
  IN  IF driver = 0 THEN matching \subseteq refused
      ELSE taker \in matching /\ \A c \in matching : c > taker => c \in refused

\* The driver that takes a function fits it, and those that would come before it
\* have refused (devman_handle_pcie_device).
LEMMA TakerTakes ==
  ASSUME AllRegistered, NEW h \in Header,
         NEW refusing \in SUBSET {i \in DOMAIN drivers : Fits(drivers[i], h)}
  PROVE  TakerFits(h, refusing, Taker(h, refusing))
<1> DEFINE n == Len(Constructors)
           matching == {c \in DOMAIN Constructors : Constructors[c].address = Values(h)[Constructors[c].type]}
           refused == {n + 1 - r : r \in refusing}
           willing == {i \in DOMAIN drivers : Fits(drivers[i], h) /\ i \notin refusing}
           driver == Taker(h, refusing)
<1>1. n \in Nat /\ DOMAIN Constructors = 1 .. n /\ DOMAIN drivers = 1 .. n
  BY ConstructorType DEF AllRegistered, DriversOrdered
<1>2. \A i \in 1 .. n : n + 1 - i \in 1 .. n /\ n + 1 - (n + 1 - i) = i
  BY <1>1
<1>3. \A i \in 1 .. n : drivers[i] = Constructors[n + 1 - i]
  BY <1>1 DEF AllRegistered, DriversOrdered
<1>4. \A i \in 1 .. n : Fits(drivers[i], h) <=> n + 1 - i \in matching
  <2> TAKE i \in 1 .. n
  <2> DEFINE c == n + 1 - i
  <2>1. c \in DOMAIN Constructors
    BY <1>1, <1>2
  <2>2. Fits(Constructors[c], h) <=> Constructors[c].address = Values(h)[Constructors[c].type]
    BY <2>1, ConstructorType, FitsNames
  <2> HIDE DEF n
  <2> QED BY <1>3, <2>1, <2>2
<1>5. \A c \in matching : c \in 1 .. n
  BY <1>1
<1>6. driver = IF willing = {} THEN 0 ELSE Min(willing)
  BY DEF Taker
<1> HIDE DEF n, matching, driver
<1>7. \A c \in 1 .. n : c \in matching /\ c \notin refused => n + 1 - c \in willing
  <2> TAKE c \in 1 .. n
  <2> HAVE c \in matching /\ c \notin refused
  <2> DEFINE i == n + 1 - c
  <2>1. i \in 1 .. n /\ n + 1 - i = c
    BY <1>2
  <2> HIDE DEF i
  <2>2. Fits(drivers[i], h)
    BY <1>4, <2>1
  <2>3. i \notin refusing
    BY <2>1
  <2> QED BY <1>1, <2>1, <2>2, <2>3 DEF i
<1>8. CASE willing = {}
  <2>1. driver = 0
    BY <1>6, <1>8
  <2>2. matching \subseteq refused
    BY <1>5, <1>7, <1>8
  <2> QED BY <2>1, <2>2 DEF TakerFits, matching, n, driver
<1>9. CASE willing # {}
  <2>1. willing \in SUBSET Nat
    BY <1>1
  <2>2. driver \in willing /\ \A i \in willing : driver <= i
    BY <1>6, <1>9, <2>1, MinIs
  <2>3. driver \in 1 .. n /\ driver # 0
    BY <1>1, <2>2
  <2>4. n + 1 - driver \in matching
    BY <1>4, <2>2, <2>3
  <2>5. \A c \in matching : c > n + 1 - driver => c \in refused
    <3> TAKE c \in matching
    <3> HAVE c > n + 1 - driver
    <3> SUFFICES ASSUME c \notin refused PROVE FALSE
      OBVIOUS
    <3>1. c \in 1 .. n /\ n + 1 - c \in willing
      BY <1>5, <1>7
    <3>2. driver <= n + 1 - c
      BY <2>2, <3>1
    <3> QED BY <1>1, <2>3, <3>1, <3>2
  <2> QED BY <2>3, <2>4, <2>5 DEF TakerFits, matching, n, driver
<1> QED BY <1>8, <1>9

-----------------------------------------------------------------------------
(***************************************************************************)
(* Names.                                                                  *)
(***************************************************************************)

\* A vendor's name comes from the first module that is a registry of vendors.
VendorNamed(vendor, name) ==
  LET known == {r \in UNION {ToSet(machine.modules[j].records) : j \in Registry("pci_vendors")} :
                  r.key = vendor}
  IN  IF known = {} THEN name = NoName ELSE \E r \in known : name = r.name

\* A registry that was found once is the first.
RegistryKept ==
  /\ registry \in [{"pci_vendors", "pci_devices"} -> Nat]
  /\ \A kind \in {"pci_vendors", "pci_devices"} :
       registry[kind] # 0 => registry[kind] \in Registry(kind)

\* The registry of names is the first module with its name, when there is one.
LEMMA RegistryFound ==
  ASSUME machine \in Machines, RegistryKept, NEW kind \in {"pci_vendors", "pci_devices"}
  PROVE  /\ RegistryNow(kind) \in Nat
         /\ RegistryNow(kind) = 0 => Registry(kind) = {}
         /\ RegistryNow(kind) # 0 => Registry(kind) = {RegistryNow(kind)}
<1> DEFINE hits == {i \in DOMAIN machine.modules : machine.modules[i].cmdline = kind}
<1>1. DOMAIN machine.modules \in SUBSET (Nat \ {0})
  BY ModulesAssumption
<1>2. Registry(kind) = {i \in hits : \A j \in hits : i <= j}
  BY DEF Registry
<1>3. hits \in SUBSET (Nat \ {0}) /\ hits \in SUBSET Nat
  BY <1>1
<1>4. RegistryNow(kind) = IF registry[kind] # 0 THEN registry[kind]
                          ELSE IF hits = {} THEN 0 ELSE Min(hits)
  BY DEF RegistryNow
<1>5. registry[kind] # 0 => registry[kind] \in Registry(kind)
  BY DEF RegistryKept
<1> HIDE DEF hits
<1>6. \A i \in Registry(kind) : Registry(kind) = {i} /\ i \in Nat /\ i # 0
  <2> TAKE i \in Registry(kind)
  <2>1. i \in hits /\ \A j \in hits : i <= j
    BY <1>2
  <2>2. \A j \in Registry(kind) : j \in hits /\ j <= i
    BY <1>2, <2>1
  <2>3. \A j \in Registry(kind) : j = i
    BY <1>3, <2>1, <2>2
  <2> QED BY <1>3, <2>1, <2>3
<1>7. hits # {} => Min(hits) \in Registry(kind)
  BY <1>2, <1>3, MinIs
<1> QED BY <1>2, <1>4, <1>5, <1>6, <1>7

\* get_vendor_name answers with a record of the vendor, or with no name.
LEMMA VendorIsNamed ==
  ASSUME machine \in Machines, RegistryKept, NEW vendor
  PROVE  VendorNamed(vendor, GetVendorName(vendor))
<1> DEFINE k == RegistryNow("pci_vendors")
           name == GetVendorName(vendor)
           known == {r \in UNION {ToSet(machine.modules[j].records) : j \in Registry("pci_vendors")} :
                       r.key = vendor}
<1>1. CASE k = 0
  <2>1. Registry("pci_vendors") = {}
    BY <1>1, RegistryFound
  <2>2. known = {}
    BY <2>1
  <2>3. name = NoName
    BY <1>1 DEF GetVendorName, Record
  <2> QED BY <2>2, <2>3 DEF VendorNamed
<1>2. CASE k # 0
  <2> DEFINE records == machine.modules[k].records
             hits == {i \in DOMAIN records : records[i].key = vendor}
  <2>1. Registry("pci_vendors") = {k}
    BY <1>2, RegistryFound
  <2>2. k \in DOMAIN machine.modules
    BY <2>1 DEF Registry
  <2>3. hits \in SUBSET Nat
    BY <2>2, ModulesAssumption
  <2>4. name = IF hits = {} THEN NoName ELSE records[Min(hits)].name
    BY <1>2 DEF GetVendorName, Record
  <2>5. known = {records[i] : i \in hits}
    BY <2>1 DEF ToSet
  <2> HIDE DEF hits, known, records, k
  <2>6. hits # {} => Min(hits) \in hits
    BY <2>3, MinIs
  <2>7. IF known = {} THEN name = NoName ELSE \E r \in known : name = r.name
    BY <2>4, <2>5, <2>6
  <2> QED BY <2>7 DEF VendorNamed, known
<1> QED BY <1>1, <1>2

\* What an answer to a question about names says, once PCIe is up.
NameTrue(p, what, answer) ==
  LET codes == CodesAt(p)
  IN  /\ answer = Outside <=> Nameless(what, codes)
      /\ what = "class" /\ codes.class \in 0 .. 19 => answer = <<"class", codes.class>>

\* No name in a table is taken for what is outside of it.
LEMMA NamesDiffer ==
  /\ NoName # Outside /\ <<"SATA Controller">> # Outside
  /\ \A table, i : <<table, i>> # Outside
  /\ \A table, c, sc : <<table, c, sc>> # Outside
  /\ \A table, c, sc, pi : <<table, c, sc, pi>> # Outside
BY DEF NoName, Outside

\* The class names are in their table, but for the classes that are not listed.
LEMMA ClassNameInside ==
  ASSUME NEW c \in Nat
  PROVE  /\ ClassName(c) = Outside <=> c < 64 /\ c \notin Classes
         /\ c \in 0 .. 19 => ClassName(c) = <<"class", c>>
<1>1. CASE c < 20
  <2>1. ClassName(c) = <<"class", c>> /\ c \in Classes
    BY <1>1 DEF ClassName, Entry, ClassNameCount, Classes
  <2> QED BY <2>1, NamesDiffer
<1>2. CASE c >= 20 /\ c < 64
  <2>1. ClassName(c) = Outside /\ c \notin Classes
    BY <1>2 DEF ClassName, Entry, ClassNameCount, Classes
  <2> QED BY <1>2, <2>1
<1>3. CASE c >= 64
  <2>1. ClassName(c) = NoName
    BY <1>3 DEF ClassName
  <2>2. ClassName(c) # Outside
    BY <2>1, NamesDiffer
  <2>3. ~(c < 64) /\ c \notin 0 .. 19
    BY <1>3
  <2> QED BY <2>2, <2>3
<1> QED BY <1>1, <1>2, <1>3

\* The names of subclass and programming interface are in their tables, but for the
\* interfaces that two of the tables are too short for.
LEMMA TypeNameInside ==
  ASSUME NEW c \in Nat, NEW sc \in Nat, NEW pi \in Nat
  PROVE  TypeName(c, sc, pi) = Outside <=>
           \/ c < 64 /\ c \notin Classes
           \/ <<c, sc>> \in {<<1, 6>>, <<3, 0>>} /\ GetProgifName(c, sc, pi) = NoName
<1>1. GetSubclassName(c, sc) # Outside
  BY NamesDiffer DEF GetSubclassName
<1>2. CASE c = 1
  <2>1. CASE sc = 6 /\ pi < 3
    <3>1. TypeName(c, sc, pi) = <<"sata", pi>> /\ GetProgifName(c, sc, pi) = <<"progif", c, sc, pi>>
      BY <1>2, <2>1 DEF TypeName, Entry, GetProgifName
    <3>2. <<"progif", c, sc, pi>> # NoName
      BY DEF NoName
    <3>3. c \in Classes
      BY <1>2 DEF Classes
    <3> QED BY <3>1, <3>2, <3>3, NamesDiffer
  <2>2. CASE sc = 6 /\ pi >= 3
    <3>1. TypeName(c, sc, pi) = Outside /\ GetProgifName(c, sc, pi) = NoName
      BY <1>2, <2>2 DEF TypeName, Entry, GetProgifName
    <3> QED BY <1>2, <2>2, <3>1
  <2>3. CASE sc # 6
    <3>1. TypeName(c, sc, pi) = IF sc = 6 THEN Entry("sata", pi, 3) ELSE <<"SATA Controller">>
      BY <1>2 DEF TypeName
    <3>2. c \in Classes
      BY <1>2 DEF Classes
    <3>3. TypeName(c, sc, pi) # Outside
      BY <2>3, <3>1, NamesDiffer
    <3> QED BY <1>2, <2>3, <3>2, <3>3
  <2> QED BY <2>1, <2>2, <2>3
<1>3. CASE c = 3
  <2>1. CASE sc = 0 /\ pi < 2
    <3>1. TypeName(c, sc, pi) = <<"vga", pi>> /\ GetProgifName(c, sc, pi) = <<"progif", c, sc, pi>>
      BY <1>3, <2>1 DEF TypeName, Entry, GetProgifName
    <3>2. <<"progif", c, sc, pi>> # NoName
      BY DEF NoName
    <3>3. c \in Classes
      BY <1>3 DEF Classes
    <3> QED BY <3>1, <3>2, <3>3, NamesDiffer
  <2>2. CASE sc = 0 /\ pi >= 2
    <3>1. TypeName(c, sc, pi) = Outside /\ GetProgifName(c, sc, pi) = NoName
      BY <1>3, <2>2 DEF TypeName, Entry, GetProgifName
    <3> QED BY <1>3, <2>2, <3>1
  <2>3. CASE sc # 0
    <3>1. TypeName(c, sc, pi) # Outside
      BY <1>1, <1>3, <2>3 DEF TypeName
    <3>2. c \in Classes
      BY <1>3 DEF Classes
    <3> QED BY <1>3, <2>3, <3>1, <3>2
  <2> QED BY <2>1, <2>2, <2>3
<1>4. CASE c = 12
  <2> DEFINE k == pi \div 16
  <2>1. k \in Nat
    BY DivMod
  <2> HIDE DEF k
  <2>2. CASE sc # 3
    BY <1>1, <1>4, <2>2 DEF TypeName, Classes
  <2>3. CASE sc = 3 /\ k > 3
    <3>1. GetProgifName(c, sc, k * 16) # Outside
      <4> DEFINE n == k * 16
      <4>1. <<"progif", c, sc, n>> # Outside /\ NoName # Outside
        BY NamesDiffer
      <4>2. GetProgifName(c, sc, n) = <<"progif", c, sc, n>> \/ GetProgifName(c, sc, n) = NoName
        BY DEF GetProgifName
      <4> HIDE DEF n
      <4> QED BY <4>1, <4>2 DEF n
    <3>2. TypeName(c, sc, pi) = GetProgifName(c, sc, k * 16)
      BY <1>4, <2>3 DEF TypeName, k
    <3> QED BY <1>4, <3>1, <3>2 DEF Classes
  <2>4. CASE sc = 3 /\ ~(k > 3)
    <3>1. TypeName(c, sc, pi) = Entry("usb", k, 4)
      BY <1>4, <2>4 DEF TypeName, k
    <3>2. k < 4
      BY <2>1, <2>4
    <3>3. Entry("usb", k, 4) = <<"usb", k>>
      BY <3>2 DEF Entry
    <3>4. TypeName(c, sc, pi) # Outside
      BY <3>1, <3>3, NamesDiffer
    <3> QED BY <1>4, <3>4 DEF Classes
  <2> QED BY <2>2, <2>3, <2>4
<1>5. CASE c \notin {1, 3, 12}
  <2>1. TypeName(c, sc, pi) = ClassName(c)
    BY <1>5 DEF TypeName
  <2> QED BY <1>5, <2>1, ClassNameInside
<1> QED BY <1>2, <1>3, <1>4, <1>5

\* The names of a function that memory reaches.
LEMMA NameAnswers ==
  ASSUME machine \in Machines, pcie.initialized, NEW p \in Places, ~Unreached(p)
  PROVE  NameTrue(p, "class", PciGetClassname(p)) /\ NameTrue(p, "type", PciGetTypename(p))
<1> DEFINE codes == CodesAt(p)
<1>1. codes.class \in 0 .. 255 /\ codes.subclass \in 0 .. 255 /\ codes.prog_if \in 0 .. 255
  <2> DEFINE h == HeaderAt(PcieGetDevice(p))
  <2>1. h \in Header
    BY HeaderAtType
  <2> HIDE DEF h
  <2>2. codes = [class |-> h.class, subclass |-> h.subclass, prog_if |-> h.prog_if]
    BY DEF CodesAt, h
  <2>3. h.class \in Byte /\ h.subclass \in Byte /\ h.prog_if \in Byte
    BY <2>1 DEF Header
  <2> QED BY <2>2, <2>3 DEF Byte
<1>2. codes.class \in Nat /\ codes.subclass \in Nat /\ codes.prog_if \in Nat
  BY <1>1
<1>3. PciGetClassname(p) = ClassName(codes.class)
  BY DEF PciGetClassname
<1>4. PciGetTypename(p) = TypeName(codes.class, codes.subclass, codes.prog_if)
  BY DEF PciGetTypename
<1> HIDE DEF codes
<1>5. NameTrue(p, "class", PciGetClassname(p))
  BY <1>2, <1>3, ClassNameInside DEF NameTrue, Nameless, codes
<1>6. NameTrue(p, "type", PciGetTypename(p))
  BY <1>2, <1>4, TypeNameInside DEF NameTrue, Nameless, codes
<1> QED BY <1>5, <1>6

-----------------------------------------------------------------------------
(***************************************************************************)
(* The invariant.                                                          *)
(***************************************************************************)
BeforeScan == {"drivers", "acpi", "lai", "enumerate", "acpi over"}
AfterInit == {"scan", "up", "up over"}
Ended == {"acpi over", "up over"}

Found(p) == PcieGetDevice(p) # NULL /\ Present(HeaderAt(PcieGetDevice(p)))

\* What is known of a function that was handed to the drivers.
GivenTrue(g) ==
  /\ g.at \in Places
  /\ TakerFits(HeaderAt(g.page), g.refusing, g.driver)
  /\ VendorNamed(HeaderAt(g.page).vendor, g.vendor)

HandedTrue == handed \in Seq(Range(handed)) /\ \A i \in DOMAIN handed : GivenTrue(handed[i])

\* The functions that the scan has handed over are those it has passed and
\* found, in their order.
FoundSoFar ==
  /\ next \in Nat /\ next <= BusCount * PerBus
  /\ {handed[i].at : i \in DOMAIN handed} = {p \in Places : Index(p) < next /\ Found(p)}
  /\ \A i, j \in DOMAIN handed : i < j => Index(handed[i].at) < Index(handed[j].at)

NamesAnswered ==
  boot = "up over" /\ last.what \in {"class", "type"} /\ ~Unreached(last.arg) =>
    NameTrue(last.arg, last.what, last.answer)

Stages ==
  /\ boot # "drivers" => Len(drivers) = Len(Constructors)
  /\ boot \in BeforeScan => pcie = PcieInitialState /\ handed = <<>> /\ next = 0
  /\ boot \in AfterInit => pcie = PcieStored(machine.mcfg)
  /\ boot = "up" => next = BusCount * PerBus
  /\ boot \notin Ended => last.what = "none"

BusInv ==
  /\ machine \in Machines
  /\ DriversOrdered
  /\ Stages
  /\ RegistryKept
  /\ HandedTrue
  /\ FoundSoFar
  /\ NamesAnswered
  /\ SearchCounts

\* What memory shows depends on the machine and the regions only.
LEMMA MemoryKept ==
  ASSUME machine' = machine, pcie' = pcie
  PROVE  /\ \A p : PcieGetDevice(p)' = PcieGetDevice(p)
         /\ \A page : HeaderAt(page)' = HeaderAt(page)
         /\ \A p : Found(p)' = Found(p)
         /\ \A p : Function(SegmentAt(p), p)' = Function(SegmentAt(p), p)
         /\ \A p : Unreached(p)' = Unreached(p) /\ (pcie.initialized => CodesAt(p)' = CodesAt(p))
<1>1. \A p : PcieGetDevice(p)' = PcieGetDevice(p)
  BY DEF PcieGetDevice
<1>2. \A s, p : Function(s, p)' = Function(s, p)
  BY DEF Function
<1>3. \A page : HeaderAt(page)' = HeaderAt(page)
  BY DEF HeaderAt, Function
<1>4. \A p : Found(p)' = Found(p)
  BY <1>1, <1>3 DEF Found
<1>5. \A p : Function(SegmentAt(p), p)' = Function(SegmentAt(p), p)
  BY DEF SegmentAt, SegmentOf, Function
<1>6. \A p : Unreached(p)' = Unreached(p)
  BY <1>1 DEF Unreached
<1>7. \A p : pcie.initialized => CodesAt(p)' = CodesAt(p)
  BY <1>1, <1>3 DEF CodesAt
<1> QED BY <1>1, <1>3, <1>4, <1>5, <1>6, <1>7

\* So do the facts about what was handed over.
LEMMA HandedKept ==
  ASSUME HandedTrue, machine' = machine, pcie' = pcie, handed' = handed
  PROVE  HandedTrue'
<1>1. \A g : GivenTrue(g) => GivenTrue(g)'
  <2>1. \A page : HeaderAt(page)' = HeaderAt(page)
    BY MemoryKept
  <2>2. \A v, n : VendorNamed(v, n)' = VendorNamed(v, n)
    BY DEF VendorNamed, Registry
  <2> QED BY <2>1, <2>2 DEF GivenTrue
<1> QED BY <1>1 DEF HandedTrue

\* What the scan has handed over stays true while the machine does not change.
LEMMA FoundKept ==
  ASSUME FoundSoFar, machine' = machine, pcie' = pcie, handed' = handed, next' = next
  PROVE  FoundSoFar'
<1>1. \A p : Found(p)' = Found(p)
  BY MemoryKept
<1> QED BY <1>1 DEF FoundSoFar

\* A search for a registry finds the first, or keeps what it had.
LEMMA RegistrySearched ==
  ASSUME machine \in Machines, RegistryKept, machine' = machine,
         NEW kinds \in SUBSET {"pci_vendors", "pci_devices"},
         UNCHANGED registry \/ Searched(kinds)
  PROVE  RegistryKept'
<1>1. \A kind : Registry(kind)' = Registry(kind)
  BY DEF Registry
<1>2. CASE UNCHANGED registry
  BY <1>1, <1>2 DEF RegistryKept
<1>3. CASE Searched(kinds)
  <2> DEFINE K == {"pci_vendors", "pci_devices"}
  <2>1. DOMAIN registry = K
    BY DEF RegistryKept
  <2>2. registry' = [k \in K |-> IF k \in kinds THEN RegistryNow(k) ELSE registry[k]]
    BY <1>3, <2>1 DEF Searched
  <2> HIDE DEF K
  <2>3. \A k \in K : registry'[k] = RegistryNow(k) \/ registry'[k] = registry[k]
    BY <2>2
  <2>4. \A k \in K : /\ RegistryNow(k) \in Nat
                     /\ RegistryNow(k) # 0 => RegistryNow(k) \in Registry(k)
    BY RegistryFound DEF K
  <2>5. \A k \in K : registry[k] \in Nat /\ (registry[k] # 0 => registry[k] \in Registry(k))
    BY DEF RegistryKept, K
  <2>6. registry' \in [K -> Nat]
    BY <2>2, <2>4, <2>5
  <2> QED BY <1>1, <2>3, <2>4, <2>5, <2>6 DEF RegistryKept, K
<1> QED BY <1>2, <1>3

-----------------------------------------------------------------------------
(***************************************************************************)
(* The invariant holds at first, and every step keeps it.                  *)
(***************************************************************************)
LEMMA InitInv == Init => BusInv
<1> SUFFICES ASSUME Init PROVE BusInv
  OBVIOUS
<1>1. machine \in Machines /\ Stages
  BY ConstructorType DEF Init, Stages, BeforeScan, AfterInit, Ended
<1>2. DriversOrdered
  BY ConstructorType DEF Init, DriversOrdered
<1>3. RegistryKept
  BY DEF Init, RegistryKept
<1>4. HandedTrue
  BY DEF Init, HandedTrue
<1>5. FoundSoFar
  <2>1. next = 0 /\ DOMAIN handed = {}
    BY DEF Init
  <2>2. \A p \in Places : ~(Index(p) < 0)
    BY IndexType
  <2> QED BY <2>1, <2>2, Sizes DEF FoundSoFar
<1>6. NamesAnswered /\ SearchCounts
  BY DEF Init, NamesAnswered, SearchCounts
<1> QED BY <1>1, <1>2, <1>3, <1>4, <1>5, <1>6 DEF BusInv

\* There is no wrong answer without a question.
LEMMA NoQuestion ==
  ASSUME last' = last, last.what = "none"
  PROVE  NamesAnswered' /\ SearchCounts'
BY DEF NamesAnswered, SearchCounts

\* What a step that leaves the scan alone keeps.
LEMMA ScanKept ==
  ASSUME BusInv, machine' = machine, pcie' = pcie, handed' = handed, next' = next
  PROVE  machine' \in Machines /\ HandedTrue' /\ FoundSoFar'
BY HandedKept, FoundKept DEF BusInv

\* A step of the ACPI tables or the interpreter moves the boot only.
LEMMA RunInv ==
  ASSUME BusInv, RunAcpi \/ RunLai
  PROVE  BusInv'
<1>1. /\ UNCHANGED <<machine, pcie, registry, drivers, next, handed, last>>
      /\ boot \in {"acpi", "lai"} /\ boot' \in {"lai", "enumerate", "panic", "fault"}
  BY DEF RunAcpi, RunLai, AcpiInit, AcpiInitPanics, LaihostScan, LaiDone, Panic, Fault
<1>2. machine' \in Machines /\ HandedTrue' /\ FoundSoFar'
  BY <1>1, ScanKept
<1>3. Stages'
  BY <1>1 DEF BusInv, Stages, BeforeScan, AfterInit, Ended
<1>4. last.what = "none"
  BY <1>1 DEF BusInv, Stages, Ended
<1>5. NamesAnswered' /\ SearchCounts'
  BY <1>1, <1>4, NoQuestion
<1>6. RegistryKept'
  BY <1>1, RegistrySearched DEF BusInv
<1>7. DriversOrdered'
  BY <1>1 DEF BusInv, DriversOrdered
<1> QED BY <1>2, <1>3, <1>5, <1>6, <1>7 DEF BusInv

\* devman puts each driver in front of those it has (devman_register_driver).
LEMMA AddDriversInv ==
  ASSUME BusInv, DevmanAddDrivers
  PROVE  BusInv'
<1>1. /\ UNCHANGED <<machine, pcie, registry, next, handed, last>>
      /\ boot = "drivers" /\ boot' \in {"drivers", "acpi"}
  BY DEF DevmanAddDrivers
<1>2. machine' \in Machines /\ HandedTrue' /\ FoundSoFar'
  BY <1>1, ScanKept
<1>3. last.what = "none"
  BY <1>1 DEF BusInv, Stages, Ended
<1>4. NamesAnswered' /\ SearchCounts'
  BY <1>1, <1>3, NoQuestion
<1>5. RegistryKept'
  BY <1>1, RegistrySearched DEF BusInv
<1> DEFINE n == Len(drivers)
           m == Len(Constructors)
<1>6. /\ m \in Nat /\ DOMAIN Constructors = 1 .. m
      /\ \A i \in 1 .. m : Constructors[i] \in DriverType
  BY ConstructorType
<1>7. /\ n \in Nat /\ n <= m /\ drivers \in Seq(DriverType) /\ DOMAIN drivers = 1 .. n
      /\ \A i \in 1 .. n : drivers[i] = Constructors[n + 1 - i]
  BY DEF BusInv, DriversOrdered
<1>8. CASE n < m
  <2> DEFINE d == Constructors[n + 1]
  <2>1. drivers' = <<d>> \o drivers /\ boot' = "drivers"
    BY <1>1, <1>8 DEF DevmanAddDrivers
  <2>2. d \in DriverType
    BY <1>6, <1>7, <1>8
  <2> HIDE DEF n, m, DriverType
  <2>3. drivers' \in Seq(DriverType) /\ Len(drivers') = n + 1
    BY <1>7, <2>1, <2>2 DEF n
  <2>4. \A i \in 1 .. n + 1 : drivers'[i] = IF i = 1 THEN d ELSE drivers[i - 1]
    <3>1. <<d>> \in Seq(DriverType) /\ Len(<<d>>) = 1 /\ <<d>>[1] = d /\ Len(drivers) = n
      BY <2>2 DEF n
    <3> HIDE DEF d
    <3> QED BY <1>7, <2>1, <3>1, ConcatProperties
  <2>5. \A i \in 1 .. n + 1 : drivers'[i] = Constructors[n + 1 + 1 - i]
    <3> TAKE i \in 1 .. n + 1
    <3>1. CASE i = 1
      BY <1>7, <2>4, <3>1
    <3>2. CASE i # 1
      <4>1. i - 1 \in 1 .. n /\ n + 1 - (i - 1) = n + 1 + 1 - i
        BY <1>7, <3>2
      <4>2. drivers[i - 1] = Constructors[n + 1 + 1 - i]
        BY <1>7, <4>1
      <4> QED BY <2>4, <3>2, <4>2
    <3> QED BY <3>1, <3>2
  <2>6. n + 1 <= m
    BY <1>6, <1>7, <1>8
  <2>7. DOMAIN drivers' = 1 .. n + 1
    BY <2>3
  <2>8. DriversOrdered'
    BY <2>3, <2>5, <2>6, <2>7 DEF DriversOrdered, m
  <2>9. Stages'
    BY <1>1, <2>1 DEF BusInv, Stages, BeforeScan, AfterInit, Ended
  <2> QED BY <1>2, <1>4, <1>5, <2>8, <2>9 DEF BusInv
<1>9. CASE ~(n < m)
  <2>1. UNCHANGED drivers /\ boot' = "acpi"
    BY <1>9 DEF DevmanAddDrivers
  <2>2. Len(drivers') = Len(Constructors)
    <3>1. n \in Nat /\ m \in Nat /\ n <= m
      BY <1>6, <1>7
    <3> HIDE DEF n, m
    <3>2. n = m
      BY <1>9, <3>1
    <3> QED BY <2>1, <3>2 DEF n, m
  <2>3. Stages'
    BY <1>1, <2>1, <2>2 DEF BusInv, Stages, BeforeScan, AfterInit, Ended
  <2>4. DriversOrdered'
    BY <2>1 DEF BusInv, DriversOrdered
  <2> QED BY <1>2, <1>4, <1>5, <2>3, <2>4 DEF BusInv
<1> QED BY <1>8, <1>9

\* pcie_init takes the segments from the table, or the kernel stops.
LEMMA PcieInitInv ==
  ASSUME BusInv, PcieInit
  PROVE  BusInv'
<1>1. /\ UNCHANGED <<machine, registry, drivers, next, handed, last>>
      /\ boot = "enumerate"
      /\ \/ boot' = "panic" /\ pcie' = pcie
         \/ boot' = "scan" /\ pcie' = PcieStored(machine.mcfg)
  BY DEF PcieInit, Panic
<1>2. handed = <<>> /\ next = 0 /\ last.what = "none"
  BY <1>1 DEF BusInv, Stages, BeforeScan, Ended
<1>3. machine' \in Machines /\ DriversOrdered'
  BY <1>1 DEF BusInv, DriversOrdered
<1>4. Stages'
  BY <1>1, <1>2 DEF BusInv, Stages, BeforeScan, AfterInit, Ended
<1>5. NamesAnswered' /\ SearchCounts'
  BY <1>1, <1>2, NoQuestion
<1>6. RegistryKept'
  BY <1>1, RegistrySearched DEF BusInv
<1>7. handed' = <<>> /\ next' = 0
  BY <1>1, <1>2
<1>8. HandedTrue'
  BY <1>7 DEF HandedTrue
<1>9. FoundSoFar'
  <2>1. \A p \in Places : ~(Index(p) < 0)
    BY IndexType
  <2> QED BY <1>7, <2>1, Sizes DEF FoundSoFar
<1> QED BY <1>3, <1>4, <1>5, <1>6, <1>8, <1>9 DEF BusInv

\* The scan ends when every place was looked at.
LEMMA InitDoneInv ==
  ASSUME BusInv, PcieInitDone
  PROVE  BusInv'
<1>1. /\ UNCHANGED <<machine, pcie, registry, drivers, next, handed, last>>
      /\ boot = "scan" /\ boot' = "up" /\ next = BusCount * PerBus
  BY DEF PcieInitDone
<1>2. machine' \in Machines /\ HandedTrue' /\ FoundSoFar'
  BY <1>1, ScanKept
<1>3. Stages'
  BY <1>1 DEF BusInv, Stages, BeforeScan, AfterInit, Ended
<1>4. last.what = "none"
  BY <1>1 DEF BusInv, Stages, Ended
<1>5. NamesAnswered' /\ SearchCounts'
  BY <1>1, <1>4, NoQuestion
<1>6. RegistryKept'
  BY <1>1, RegistrySearched DEF BusInv
<1>7. DriversOrdered'
  BY <1>1 DEF BusInv, DriversOrdered
<1> QED BY <1>2, <1>3, <1>5, <1>6, <1>7 DEF BusInv

\* A function that the scan finds is handed over once, and fits who takes it.
LEMMA ScanFunctionInv ==
  ASSUME BusInv, ScanFunction
  PROVE  BusInv'
<1> DEFINE p == PlaceOf(next)
           page == PcieGetDevice(p)
           h == HeaderAt(page)
<1>1. /\ UNCHANGED <<machine, boot, pcie, drivers, last>>
      /\ boot = "scan" /\ next < BusCount * PerBus /\ next' = next + 1
  BY DEF ScanFunction
<1>2. next \in Nat /\ p \in Places /\ Index(p) = next
  BY <1>1, PlaceOfIndex DEF BusInv, FoundSoFar
<1>3. last.what = "none"
  BY <1>1 DEF BusInv, Stages, Ended
<1>4. NamesAnswered' /\ SearchCounts'
  BY <1>1, <1>3, NoQuestion
<1>5. machine' \in Machines /\ DriversOrdered'
  BY <1>1 DEF BusInv, DriversOrdered
<1>6. Stages'
  BY <1>1 DEF BusInv, Stages, BeforeScan, AfterInit, Ended
<1>7. \A q : Found(q)' = Found(q)
  BY <1>1, MemoryKept
<1>8. \A q \in Places : Index(q) < next + 1 <=> Index(q) < next \/ q = p
  <2> TAKE q \in Places
  <2>1. Index(q) \in Nat
    BY IndexType
  <2>2. Index(q) = next => q = p
    BY <1>2, IndexInjective
  <2> HIDE DEF p
  <2> QED BY <1>2, <2>1, <2>2
<1>9. next + 1 \in Nat /\ next + 1 <= BusCount * PerBus
  BY <1>1, <1>2, Sizes
<1>10. Found(p) <=> page # NULL /\ Present(h)
  BY DEF Found
<1>11. CASE ~Found(p)
  <2>1. UNCHANGED <<handed, registry>>
    BY <1>10, <1>11 DEF ScanFunction
  <2>2. HandedTrue'
    BY <1>1, <2>1, HandedKept DEF BusInv
  <2>3. RegistryKept'
    BY <1>1, <2>1, RegistrySearched DEF BusInv
  <2>4. {q \in Places : Index(q) < next + 1 /\ Found(q)} = {q \in Places : Index(q) < next /\ Found(q)}
    BY <1>8, <1>11
  <2> HIDE DEF p
  <2>5. FoundSoFar'
    BY <1>1, <1>7, <1>9, <2>1, <2>4 DEF BusInv, FoundSoFar
  <2> QED BY <1>4, <1>5, <1>6, <2>2, <2>3, <2>5 DEF BusInv
<1>12. CASE Found(p)
  <2>1. PICK refusing \in SUBSET {i \in DOMAIN drivers : Fits(drivers[i], h)} :
          handed' = Append(handed, [at |-> p, page |-> page, refusing |-> refusing,
                                    driver |-> Taker(h, refusing),
                                    vendor |-> PciGetVendorName(p),
                                    device |-> PciGetDeviceName(p)])
    BY <1>10, <1>12 DEF ScanFunction
  <2>2. Searched({"pci_vendors", "pci_devices"})
    BY <1>10, <1>12 DEF ScanFunction
  <2>3. RegistryKept'
    BY <1>1, <2>2, RegistrySearched DEF BusInv
  <2> DEFINE g == [at |-> p, page |-> page, refusing |-> refusing,
                   driver |-> Taker(h, refusing),
                   vendor |-> PciGetVendorName(p),
                   device |-> PciGetDeviceName(p)]
             n == Len(handed)
  <2>4. h \in Header
    BY HeaderAtType DEF BusInv
  <2>5. TakerFits(h, refusing, Taker(h, refusing))
    <3>1. AllRegistered
      BY <1>1 DEF BusInv, Stages, AllRegistered
    <3> QED BY <2>4, <3>1, TakerTakes
  <2>6. VendorNamed(h.vendor, PciGetVendorName(p))
    <3>1. pcie.initialized
      BY <1>1 DEF BusInv, Stages, AfterInit, PcieStored
    <3>2. ~Unreached(p)
      BY <1>10, <1>12 DEF Unreached
    <3>3. VendorDevice(p)[1] = h.vendor
      BY <3>1 DEF VendorDevice
    <3>4. PciGetVendorName(p) = GetVendorName(h.vendor)
      BY <3>2, <3>3 DEF PciGetVendorName
    <3> QED BY <3>4, VendorIsNamed DEF BusInv
  <2>7. GivenTrue(g)
    <3>1. /\ g.at = p /\ g.page = page /\ g.refusing = refusing
          /\ g.driver = Taker(h, refusing) /\ g.vendor = PciGetVendorName(p)
      OBVIOUS
    <3> HIDE DEF g
    <3> QED BY <1>2, <2>5, <2>6, <3>1 DEF GivenTrue
  <2>8. g.at = p /\ handed' = Append(handed, g)
    BY <2>1
  <2>9. \A x : GivenTrue(x) => GivenTrue(x)'
    <3>1. \A x : HeaderAt(x)' = HeaderAt(x)
      BY <1>1, MemoryKept
    <3>2. \A v, m : VendorNamed(v, m)' = VendorNamed(v, m)
      BY <1>1 DEF VendorNamed, Registry
    <3> QED BY <3>1, <3>2 DEF GivenTrue
  <2> HIDE DEF g, p, page, h
  <2>10. /\ handed \in Seq(Range(handed)) /\ n \in Nat /\ DOMAIN handed = 1 .. n
         /\ \A i \in 1 .. n : GivenTrue(handed[i])
    BY DEF BusInv, HandedTrue
  <2> DEFINE S == Range(handed) \cup {g}
  <2> HIDE DEF n
  <2>11. handed \in Seq(S) /\ g \in S /\ Len(handed) = n
    <3>1. handed \in [1 .. n -> Range(handed)]
      BY <2>10 DEF n
    <3>2. handed \in [1 .. n -> S]
      BY <3>1
    <3> HIDE DEF S
    <3>3. handed \in Seq(S)
      BY <2>10, <3>2, SeqDef
    <3> QED BY <3>3 DEF S, n
  <2> HIDE DEF S
  <2>12. /\ Len(handed') = n + 1 /\ DOMAIN handed' = 1 .. n + 1
         /\ handed'[n + 1] = g
         /\ \A i \in 1 .. n : handed'[i] = handed[i]
    BY <2>8, <2>10, <2>11, AppendProperties
  <2>13. HandedTrue'
    <3>1. handed' \in Seq(Range(handed'))
      <4> DEFINE T == Range(handed')
      <4>1. \A i \in 1 .. n + 1 : handed'[i] \in T
        BY <2>12 DEF Range
      <4>2. handed' \in Seq(S)
        BY <2>8, <2>11
      <4>3. handed' = [i \in 1 .. n + 1 |-> handed'[i]]
        BY <2>12, <4>2
      <4> HIDE DEF T
      <4>4. handed' \in [1 .. n + 1 -> T]
        BY <4>1, <4>3
      <4>5. n + 1 \in Nat
        BY <2>10
      <4> QED BY <4>4, <4>5, SeqDef DEF T
    <3>2. \A i \in 1 .. n + 1 : GivenTrue(handed'[i])
      BY <2>7, <2>10, <2>12
    <3>3. \A i \in DOMAIN handed' : GivenTrue(handed[i])'
      BY <2>9, <2>12, <3>2
    <3> QED BY <3>1, <3>3 DEF HandedTrue
  <2>14. {handed'[i].at : i \in DOMAIN handed'} = {handed[i].at : i \in DOMAIN handed} \cup {p}
    BY <2>8, <2>10, <2>12
  <2>15. {handed[i].at : i \in DOMAIN handed} = {q \in Places : Index(q) < next /\ Found(q)}
    BY DEF BusInv, FoundSoFar
  <2>16. {handed'[i].at : i \in DOMAIN handed'} = {q \in Places : Index(q) < next + 1 /\ Found(q)}
    BY <1>2, <1>8, <1>12, <2>14, <2>15
  <2>17. \A i, j \in DOMAIN handed' : i < j => Index(handed'[i].at) < Index(handed'[j].at)
    <3> SUFFICES ASSUME NEW i \in 1 .. n + 1, NEW j \in 1 .. n + 1, i < j
                 PROVE  Index(handed'[i].at) < Index(handed'[j].at)
      BY <2>12
    <3>1. i \in 1 .. n
      BY <2>10
    <3>2. CASE j \in 1 .. n
      BY <2>10, <2>12, <3>1, <3>2 DEF BusInv, FoundSoFar
    <3>3. CASE j = n + 1
      <4>1. handed[i].at \in {q \in Places : Index(q) < next /\ Found(q)}
        BY <2>10, <2>15, <3>1
      <4>2. handed'[i].at = handed[i].at /\ handed'[j].at = p
        BY <2>8, <2>12, <3>1, <3>3
      <4> QED BY <1>2, <4>1, <4>2
    <3> QED BY <2>10, <3>2, <3>3
  <2>18. FoundSoFar'
    <3>1. {q \in Places : Index(q) < next' /\ Found(q)'} = {q \in Places : Index(q) < next + 1 /\ Found(q)}
      BY <1>1, <1>7
    <3> QED BY <1>1, <1>9, <2>16, <2>17, <3>1 DEF FoundSoFar
  <2> QED BY <1>4, <1>5, <1>6, <2>3, <2>13, <2>18 DEF BusInv
<1> QED BY <1>11, <1>12

\* What questions before and after the scan meet.
LEMMA BeforeInit ==
  ASSUME BusInv, boot = "acpi"
  PROVE  pcie = PcieInitialState
BY DEF BusInv, Stages, BeforeScan

\* After the scan, the regions are the entries of the table unless their number
\* wraps.
LEMMA AfterScan ==
  ASSUME BusInv, boot \in {"up", "up over"}
  PROVE  pcie.initialized /\ (Len(machine.mcfg) < RegionMod => Stored)
<1>1. boot \in AfterInit
  BY DEF AfterInit
<1>2. pcie = PcieStored(machine.mcfg)
  BY <1>1 DEF BusInv, Stages
<1>3. pcie.initialized
  BY <1>2 DEF PcieStored
<1> QED BY <1>2, <1>3 DEF Stored

\* A question changes the answer, and ends the behaviour.
LEMMA AskedStages ==
  ASSUME BusInv, MayAsk, Over, UNCHANGED <<machine, pcie, drivers, next, handed>>
  PROVE  Stages' /\ DriversOrdered'
<1>1. (boot = "acpi" /\ boot' = "acpi over") \/ (boot = "up" /\ boot' = "up over")
  <2>1. CASE boot = "acpi"
    <3>1. boot # "up"
      BY <2>1
    <3>2. boot' = "acpi over"
      BY <3>1, Zenon DEF Over
    <3> QED BY <2>1, <3>2
  <2>2. CASE boot = "up"
    BY <2>2, Zenon DEF Over
  <2> QED BY <2>1, <2>2, Zenon DEF MayAsk
<1>2. Stages'
  BY <1>1 DEF BusInv, Stages, BeforeScan, AfterInit, Ended
<1> QED BY <1>2 DEF BusInv, DriversOrdered

\* Asking for names keeps the registry that was found.
LEMMA AskNamesInv ==
  ASSUME BusInv, AskNames
  PROVE  BusInv'
<1>1. UNCHANGED <<machine, pcie, drivers, next, handed>> /\ MayAsk /\ Over
  BY DEF AskNames
<1>2. machine' \in Machines /\ HandedTrue' /\ FoundSoFar'
  BY <1>1, ScanKept
<1>3. Stages' /\ DriversOrdered'
  BY <1>1, AskedStages
<1>4. PICK p \in Places : \/ Asked("class", p, PciGetClassname(p)) /\ UNCHANGED registry
                          \/ Asked("subclass", p, PciGetSubclassname(p)) /\ UNCHANGED registry
                          \/ Asked("type", p, PciGetTypename(p)) /\ UNCHANGED registry
                          \/ Asked("vendor", p, PciGetVendorName(p)) /\ Searched({"pci_vendors"})
  BY DEF AskNames
<1>5. UNCHANGED registry \/ Searched({"pci_vendors"})
  BY <1>4
<1>6. RegistryKept'
  BY <1>1, <1>5, RegistrySearched DEF BusInv
<1>7. SearchCounts'
  <2>1. last'.what # "search"
    BY <1>4 DEF Asked
  <2> QED BY <2>1 DEF SearchCounts
<1>8. NamesAnswered'
  <2> SUFFICES ASSUME boot' = "up over", last'.what \in {"class", "type"}, ~Unreached(last.arg)'
               PROVE  NameTrue(last.arg, last.what, last.answer)'
    BY DEF NamesAnswered
  <2>1. last'.arg = p /\ (\/ last'.what = "class" /\ last'.answer = PciGetClassname(p)
                          \/ last'.what = "type" /\ last'.answer = PciGetTypename(p))
    <3>1. last' = [what |-> "class", arg |-> p, answer |-> PciGetClassname(p)]
          \/ last' = [what |-> "subclass", arg |-> p, answer |-> PciGetSubclassname(p)]
          \/ last' = [what |-> "type", arg |-> p, answer |-> PciGetTypename(p)]
          \/ last' = [what |-> "vendor", arg |-> p, answer |-> PciGetVendorName(p)]
      BY <1>4 DEF Asked
    <3>2. CASE last' = [what |-> "class", arg |-> p, answer |-> PciGetClassname(p)]
      BY <3>2
    <3>3. CASE last' = [what |-> "type", arg |-> p, answer |-> PciGetTypename(p)]
      BY <3>3
    <3>4. CASE last' = [what |-> "subclass", arg |-> p, answer |-> PciGetSubclassname(p)]
      BY <3>4
    <3>5. CASE last' = [what |-> "vendor", arg |-> p, answer |-> PciGetVendorName(p)]
      BY <3>5
    <3> QED BY <3>1, <3>2, <3>3, <3>4, <3>5
  <2>2. pcie.initialized
    <3>1. boot = "up"
      BY <1>1, Zenon DEF MayAsk, Over
    <3> QED BY <3>1, AfterScan
  <2>3. \A q : Unreached(q)' = Unreached(q) /\ CodesAt(q)' = CodesAt(q)
    BY <1>1, <2>2, MemoryKept
  <2>4. ~Unreached(p)
    BY <2>1, <2>3
  <2>5. NameTrue(p, "class", PciGetClassname(p)) /\ NameTrue(p, "type", PciGetTypename(p))
    BY <2>2, <2>4, NameAnswers DEF BusInv
  <2>6. NameTrue(p, last'.what, last'.answer)
    BY <2>1, <2>5
  <2>7. \A q, w, a : NameTrue(q, w, a)' = NameTrue(q, w, a)
    BY ZenonT(60), <2>3 DEF NameTrue
  <2> QED BY <2>1, <2>6, <2>7
<1> QED BY <1>2, <1>3, <1>6, <1>7, <1>8 DEF BusInv

\* A search answers with a function that has the ids, or the kernel faults.
LEMMA AskSearchInv ==
  ASSUME BusInv, AskSearch
  PROVE  BusInv'
<1>1. UNCHANGED <<machine, pcie, registry, drivers, next, handed>> /\ MayAsk
  BY DEF AskSearch
<1>2. machine' \in Machines /\ HandedTrue' /\ FoundSoFar'
  BY <1>1, ScanKept
<1>3. RegistryKept'
  BY <1>1, RegistrySearched DEF BusInv
<1>4. last.what = "none" /\ boot \in {"acpi", "up"}
  BY <1>1 DEF MayAsk, BusInv, Stages, Ended
<1>5. CASE Fault /\ UNCHANGED last
  <2>1. boot' = "fault"
    BY <1>5 DEF Fault
  <2>2. NamesAnswered' /\ SearchCounts'
    BY <1>4, <1>5, NoQuestion
  <2>3. Stages'
    BY <1>1, <1>4, <1>5, <2>1 DEF BusInv, Stages, BeforeScan, AfterInit, Ended
  <2>4. DriversOrdered'
    BY <1>1 DEF BusInv, DriversOrdered
  <2> QED BY <1>2, <1>3, <2>2, <2>3, <2>4 DEF BusInv
<1>6. ASSUME NEW s \in Searches, EveryPageKnown, Over,
             Asked("search", s, PciSearch(s.ids, s.number)) \/ Asked("count", s, PciGetCount(s.ids))
      PROVE  BusInv'
  <2>1. Stages' /\ DriversOrdered'
    BY <1>1, <1>6, AskedStages
  <2>2. NamesAnswered'
    <3>1. last'.what \notin {"class", "type"}
      BY <1>6 DEF Asked
    <3> QED BY <3>1 DEF NamesAnswered
  <2>3. SearchCounts'
    <3> SUFFICES ASSUME last'.what = "search",
                        pcie'.initialized => Len(machine'.mcfg) < RegionMod
                 PROVE  SearchTrue(last.arg.ids, last.arg.number, last.answer)'
      BY DEF SearchCounts, SearchTrue, Having, SegmentAt
    <3>1. /\ last'.arg = s /\ last'.answer = PciSearch(s.ids, s.number)
      BY <1>6 DEF Asked
    <3>7. pcie.initialized => Len(machine.mcfg) < RegionMod
      BY <1>1
    <3>2. pcie = PcieInitialState \/ Stored
      BY <1>1, <1>4, <3>7, AfterScan, BeforeInit
    <3>3. s.number \in Nat
      BY SearchesAssumption
    <3>4. SearchTrue(s.ids, s.number, PciSearch(s.ids, s.number))
      BY <1>6, <3>2, <3>3, SearchAnswers DEF BusInv
    <3>5. \A p : Function(SegmentAt(p), p)' = Function(SegmentAt(p), p)
      BY <1>1, MemoryKept
    <3>6. \A ids, number, answer : SearchTrue(ids, number, answer)' = SearchTrue(ids, number, answer)
      <4>1. \A ids : Having(ids)' = Having(ids)
        BY <3>5 DEF Having
      <4> QED BY <4>1 DEF SearchTrue
    <3> QED BY <3>1, <3>4, <3>6
  <2> QED BY <1>2, <1>3, <2>1, <2>2, <2>3 DEF BusInv
<1> QED BY <1>5, <1>6 DEF AskSearch

\* Every step of the bus keeps the invariant.
LEMMA NextInv ==
  ASSUME BusInv, [Next]_vars
  PROVE  BusInv'
<1>1. CASE DevmanAddDrivers
  BY <1>1, AddDriversInv
<1>2. CASE RunAcpi \/ RunLai
  BY <1>2, RunInv
<1>3. CASE PcieInit
  BY <1>3, PcieInitInv
<1>4. CASE ScanFunction
  BY <1>4, ScanFunctionInv
<1>5. CASE PcieInitDone
  BY <1>5, InitDoneInv
<1>6. CASE AskNames
  BY <1>6, AskNamesInv
<1>7. CASE AskSearch
  BY <1>7, AskSearchInv
<1>8. CASE UNCHANGED vars
  <2>1. UNCHANGED <<machine, boot, pcie, registry, drivers, next, handed, last>>
    BY <1>8 DEF vars
  <2>2. machine' \in Machines /\ HandedTrue' /\ FoundSoFar'
    BY <2>1, ScanKept
  <2>3. Stages' /\ DriversOrdered'
    BY <2>1 DEF BusInv, Stages, DriversOrdered
  <2>4. RegistryKept'
    BY <2>1, RegistrySearched DEF BusInv
  <2>5. SearchCounts'
    <3>1. \A p : Function(SegmentAt(p), p)' = Function(SegmentAt(p), p)
      BY <2>1, MemoryKept
    <3>2. \A ids, number, answer : SearchTrue(ids, number, answer)' = SearchTrue(ids, number, answer)
      <4>1. \A ids : Having(ids)' = Having(ids)
        BY <3>1 DEF Having
      <4> QED BY <4>1 DEF SearchTrue
    <3>3. SearchCounts <=> (last.what = "search" /\ (pcie.initialized => Len(machine.mcfg) < RegionMod)
                              => SearchTrue(last.arg.ids, last.arg.number, last.answer))
      BY DEF SearchCounts, SearchTrue, Having, SegmentAt
    <3>4. SearchCounts' <=> (last'.what = "search" /\ (pcie'.initialized => Len(machine'.mcfg) < RegionMod)
                               => SearchTrue(last.arg.ids, last.arg.number, last.answer)')
      BY DEF SearchCounts, SearchTrue, Having, SegmentAt
    <3> QED BY <2>1, <3>2, <3>3, <3>4 DEF BusInv
  <2>6. NamesAnswered'
    <3> SUFFICES ASSUME boot = "up over" PROVE NamesAnswered'
      BY <2>1 DEF NamesAnswered
    <3>1. pcie.initialized
      BY AfterScan
    <3>2. \A q : Unreached(q)' = Unreached(q) /\ CodesAt(q)' = CodesAt(q)
      BY <2>1, <3>1, MemoryKept
    <3>3. \A q, w, a : NameTrue(q, w, a)' = NameTrue(q, w, a)
      BY ZenonT(60), <3>2 DEF NameTrue
    <3> QED BY <2>1, <3>2, <3>3 DEF BusInv, NamesAnswered
  <2> QED BY <2>2, <2>3, <2>4, <2>5, <2>6 DEF BusInv
<1> QED BY <1>1, <1>2, <1>3, <1>4, <1>5, <1>6, <1>7, <1>8 DEF Next

-----------------------------------------------------------------------------
(***************************************************************************)
(* The theorems.                                                           *)
(***************************************************************************)
THEOREM BusInvariant == Spec => []BusInv
<1>1. Init => BusInv
  BY InitInv
<1>2. BusInv /\ [Next]_vars => BusInv'
  BY NextInv
<1> QED BY <1>1, <1>2, PTL DEF Spec

\* When the scan is over, the drivers were given every function of the first
\* segment of each bus that the MCFG lists, each once and in order (pcie_init).
THEOREM ScanFindsHolds == Spec => []ScanFinds
<1>1. BusInv => ScanFinds
  <2> SUFFICES ASSUME BusInv, boot = "up", Len(machine.mcfg) < RegionMod
               PROVE  /\ {handed[i].at : i \in DOMAIN handed} = {p \in Places : ThereIs(p)}
                      /\ \A i, j \in DOMAIN handed : i < j => Index(handed[i].at) < Index(handed[j].at)
    BY DEF ScanFinds
  <2>1. Stored
    BY DEF BusInv, Stages, AfterInit, Stored
  <2>2. next = BusCount * PerBus
    BY DEF BusInv, Stages
  <2>3. \A p \in Places : Index(p) < next
    BY <2>2, IndexType
  <2>4. \A p \in Places : Found(p) <=> ThereIs(p)
    BY <2>1, MemoryShows DEF BusInv, Found, ThereIs
  <2> QED BY <2>3, <2>4 DEF BusInv, FoundSoFar
<1> QED BY <1>1, BusInvariant, PTL

\* A function is taken by the driver that registered last of those that match
\* it and do not refuse it (devman_handle_pcie_device).
THEOREM DriverFitsHolds == Spec => []DriverFits
<1>1. BusInv => DriverFits
  BY DEF BusInv, HandedTrue, GivenTrue, TakerFits, Values, DriverFits
<1> QED BY <1>1, BusInvariant, PTL

\* Once PCIe is up, names are read from outside of their tables exactly for the
\* classes below 0x40 that are not listed and for the SATA and VGA interfaces
\* that have no name, and the vendor in the log is the one in the registry
\* (pci_get_classname, pci_get_typename, _get_vendor_name).
THEOREM NamesInsideHolds == Spec => []NamesInside
<1>1. BusInv => NamesInside
  BY DEF BusInv, HandedTrue, GivenTrue, VendorNamed, NamesAnswered, NameTrue, NamesInside
<1> QED BY <1>1, BusInvariant, PTL

\* The search for number n of some ids succeeds exactly when n is less than
\* their count, and finds the one with n before it (pci_search).
THEOREM SearchCountsHolds == Spec => []SearchCounts
<1>1. BusInv => SearchCounts
  BY DEF BusInv
<1> QED BY <1>1, BusInvariant, PTL
=============================================================================
