---------------------------- MODULE FilesProofs ----------------------------
(***************************************************************************)
(* Proofs about the file systems and the figures of a display: DevFs, Vfs  *)
(* and Drm.                                                                *)
(***************************************************************************)
EXTENDS DevFs, Numbers, FiniteSetTheorems

-----------------------------------------------------------------------------
(***************************************************************************)
(* The walk down a path.                                                   *)
(***************************************************************************)

\* A set of positions that is not empty has a least one.
LEMMA MinNamed ==
  ASSUME NEW entries, DOMAIN entries \subseteq Nat, NEW name, Named(entries, name) # {}
  PROVE  /\ Min(Named(entries, name)) \in DOMAIN entries
         /\ entries[Min(Named(entries, name))].name = name
<1> DEFINE T == Named(entries, name)
<1>1. T \in SUBSET Nat /\ T # {} /\ \A i \in T : i \in DOMAIN entries /\ entries[i].name = name
  BY DEF Named
<1> HIDE DEF T
<1>2. \E x \in T : \A y \in T : x <= y
  BY <1>1, LeastNumber
<1>3. Min(T) \in T
  BY <1>2 DEF Min
<1> QED BY <1>1, <1>3 DEF T

\* A function on the numbers from 1 to n is a list.
LEMMA ListOf ==
  ASSUME NEW n \in Nat, NEW S, NEW f \in [1 .. n -> S]
  PROVE  f \in Seq(S) /\ DOMAIN f = 1 .. n /\ Len(f) = n
OBVIOUS

\* The walk enters one name after the other (vfs_type).
LEMMA PlacesSteps ==
  ASSUME NEW root, NEW names, NEW n \in Nat, n = Len(names)
  PROVE  /\ Places(root, names)[0] = Spot("dir", root)
         /\ \A i \in 1 .. n : Places(root, names)[i] = Enter(Places(root, names)[i - 1], names[i])
<1> DEFINE Recurs(f) == f = [i \in 0 .. n |-> IF i = 0 THEN Spot("dir", root)
                                              ELSE Enter(f[i - 1], names[i])]
           place == CHOOSE f : Recurs(f)
           Good(g, j) == /\ g = [k \in 0 .. n |-> g[k]] /\ g[0] = Spot("dir", root)
                         /\ \A k \in 1 .. j : g[k] = Enter(g[k - 1], names[k])
           T == {j \in 0 .. n : \E g : Good(g, j)}
<1>1. 0 \in T
  <2> DEFINE g == [k \in 0 .. n |-> Spot("dir", root)]
  <2>1. Good(g, 0)
    OBVIOUS
  <2> HIDE DEF g, Good
  <2> QED BY <2>1
<1>2. ASSUME NEW j \in 0 .. n - 1, j \in T
      PROVE  j + 1 \in T
  <2>1. PICK g : Good(g, j)
    BY <1>2
  <2> DEFINE e == Enter(g[j], names[j + 1])
             h == [k \in 0 .. n |-> IF k = j + 1 THEN e ELSE g[k]]
  <2> HIDE DEF e
  <2>2. j \in 0 .. n /\ j + 1 \in 0 .. n /\ j \in Nat
    BY <1>2
  <2>3. h[j + 1] = e /\ \A k \in 0 .. j : h[k] = g[k]
    BY <2>2
  <2>4. h = [k \in 0 .. n |-> h[k]]
    OBVIOUS
  <2> HIDE DEF h
  <2>5. ASSUME NEW k \in 1 .. j + 1
        PROVE  h[k] = Enter(h[k - 1], names[k])
    <3>1. CASE k = j + 1
      <4>1. k - 1 = j /\ h[j] = g[j]
        BY <2>2, <2>3, <3>1
      <4> QED BY <2>3, <3>1, <4>1 DEF e
    <3>2. CASE k # j + 1
      <4>1. k \in 1 .. j /\ k \in 0 .. j /\ k - 1 \in 0 .. j
        BY <2>2, <3>2
      <4> QED BY <2>1, <2>3, <4>1
    <3> QED BY <3>1, <3>2
  <2>6. h[0] = Spot("dir", root)
    <3>1. 0 \in 0 .. j /\ g[0] = Spot("dir", root)
      BY <2>1, <2>2
    <3> QED BY <2>3, <3>1
  <2>7. Good(h, j + 1)
    BY <2>4, <2>5, <2>6
  <2> HIDE DEF Good
  <2> QED BY <2>2, <2>7
<1> HIDE DEF T
<1>3. n \in T
  BY <1>1, <1>2, InductionTo
<1>4. PICK g : Good(g, n)
  BY <1>3 DEF T
<1>5. Recurs(g)
  <2>1. \A k \in 0 .. n : g[k] = IF k = 0 THEN Spot("dir", root) ELSE Enter(g[k - 1], names[k])
    BY <1>4
  <2> QED BY <1>4, <2>1
<1>6. Recurs(place)
  <2> HIDE DEF Recurs
  <2> QED BY <1>5
<1>7. Places(root, names) = place
  BY DEF Places
<1> HIDE DEF place
<1>8. \A k \in 0 .. n : place[k] = IF k = 0 THEN Spot("dir", root) ELSE Enter(place[k - 1], names[k])
  BY <1>6
<1> QED BY <1>7, <1>8

\* A name that follows a file's leads nowhere, and one that leads nowhere ends
\* the walk.
LEMMA PastFile ==
  ASSUME NEW place, place.kind \in {"file", "none", "wild"}, NEW name
  PROVE  Enter(place, name).kind \in {"none", "wild"}
BY DEF Enter, Spot

\* Every place of a walk is of one of four kinds.
LEMMA EnterKinds ==
  ASSUME NEW place, NEW name, place.kind \in {"dir", "file", "none", "wild"}
  PROVE  Enter(place, name).kind \in {"dir", "file", "none", "wild"}
BY DEF Enter, Spot

\* A walk that has ended at a file or nowhere finds nothing more.
LEMMA WalkEnds ==
  ASSUME NEW root, NEW names, NEW n \in Nat, n = Len(names), NEW m \in 0 .. n,
         Places(root, names)[m].kind \in {"file", "none", "wild"}
  PROVE  \A i \in m + 1 .. n : Places(root, names)[i].kind \in {"none", "wild"}
<1> DEFINE p == Places(root, names)
           T == {j \in 0 .. n : \A i \in m + 1 .. j : p[i].kind \in {"none", "wild"}}
<1>1. \A i \in 1 .. n : p[i] = Enter(p[i - 1], names[i])
  BY PlacesSteps
<1> HIDE DEF p
<1>2. 0 \in T
  OBVIOUS
<1>3. ASSUME NEW j \in 0 .. n - 1, j \in T
      PROVE  j + 1 \in T
  <2>1. j \in Nat /\ j + 1 \in 0 .. n /\ j + 1 \in 1 .. n /\ (j + 1) - 1 = j
    BY <1>3
  <2>2. CASE j + 1 > m
    <3>1. p[j].kind \in {"file", "none", "wild"}
      <4>1. CASE j = m
        BY <4>1 DEF p
      <4>2. CASE j # m
        BY <1>3, <2>1, <2>2, <4>2
      <4> QED BY <4>1, <4>2
    <3>2. p[j + 1].kind \in {"none", "wild"}
      BY <1>1, <2>1, <3>1, PastFile
    <3>3. ASSUME NEW i \in m + 1 .. j + 1
          PROVE  p[i].kind \in {"none", "wild"}
      <4>1. CASE i = j + 1
        BY <3>2, <4>1
      <4>2. CASE i # j + 1
        <5>1. i \in m + 1 .. j
          BY <2>1, <4>2
        <5> QED BY <1>3, <5>1
      <4> QED BY <4>1, <4>2
    <3> QED BY <2>1, <3>3
  <2>3. CASE ~(j + 1 > m)
    <3>1. m + 1 .. j + 1 = {}
      BY <2>1, <2>3
    <3> QED BY <2>1, <3>1
  <2> QED BY <2>2, <2>3
<1> HIDE DEF T
<1>4. 0 .. n \subseteq T
  BY <1>2, <1>3, InductionTo
<1>5. n \in T
  BY <1>4
<1> QED BY <1>5 DEF T, p

\* vfs_find_file succeeds where the walk ends at a file, and only there.
LEMMA FoundWhen ==
  ASSUME NEW path
  PROVE  /\ VfsFindFile(path).code = "E_SUCCESS" =>
              Walk(path).kind = "file" /\ VfsFindFile(path).what = Walk(path).what
         /\ Walk(path).kind = "file" /\ path # <<"">> => VfsFindFile(path).code = "E_SUCCESS"
         /\ VfsFindFile(path).code # Wild /\ path # <<"">> => Walk(path).kind # "wild"
<1> DEFINE place == Walk(path)
           empty == path = <<"">>
<1>1. VfsType(path) = IF empty THEN Found("E_INVOPT", NULL)
                      ELSE IF place.kind = "none" THEN Found("E_NOENT", NULL)
                      ELSE IF place.kind = "wild" THEN Found(Wild, NULL)
                      ELSE Found("E_SUCCESS", place.kind)
  BY DEF VfsType
<1>2. VfsFindFile(path) = IF VfsType(path).code # "E_SUCCESS" THEN VfsType(path)
                          ELSE IF VfsType(path).what # "file" THEN Found("E_NOENT", NULL)
                          ELSE Found("E_SUCCESS", place.what)
  BY DEF VfsFindFile
<1> HIDE DEF place, empty
<1>3. Wild \notin {"E_SUCCESS", "E_NOENT", "E_INVOP", "E_INVOPT"}
  BY VfsAssumption
<1> DEFINE type == VfsType(path)
           found == VfsFindFile(path)
<1>4. /\ empty => type.code = "E_INVOPT"
      /\ ~empty /\ place.kind = "none" => type.code = "E_NOENT"
      /\ ~empty /\ place.kind = "wild" => type.code = Wild
      /\ ~empty /\ place.kind \notin {"none", "wild"} =>
           type.code = "E_SUCCESS" /\ type.what = place.kind
  BY <1>1 DEF Found
<1>5. /\ type.code # "E_SUCCESS" => found = type
      /\ type.code = "E_SUCCESS" /\ type.what # "file" => found.code = "E_NOENT"
      /\ type.code = "E_SUCCESS" /\ type.what = "file" =>
           found.code = "E_SUCCESS" /\ found.what = place.what
  BY <1>2 DEF Found
<1> HIDE DEF type, found
<1>6. found.code = "E_SUCCESS" => place.kind = "file" /\ found.what = place.what
  <2> SUFFICES ASSUME found.code = "E_SUCCESS"
               PROVE  place.kind = "file" /\ found.what = place.what
    OBVIOUS
  <2>1. type.code = "E_SUCCESS" /\ type.what = "file" /\ found.what = place.what
    BY <1>5
  <2>2. ~empty
    BY <1>4, <2>1
  <2> QED BY <1>3, <1>4, <2>1, <2>2
<1>7. place.kind = "file" /\ ~empty => found.code = "E_SUCCESS"
  BY <1>4, <1>5
<1>8. found.code # Wild /\ ~empty => place.kind # "wild"
  BY <1>3, <1>4, <1>5
<1> QED BY <1>6, <1>7, <1>8 DEF place, found, empty

\* The directories of a name in some directories.
Under(dirs, name) ==
  {e.dir : e \in {e \in UNION {ToSet(d.dirs) : d \in dirs} : e.name = name}}

\* The directories that a path leads to, name by name.
LEMMA ReachedSteps ==
  ASSUME NEW root, NEW names, NEW n \in Nat, n = Len(names)
  PROVE  /\ Reached(root, names)[0] = {root}
         /\ \A i \in 1 .. n : Reached(root, names)[i] = Under(Reached(root, names)[i - 1], names[i])
<1> DEFINE Recurs(f) == f = [i \in 0 .. n |-> IF i = 0 THEN {root}
                                              ELSE Under(f[i - 1], names[i])]
           reached == CHOOSE f : Recurs(f)
           Good(g, j) == /\ g = [k \in 0 .. n |-> g[k]] /\ g[0] = {root}
                         /\ \A k \in 1 .. j : g[k] = Under(g[k - 1], names[k])
           T == {j \in 0 .. n : \E g : Good(g, j)}
<1>1. 0 \in T
  <2> DEFINE g == [k \in 0 .. n |-> {root}]
  <2>1. Good(g, 0)
    OBVIOUS
  <2> HIDE DEF g, Good
  <2> QED BY <2>1
<1>2. ASSUME NEW j \in 0 .. n - 1, j \in T
      PROVE  j + 1 \in T
  <2>1. PICK g : Good(g, j)
    BY <1>2
  <2> DEFINE e == Under(g[j], names[j + 1])
             h == [k \in 0 .. n |-> IF k = j + 1 THEN e ELSE g[k]]
  <2> HIDE DEF e
  <2>2. j \in 0 .. n /\ j + 1 \in 0 .. n /\ j \in Nat
    BY <1>2
  <2>3. h[j + 1] = e /\ \A k \in 0 .. j : h[k] = g[k]
    BY <2>2
  <2>4. h = [k \in 0 .. n |-> h[k]]
    OBVIOUS
  <2> HIDE DEF h
  <2>5. ASSUME NEW k \in 1 .. j + 1
        PROVE  h[k] = Under(h[k - 1], names[k])
    <3>1. CASE k = j + 1
      <4>1. k - 1 = j /\ h[j] = g[j]
        BY <2>2, <2>3, <3>1
      <4> QED BY <2>3, <3>1, <4>1 DEF e
    <3>2. CASE k # j + 1
      <4>1. k \in 1 .. j /\ k \in 0 .. j /\ k - 1 \in 0 .. j
        BY <2>2, <3>2
      <4> QED BY <2>1, <2>3, <4>1
    <3> QED BY <3>1, <3>2
  <2>6. h[0] = {root}
    <3>1. 0 \in 0 .. j /\ g[0] = {root}
      BY <2>1, <2>2
    <3> QED BY <2>3, <3>1
  <2>7. Good(h, j + 1)
    BY <2>4, <2>5, <2>6
  <2> HIDE DEF Good
  <2> QED BY <2>2, <2>7
<1> HIDE DEF T
<1>3. n \in T
  BY <1>1, <1>2, InductionTo
<1>4. PICK g : Good(g, n)
  BY <1>3 DEF T
<1>5. Recurs(g)
  <2>1. \A k \in 0 .. n : g[k] = IF k = 0 THEN {root} ELSE Under(g[k - 1], names[k])
    <3> TAKE k \in 0 .. n
    <3>1. CASE k = 0
      BY <1>4, <3>1
    <3>2. CASE k # 0
      <4>1. k \in 1 .. n
        BY <3>2
      <4> QED BY <1>4, <3>2, <4>1
    <3> QED BY <3>1, <3>2
  <2> QED BY <1>4, <2>1
<1>6. Recurs(reached)
  <2> HIDE DEF Recurs
  <2> QED BY <1>5
<1>7. Reached(root, names) = reached
  BY DEF Reached, Under
<1> HIDE DEF reached
<1>8. \A k \in 0 .. n : reached[k] = IF k = 0 THEN {root} ELSE Under(reached[k - 1], names[k])
  BY <1>6
<1> QED BY <1>7, <1>8

\* A set of directories without wild pointers, with what is in them.
Closed(D) ==
  \A d \in D :
    /\ d \notin Stale /\ d.dirs # Wild
    /\ \A s \in {d.dirs, d.files} : DOMAIN s = 1 .. Len(s) /\ Len(s) \in Nat /\ NamesDiffer(s)
    /\ \A i \in DOMAIN d.dirs : d.dirs[i].dir \in D

\* An entry is the only one of its name.
LEMMA OnlyNamed ==
  ASSUME NEW s, DOMAIN s \subseteq Nat, NamesDiffer(s), NEW name
  PROVE  /\ Named(s, name) = {} => {e \in ToSet(s) : e.name = name} = {}
         /\ Named(s, name) # {} => {e \in ToSet(s) : e.name = name} = {s[Min(Named(s, name))]}
<1>1. ToSet(s) = {s[i] : i \in DOMAIN s}
  BY DEF ToSet
<1>2. CASE Named(s, name) = {}
  BY <1>1, <1>2 DEF Named
<1>3. CASE Named(s, name) # {}
  <2> DEFINE m == Min(Named(s, name))
  <2>1. m \in DOMAIN s /\ s[m].name = name
    BY <1>3, MinNamed
  <2> HIDE DEF m
  <2>2. \A i \in DOMAIN s : s[i].name = name => i = m
    BY <2>1 DEF NamesDiffer
  <2>3. {e \in ToSet(s) : e.name = name} = {s[m]}
    BY <1>1, <2>1, <2>2
  <2> QED BY <1>3, <2>3 DEF m
<1> QED BY <1>2, <1>3

\* What the walk knows of a place says what the path so far leads to.
Stands(D, place, dirs) ==
  /\ place.kind \in {"dir", "file", "none"}
  /\ IF place.kind = "dir" THEN place.what \in D /\ dirs = {place.what} ELSE dirs = {}

\* One name more.
LEMMA StandsOn ==
  ASSUME NEW D, Closed(D), NEW place, NEW dirs, Stands(D, place, dirs), NEW name
  PROVE  /\ Stands(D, Enter(place, name), Under(dirs, name))
         /\ UNION {{f \in ToSet(d.files) : f.name = name /\ \A e \in ToSet(d.dirs) : e.name # name} : d \in dirs}
              = IF Enter(place, name).kind = "file" THEN {Enter(place, name).what} ELSE {}
<1>1. CASE place.kind # "dir"
  <2>1. dirs = {} /\ Enter(place, name).kind = "none"
    BY <1>1 DEF Stands, Enter, Spot
  <2>2. Under(dirs, name) = {}
    BY <2>1 DEF Under
  <2>3. Stands(D, Enter(place, name), Under(dirs, name))
    BY <2>1, <2>2 DEF Stands
  <2> QED BY <2>1, <2>3
<1>2. CASE place.kind = "dir"
  <2> DEFINE d == place.what
             there == {e \in ToSet(d.dirs) : e.name = name}
             files == {f \in ToSet(d.files) : f.name = name}
             p == Enter(place, name)
  <2>1. d \in D /\ dirs = {d}
    BY <1>2 DEF Stands
  <2>2. /\ DOMAIN d.dirs \subseteq Nat /\ NamesDiffer(d.dirs)
        /\ DOMAIN d.files \subseteq Nat /\ NamesDiffer(d.files)
        /\ d \notin Stale /\ d.dirs # Wild
        /\ \A i \in DOMAIN d.dirs : d.dirs[i].dir \in D
    BY <2>1 DEF Closed
  <2>3. Under(dirs, name) = {e.dir : e \in there}
    BY <2>1 DEF Under
  <2>4. UNION {{f \in ToSet(c.files) : f.name = name /\ \A e \in ToSet(c.dirs) : e.name # name} : c \in dirs}
          = IF there = {} THEN files ELSE {}
    BY <2>1
  <2>5. p = IF Named(d.dirs, name) # {} THEN Spot("dir", d.dirs[Min(Named(d.dirs, name))].dir)
            ELSE IF Named(d.files, name) # {} THEN Spot("file", d.files[Min(Named(d.files, name))])
            ELSE Spot("none", NULL)
    BY <1>2, <2>2 DEF Enter
  <2>6. /\ Named(d.dirs, name) = {} => there = {}
        /\ Named(d.dirs, name) # {} => there = {d.dirs[Min(Named(d.dirs, name))]}
    BY <2>2, OnlyNamed
  <2>7. /\ Named(d.files, name) = {} => files = {}
        /\ Named(d.files, name) # {} => files = {d.files[Min(Named(d.files, name))]}
    BY <2>2, OnlyNamed
  <2>8. Named(d.dirs, name) # {} => Min(Named(d.dirs, name)) \in DOMAIN d.dirs
    BY <2>2, MinNamed
  <2> HIDE DEF there, files, p
  <2>9. CASE Named(d.dirs, name) # {}
    <3> DEFINE e == d.dirs[Min(Named(d.dirs, name))]
    <3>1. p.kind = "dir" /\ p.what = e.dir /\ there = {e} /\ e.dir \in D
      BY <2>2, <2>5, <2>6, <2>8, <2>9 DEF Spot
    <3> HIDE DEF e
    <3>2. Under(dirs, name) = {e.dir}
      BY <2>3, <3>1
    <3>3. Stands(D, p, Under(dirs, name))
      BY <3>1, <3>2 DEF Stands
    <3> QED BY <2>4, <3>1, <3>3 DEF p
  <2>10. CASE Named(d.dirs, name) = {}
    <3>1. there = {} /\ Under(dirs, name) = {}
      BY <2>3, <2>6, <2>10
    <3>2. CASE Named(d.files, name) # {}
      <4>1. p.kind = "file" /\ files = {p.what}
        BY <2>5, <2>7, <2>10, <3>2 DEF Spot
      <4> QED BY <2>4, <3>1, <4>1 DEF Stands, p
    <3>3. CASE Named(d.files, name) = {}
      <4>1. p.kind = "none" /\ files = {}
        BY <2>5, <2>7, <2>10, <3>3 DEF Spot
      <4> QED BY <2>4, <3>1, <4>1 DEF Stands, p
    <3> QED BY <3>2, <3>3
  <2> QED BY <2>9, <2>10
<1> QED BY <1>1, <1>2

\* In such directories the walk ends where the path leads (vfs_type).
LEMMA WalkLeads ==
  ASSUME NEW D, Closed(D), NEW root \in D, NEW names, NEW n \in Nat \ {0}, n = Len(names)
  PROVE  /\ Leads(root, names) = IF Places(root, names)[n].kind = "file"
                                   THEN {Places(root, names)[n].what} ELSE {}
         /\ Places(root, names)[n].kind # "wild"
<1> DEFINE p == Places(root, names)
           r == Reached(root, names)
           T == {j \in 0 .. n : Stands(D, p[j], r[j])}
<1>1. p[0] = Spot("dir", root) /\ \A i \in 1 .. n : p[i] = Enter(p[i - 1], names[i])
  <2>1. n \in Nat
    OBVIOUS
  <2> QED BY <2>1, PlacesSteps, SMTT(30)
<1>2. r[0] = {root} /\ \A i \in 1 .. n : r[i] = Under(r[i - 1], names[i])
  <2>1. n \in Nat
    OBVIOUS
  <2> QED BY <2>1, ReachedSteps, SMTT(30)
<1>3. Leads(root, names) = UNION {{f \in ToSet(d.files) : /\ f.name = names[n]
                                     /\ \A e \in ToSet(d.dirs) : e.name # names[n]} : d \in r[n - 1]}
  BY DEF Leads
<1> HIDE DEF p, r
<1>4. 0 \in T
  BY <1>1, <1>2 DEF Stands, Spot
<1>5. ASSUME NEW j \in 0 .. n - 1, j \in T
      PROVE  j + 1 \in T
  <2>1. j + 1 \in 1 .. n /\ j + 1 \in 0 .. n /\ (j + 1) - 1 = j
    BY <1>5
  <2>2. p[j + 1] = Enter(p[j], names[j + 1]) /\ r[j + 1] = Under(r[j], names[j + 1])
    BY <1>1, <1>2, <2>1
  <2>3. Stands(D, p[j + 1], r[j + 1])
    BY <1>5, <2>2, StandsOn
  <2> QED BY <2>1, <2>3
<1> HIDE DEF T
<1>6. 0 .. n \subseteq T
  BY <1>4, <1>5, InductionTo
<1>7. Stands(D, p[n - 1], r[n - 1]) /\ Stands(D, p[n], r[n])
  <2>1. n - 1 \in 0 .. n /\ n \in 0 .. n
    OBVIOUS
  <2> QED BY <1>6, <2>1 DEF T
<1>8. p[n] = Enter(p[n - 1], names[n])
  BY <1>1
<1>9. Leads(root, names) = IF p[n].kind = "file" THEN {p[n].what} ELSE {}
  BY <1>3, <1>7, <1>8, StandsOn
<1>10. p[n].kind # "wild"
  BY <1>7 DEF Stands
<1> QED BY <1>9, <1>10 DEF p

-----------------------------------------------------------------------------
(***************************************************************************)
(* The invariant.                                                          *)
(***************************************************************************)
DrmNames == {"drma", "drmb", "drmaJunk", "drmbJunk"}

DeviceNames == {"null", "zero"} \cup DrmNames

DeviceNodes == [name : DeviceNames, handler : {"zero", "drm"}, n : Nat, live : BOOLEAN]

\* A list of devices of different names, each served by its own handler.
Known(list) ==
  /\ list \in Seq(DeviceNodes) /\ NamesDiffer(list)
  /\ \A i \in DOMAIN list :
       IF list[i].handler = "drm" THEN list[i].n \in Drms /\ list[i].name \in DrmNames
                                  ELSE list[i].name \in {"null", "zero"}

DeviceRoots == [dirs : {<<>>, Wild}, files : Seq([name : DeviceNames, dev : Nat])]

Mounts == [name : {tree.name : tree \in Trees} \cup {"dev"},
           root : Stale \cup Directories \cup DeviceRoots, next : Stale]

\* The device files have been made of the devices as they are now.
Made == \E dirs \in {<<>>, Wild} : Root = Dir(dirs, FilesOf(devices))

FilesInv ==
  /\ Known(devices)
  /\ mounts \in Seq(Mounts) /\ wild \in BOOLEAN
  /\ devfs \in 0 .. Len(mounts) /\ (devfs # 0 => mounts[devfs].name = "dev")
  /\ \A i \in DOMAIN mounts : i # devfs => mounts[i].root \in Directories
  /\ ops.calls \in Nat /\ ops.reloads \in Nat /\ DOMAIN ops = {"calls", "reloads"}
  /\ ~wild => /\ devfs # 0 => Root \in Stale \/ (Made /\ ops.reloads > 0)
              /\ (\E i \in DOMAIN devices : ~devices[i].live) => ops.reloads > 1
              /\ devfs = 0 => \A i \in DOMAIN devices : devices[i].handler = "drm"

\* A new root of the device files is one.
LEMMA DeviceRoot ==
  ASSUME NEW dirs \in {<<>>, Wild}, NEW files \in Seq([name : DeviceNames, dev : Nat])
  PROVE  Dir(dirs, files) \in DeviceRoots
BY DEF DeviceRoots, Dir

\* The files are as many as the devices, of their names.
LEMMA FilesOfKnown ==
  ASSUME NEW list, Known(list)
  PROVE  /\ FilesOf(list) \in Seq([name : DeviceNames, dev : Nat]) /\ NamesDiffer(FilesOf(list))
         /\ DOMAIN FilesOf(list) = DOMAIN list /\ Len(FilesOf(list)) = Len(list)
         /\ \A i \in DOMAIN list : FilesOf(list)[i].name = list[i].name /\ FilesOf(list)[i].dev = i
<1> PICK n \in Nat : n = Len(list)
  BY DEF Known
<1>1. DOMAIN list = 1 .. n /\ \A i \in 1 .. n : list[i].name \in DeviceNames /\ i \in Nat
  <2>1. DOMAIN list = 1 .. n /\ \A i \in 1 .. n : list[i] \in DeviceNodes
    BY DEF Known
  <2> QED BY <2>1 DEF DeviceNodes
<1>2. FilesOf(list) = [i \in 1 .. n |-> [name |-> list[i].name, dev |-> i]]
  BY <1>1 DEF FilesOf
<1>3. \A i \in 1 .. n : FilesOf(list)[i].name = list[i].name /\ FilesOf(list)[i].dev = i
                        /\ FilesOf(list)[i] \in [name : DeviceNames, dev : Nat]
  BY <1>1, <1>2
<1>4. FilesOf(list) \in Seq([name : DeviceNames, dev : Nat]) /\ DOMAIN FilesOf(list) = 1 .. n
      /\ Len(FilesOf(list)) = n
  <2> DEFINE f == FilesOf(list)
  <2>1. f = [i \in 1 .. n |-> f[i]] /\ \A i \in 1 .. n : f[i] \in [name : DeviceNames, dev : Nat]
    BY <1>2, <1>3
  <2> HIDE DEF f
  <2>2. f \in Seq([name : DeviceNames, dev : Nat]) /\ DOMAIN f = 1 .. n
    BY <2>1
  <2>3. Len(f) = n
    BY <2>2
  <2> QED BY <2>2, <2>3 DEF f
<1> QED BY <1>1, <1>3, <1>4 DEF Known, NamesDiffer

\* A list whose nodes may have been freed still names the same devices.
LEMMA ClearedKnown ==
  ASSUME NEW list, Known(list)
  PROVE  Known(Cleared(list))
<1> PICK n \in Nat : n = Len(list)
  BY DEF Known
<1> DEFINE c == Cleared(list)
<1>1. DOMAIN list = 1 .. n /\ \A i \in 1 .. n : list[i] \in DeviceNodes
  BY DEF Known
<1>2. \A i \in 1 .. n : /\ c[i] \in DeviceNodes /\ c[i].name = list[i].name
                        /\ c[i].handler = list[i].handler /\ c[i].n = list[i].n
  <2> TAKE i \in 1 .. n
  <2> DEFINE l == list[i].live /\ \A j \in DOMAIN Root.files : Root.files[j].dev # i
  <2>1. c[i] = [list[i] EXCEPT !.live = l]
    BY <1>1 DEF Cleared
  <2>2. list[i] \in DeviceNodes /\ l \in BOOLEAN
    BY <1>1 DEF DeviceNodes
  <2> HIDE DEF l, c
  <2> QED BY <2>1, <2>2 DEF DeviceNodes
<1>3. c = [i \in 1 .. n |-> c[i]]
  BY <1>1 DEF Cleared
<1> HIDE DEF c
<1>4. c \in Seq(DeviceNodes) /\ DOMAIN c = 1 .. n
  BY <1>2, <1>3
<1> QED BY <1>1, <1>2, <1>4 DEF Known, NamesDiffer, c

\* Two lists of devices with no name in common make one.
LEMMA JoinKnown ==
  ASSUME NEW a, NEW b, Known(a), Known(b),
         \A i \in DOMAIN a, j \in DOMAIN b : a[i].handler # b[j].handler
  PROVE  /\ Known(a \o b)
         /\ \A k \in DOMAIN (a \o b) : \/ \E i \in DOMAIN a : (a \o b)[k] = a[i]
                                       \/ \E j \in DOMAIN b : (a \o b)[k] = b[j]
<1> PICK m \in Nat, n \in Nat : m = Len(a) /\ n = Len(b)
  BY DEF Known
<1> DEFINE c == a \o b
<1>1. /\ a \in Seq(DeviceNodes) /\ b \in Seq(DeviceNodes)
      /\ DOMAIN a = 1 .. m /\ DOMAIN b = 1 .. n
      /\ \A i \in 1 .. m : a[i] \in DeviceNodes
      /\ \A i \in 1 .. n : b[i] \in DeviceNodes
  BY DEF Known
<1>2. /\ c \in Seq(DeviceNodes) /\ DOMAIN c = 1 .. m + n
      /\ \A k \in 1 .. m : c[k] = a[k]
      /\ \A k \in m + 1 .. m + n : c[k] = b[k - m]
  BY <1>1
<1> HIDE DEF c
<1>3. ASSUME NEW k \in 1 .. m + n
      PROVE  (k \in 1 .. m /\ c[k] = a[k]) \/ (k - m \in 1 .. n /\ c[k] = b[k - m] /\ k \notin 1 .. m)
  <2>1. k <= m \/ k > m
    OBVIOUS
  <2> QED BY <1>2, <2>1
<1>4. \A i \in 1 .. m, j \in 1 .. n : a[i].name # b[j].name
  <2> TAKE i \in 1 .. m, j \in 1 .. n
  <2>1. a[i].handler \in {"zero", "drm"} /\ b[j].handler \in {"zero", "drm"}
    BY <1>1 DEF DeviceNodes
  <2>2. a[i].handler # b[j].handler
    BY <1>1
  <2>3. /\ a[i].handler = "drm" => a[i].name \in DrmNames
        /\ a[i].handler # "drm" => a[i].name \in {"null", "zero"}
        /\ b[j].handler = "drm" => b[j].name \in DrmNames
        /\ b[j].handler # "drm" => b[j].name \in {"null", "zero"}
    BY <1>1 DEF Known
  <2>4. DrmNames \cap {"null", "zero"} = {}
    BY DEF DrmNames
  <2> QED BY <2>1, <2>2, <2>3, <2>4
<1>5. NamesDiffer(c)
  <2> SUFFICES ASSUME NEW k \in 1 .. m + n, NEW l \in 1 .. m + n, c[k].name = c[l].name
               PROVE  k = l
    BY <1>2 DEF NamesDiffer
  <2>1. \A i, j \in 1 .. m : a[i].name = a[j].name => i = j
    BY <1>1 DEF Known, NamesDiffer
  <2>2. \A i, j \in 1 .. n : b[i].name = b[j].name => i = j
    BY <1>1 DEF Known, NamesDiffer
  <2>3. CASE k \in 1 .. m /\ l \in 1 .. m
    BY <1>2, <2>1, <2>3
  <2>4. CASE k \notin 1 .. m /\ l \notin 1 .. m
    <3>1. k - m \in 1 .. n /\ l - m \in 1 .. n /\ c[k] = b[k - m] /\ c[l] = b[l - m]
      BY <1>3, <2>4
    <3>2. k - m = l - m
      BY <2>2, <3>1
    <3> QED BY <3>2
  <2>5. CASE k \in 1 .. m /\ l \notin 1 .. m
    <3>1. c[k] = a[k] /\ l - m \in 1 .. n /\ c[l] = b[l - m]
      BY <1>3, <2>5
    <3>2. a[k].name # b[l - m].name
      BY <1>4, <2>5, <3>1
    <3> QED BY <3>1, <3>2
  <2>6. CASE k \notin 1 .. m /\ l \in 1 .. m
    <3>1. c[l] = a[l] /\ k - m \in 1 .. n /\ c[k] = b[k - m]
      BY <1>3, <2>6
    <3>2. a[l].name # b[k - m].name
      BY <1>4, <2>6, <3>1
    <3> QED BY <3>1, <3>2
  <2> QED BY <2>3, <2>4, <2>5, <2>6
<1>6. \A k \in 1 .. m + n : \/ \E i \in 1 .. m : c[k] = a[i]
                            \/ \E j \in 1 .. n : c[k] = b[j]
  BY <1>3
<1>7. ASSUME NEW k \in 1 .. m + n
      PROVE  IF c[k].handler = "drm" THEN c[k].n \in Drms /\ c[k].name \in DrmNames
                                     ELSE c[k].name \in {"null", "zero"}
  <2>1. CASE \E i \in 1 .. m : c[k] = a[i]
    <3>1. PICK i \in 1 .. m : c[k] = a[i]
      BY <2>1
    <3>2. IF a[i].handler = "drm" THEN a[i].n \in Drms /\ a[i].name \in DrmNames
                                  ELSE a[i].name \in {"null", "zero"}
      BY <1>1 DEF Known
    <3> QED BY <3>1, <3>2
  <2>2. CASE \E j \in 1 .. n : c[k] = b[j]
    <3>1. PICK j \in 1 .. n : c[k] = b[j]
      BY <2>2
    <3>2. IF b[j].handler = "drm" THEN b[j].n \in Drms /\ b[j].name \in DrmNames
                                  ELSE b[j].name \in {"null", "zero"}
      BY <1>1 DEF Known
    <3> QED BY <3>1, <3>2
  <2> QED BY <1>6, <2>1, <2>2
<1>8. Known(c)
  BY <1>2, <1>5, <1>7 DEF Known
<1>9. \A k \in DOMAIN c : \/ \E i \in DOMAIN a : c[k] = a[i]
                          \/ \E j \in DOMAIN b : c[k] = b[j]
  <2>1. DOMAIN c = 1 .. m + n /\ DOMAIN a = 1 .. m /\ DOMAIN b = 1 .. n
    BY <1>1, <1>2
  <2> QED BY <1>6, <2>1, Zenon
<1> QED BY <1>8, <1>9 DEF c

\* The devices of the drms, whether their names have ends or not.
FreshDrms(junk) == [i \in 1 .. MaxDrms |-> Device(DrmName(i - 1, i - 1 \in junk), "drm", i - 1)]

\* They are devices.
LEMMA FreshDrmsKnown ==
  ASSUME NEW junk
  PROVE  /\ Known(FreshDrms(junk))
         /\ \A i \in DOMAIN FreshDrms(junk) :
              FreshDrms(junk)[i].handler = "drm" /\ FreshDrms(junk)[i].live
<1> DEFINE f == FreshDrms(junk)
<1>1. MaxDrms \in Nat /\ MaxDrms <= 2
  BY CallsAssumption, DrmAssumption
<1>2. \A i \in 1 .. MaxDrms : i = 1 \/ i = 2
  BY <1>1
<1>3. \A i \in 1 .. MaxDrms :
        f[i] = [name |-> f[i].name, handler |-> "drm", n |-> i - 1, live |-> TRUE]
  BY DEF FreshDrms, Device
<1>4. f = [i \in 1 .. MaxDrms |-> f[i]]
  BY DEF FreshDrms
<1>5. 1 \in 1 .. MaxDrms => f[1].name \in {"drma", "drmaJunk"}
  BY DEF FreshDrms, Device, DrmName
<1>6. 2 \in 1 .. MaxDrms => f[2].name \in {"drmb", "drmbJunk"}
  BY DEF FreshDrms, Device, DrmName
<1> HIDE DEF f
<1>7. \A i \in 1 .. MaxDrms : f[i].name \in DrmNames
  BY <1>2, <1>5, <1>6 DEF DrmNames
<1>8. f \in Seq(DeviceNodes) /\ DOMAIN f = 1 .. MaxDrms
  <2>1. \A i \in 1 .. MaxDrms : f[i] \in DeviceNodes
    <3> TAKE i \in 1 .. MaxDrms
    <3>1. f[i].name \in DeviceNames
      BY <1>7 DEF DeviceNames
    <3>2. i - 1 \in Nat
      BY <1>1
    <3> DEFINE m == f[i].name
               k == i - 1
    <3>3. f[i] = [name |-> m, handler |-> "drm", n |-> k, live |-> TRUE]
      BY <1>3
    <3>4. m \in DeviceNames /\ k \in Nat
      BY <3>1, <3>2
    <3> HIDE DEF m, k
    <3> QED BY <3>3, <3>4 DEF DeviceNodes
  <2> QED BY <1>1, <1>4, <2>1
<1>9. NamesDiffer(f)
  <2> SUFFICES ASSUME NEW i \in 1 .. MaxDrms, NEW j \in 1 .. MaxDrms, f[i].name = f[j].name
               PROVE  i = j
    BY <1>8 DEF NamesDiffer
  <2>1. {"drma", "drmaJunk"} \cap {"drmb", "drmbJunk"} = {}
    OBVIOUS
  <2> QED BY <1>2, <1>5, <1>6, <2>1
<1>10. \A i \in 1 .. MaxDrms : f[i].n \in Drms /\ f[i].handler = "drm" /\ f[i].live
  <2> TAKE i \in 1 .. MaxDrms
  <2> DEFINE m == f[i].name
  <2>1. f[i] = [name |-> m, handler |-> "drm", n |-> i - 1, live |-> TRUE]
    BY <1>3
  <2> HIDE DEF m
  <2>2. f[i].n = i - 1 /\ f[i].handler = "drm" /\ f[i].live = TRUE
    BY <2>1
  <2>3. i - 1 \in Drms
    BY <1>1 DEF Drms
  <2> QED BY <2>2, <2>3
<1> QED BY <1>7, <1>8, <1>9, <1>10 DEF Known, f

-----------------------------------------------------------------------------
(***************************************************************************)
(* The steps keep the invariant.                                           *)
(***************************************************************************)

\* devfs_reload changes the root of the mount of the devices, and nothing else.
LEMMA BuildMounts ==
  ASSUME FilesInv, devfs # 0, NEW r \in DeviceRoots, NEW m, m = [mounts EXCEPT ![devfs].root = r]
  PROVE  /\ m \in Seq(Mounts) /\ Len(m) = Len(mounts) /\ DOMAIN m = DOMAIN mounts
         /\ m[devfs].root = r /\ m[devfs].name = "dev"
         /\ \A i \in DOMAIN mounts : i # devfs => m[i] = mounts[i]
<1> PICK n \in Nat : n = Len(mounts)
  BY DEF FilesInv
<1>1. DOMAIN mounts = 1 .. n /\ devfs \in 1 .. n /\ mounts \in [1 .. n -> Mounts]
  BY DEF FilesInv
<1> DEFINE e == [mounts[devfs] EXCEPT !.root = r]
<1>2. e \in Mounts /\ e.root = r /\ e.name = mounts[devfs].name
  <2>1. mounts[devfs] \in Mounts
    BY <1>1
  <2> QED BY <2>1 DEF Mounts
<1> HIDE DEF e
<1>3. m = [mounts EXCEPT ![devfs] = e]
  BY DEF e
<1>4. m \in [1 .. n -> Mounts] /\ m[devfs] = e /\ \A i \in 1 .. n : i # devfs => m[i] = mounts[i]
  BY <1>1, <1>2, <1>3
<1>5. m \in Seq(Mounts) /\ DOMAIN m = 1 .. n /\ Len(m) = n
  <2>1. m \in [1 .. n -> Mounts]
    BY <1>4
  <2>2. \A f \in [1 .. n -> Mounts] : f \in Seq(Mounts) /\ DOMAIN f = 1 .. n /\ Len(f) = n
    BY ListOf
  <2> QED BY <2>1, <2>2
<1> QED BY <1>1, <1>2, <1>4, <1>5 DEF FilesInv

\* devfs_reload with a list of known devices keeps the invariant, and only a
\* second one may follow a wild pointer.
LEMMA ReloadInv ==
  ASSUME FilesInv, ~wild, NEW list, Known(list), Reload(list), devfs' = devfs,
         (\E i \in DOMAIN list : ~list[i].live) => ops.reloads > 1,
         devfs = 0 => \A i \in DOMAIN list : list[i].handler = "drm",
         ops' = [ops EXCEPT !.calls = @ + 1, !.reloads = @ + 1]
  PROVE  FilesInv' /\ (wild' => ops'.reloads > 1 \/ \E i \in DOMAIN mounts' : mounts'[i].root \in Stale)
<1>1. ops'.calls \in Nat /\ ops'.reloads = ops.reloads + 1 /\ ops.reloads \in Nat
      /\ DOMAIN ops' = {"calls", "reloads"}
  BY DEF FilesInv
<1>2. ops'.reloads \in Nat /\ ops'.reloads > 0
  BY <1>1
<1>3. devfs # 0 => devfs \in DOMAIN mounts
  BY DEF FilesInv
<1>4. CASE devfs = 0 /\ devices' = list /\ UNCHANGED vfsVars
  <2>1. mounts' = mounts /\ wild' = wild
    BY <1>4 DEF vfsVars
  <2>2. ops.reloads > 1 => ops'.reloads > 1
    BY <1>1
  <2> QED BY <1>1, <1>2, <1>4, <2>1, <2>2 DEF FilesInv
<1>5. CASE Undefined(list) /\ devfs # 0
           /\ (Root \in Stale \/ \E i \in DOMAIN list : ~Cleared(list)[i].live)
  <2>1. mounts' = mounts /\ wild' = TRUE /\ devices' = list
    BY <1>5 DEF Undefined
  <2>2. FilesInv'
    BY <1>1, <1>2, <2>1 DEF FilesInv
  <2>3. Root \in Stale \/ ops.reloads > 0
    BY <1>5 DEF FilesInv
  <2>4. CASE Root \in Stale
    BY <1>3, <1>5, <2>1, <2>2, <2>4 DEF Root
  <2>5. CASE ops.reloads > 0
    <3>1. ops'.reloads > 1
      BY <1>1, <2>5
    <3> QED BY <2>2, <3>1
  <2> QED BY <2>3, <2>4, <2>5
<1>6. ASSUME NEW l, Known(l), NEW dirs \in {<<>>, Wild}, Build(l, dirs), devfs # 0,
             (\E i \in DOMAIN l : ~l[i].live) => ops'.reloads > 1
      PROVE  FilesInv' /\ ~wild'
  <2>1. mounts' = [mounts EXCEPT ![devfs].root = Dir(dirs, FilesOf(l))] /\ devices' = l /\ wild' = wild
    BY <1>6 DEF Build
  <2>2. FilesOf(l) \in Seq([name : DeviceNames, dev : Nat])
    BY <1>6, FilesOfKnown
  <2> DEFINE r == Dir(dirs, FilesOf(l))
  <2>3. r \in DeviceRoots
    <3> DEFINE files == FilesOf(l)
    <3>1. files \in Seq([name : DeviceNames, dev : Nat])
      BY <2>2
    <3> HIDE DEF files
    <3>2. dirs \in {<<>>, Wild}
      BY <1>6
    <3>3. Dir(dirs, files) \in DeviceRoots
      BY <3>1, <3>2, DeviceRoot
    <3> QED BY <3>3 DEF files
  <2>4. /\ mounts' \in Seq(Mounts) /\ Len(mounts') = Len(mounts) /\ DOMAIN mounts' = DOMAIN mounts
        /\ mounts'[devfs].root = r /\ mounts'[devfs].name = "dev"
        /\ \A i \in DOMAIN mounts : i # devfs => mounts'[i] = mounts[i]
    <3> HIDE DEF r
    <3>1. mounts' = [mounts EXCEPT ![devfs].root = r]
      BY <2>1 DEF r
    <3> QED BY <1>6, <2>3, <3>1, BuildMounts
  <2>5. Made'
    BY <2>1, <2>4 DEF Made, Root
  <2> HIDE DEF r
  <2> QED BY <1>1, <1>2, <1>6, <2>1, <2>4, <2>5 DEF FilesInv
<1>7. CASE devfs # 0 /\ \E dirs \in {<<>>, Wild} : Build(list, dirs)
  <2>1. (\E i \in DOMAIN list : ~list[i].live) => ops'.reloads > 1
    BY <1>1
  <2> QED BY <1>6, <1>7, <2>1
<1>8. CASE devfs # 0 /\ Root \notin Stale /\ Build(Cleared(list), Root.dirs)
  <2>1. ops.reloads > 0 /\ Made
    BY <1>8 DEF FilesInv
  <2>2. Root.dirs \in {<<>>, Wild}
    BY <2>1 DEF Made, Dir
  <2>3. ops'.reloads > 1
    BY <1>1, <2>1
  <2>4. Known(Cleared(list))
    BY ClearedKnown
  <2> QED BY <1>6, <1>8, <2>2, <2>3, <2>4
<1> QED BY <1>4, <1>5, <1>7, <1>8 DEF Reload

\* vfs_make puts a mount behind the others, or follows a wild pointer.
LEMMA VfsMakeInv ==
  ASSUME FilesInv, NEW name \in {tree.name : tree \in Trees} \cup {"dev"},
         NEW root \in Stale \cup Directories, VfsMake(name, root)
  PROVE  \/ wild' /\ wild' = TRUE /\ mounts' = mounts /\ NextOfLast = Wild
         \/ /\ wild' = wild
            /\ mounts' \in Seq(Mounts) /\ Len(mounts') = Len(mounts) + 1
            /\ DOMAIN mounts' = DOMAIN mounts \cup {Len(mounts) + 1}
            /\ \A i \in DOMAIN mounts : mounts'[i] = mounts[i]
            /\ mounts'[Len(mounts) + 1].name = name /\ mounts'[Len(mounts) + 1].root = root
<1> PICK n \in Nat : n = Len(mounts)
  BY DEF FilesInv
<1>1. CASE NextOfLast = Wild
  BY <1>1 DEF VfsMake
<1>2. CASE NextOfLast # Wild
  <2>1. wild' = wild
        /\ \E next \in Stale : mounts' = Append(mounts, [name |-> name, root |-> root, next |-> next])
    BY <1>2 DEF VfsMake
  <2>2. PICK next \in Stale : mounts' = Append(mounts, [name |-> name, root |-> root, next |-> next])
    BY <2>1
  <2> DEFINE e == [name |-> name, root |-> root, next |-> next]
  <2>3. e \in Mounts /\ e.name = name /\ e.root = root
    BY DEF Mounts
  <2>4. mounts' = Append(mounts, e)
    BY <2>2
  <2> HIDE DEF e
  <2>5. mounts \in Seq(Mounts)
    BY DEF FilesInv
  <2>6. /\ mounts' \in Seq(Mounts) /\ Len(mounts') = n + 1 /\ DOMAIN mounts' = 1 .. n + 1
        /\ DOMAIN mounts = 1 .. n
        /\ \A i \in 1 .. n : mounts'[i] = mounts[i]
        /\ mounts'[n + 1] = e
    BY <2>3, <2>4, <2>5
  <2>7. 1 .. n + 1 = (1 .. n) \cup {n + 1}
    OBVIOUS
  <2> QED BY <2>1, <2>3, <2>6, <2>7
<1> QED BY <1>1, <1>2


-----------------------------------------------------------------------------
(***************************************************************************)
(* Looking up paths.                                                       *)
(***************************************************************************)

\* What the reads of a directory that nobody filled come from.
WildSeen == \/ NextOfLast = Wild
            \/ \E i \in DOMAIN mounts : mounts[i].root \in Stale \/ mounts[i].root.dirs = Wild

\* The names of a path behind the mount's.
LEMMA NamesOf ==
  ASSUME NEW path \in Paths
  PROVE  /\ Len(path) \in Nat \ {0} /\ Len(Tail(path)) = Len(path) - 1
         /\ \A i \in 1 .. Len(path) - 1 : Tail(path)[i] = path[i + 1]
<1>1. path \in Seq(STRING) /\ path # <<>>
  BY CallsAssumption
<1>2. Len(path) \in Nat \ {0}
  BY <1>1
<1> QED BY <1>1, <1>2

\* The directory of the device files has no wild pointer, once it is made.
LEMMA MadeClosed ==
  ASSUME NEW list, Known(list), Dir(<<>>, FilesOf(list)) \notin Stale, Wild # <<>>
  PROVE  Closed({Dir(<<>>, FilesOf(list))})
<1> PICK n \in Nat : n = Len(list)
  BY DEF Known
<1> DEFINE d == Dir(<<>>, FilesOf(list))
<1>1. d.dirs = <<>> /\ d.files = FilesOf(list)
  BY DEF Dir
<1>2. DOMAIN FilesOf(list) = 1 .. n /\ Len(FilesOf(list)) = n /\ NamesDiffer(FilesOf(list))
  <2>1. DOMAIN list = 1 .. n
    BY DEF Known
  <2> QED BY <2>1, FilesOfKnown
<1>3. DOMAIN <<>> = {} /\ Len(<<>>) = 0 /\ DOMAIN <<>> = 1 .. 0
  OBVIOUS
<1>4. NamesDiffer(<<>>)
  BY <1>3 DEF NamesDiffer
<1> HIDE DEF d
<1>5. d \notin Stale
  BY DEF d
<1>6. Closed({d})
  BY <1>1, <1>2, <1>3, <1>4, <1>5 DEF Closed
<1> QED BY <1>6 DEF d

\* The root of a mount is as nobody set it, or its tree has no wild pointer.
LEMMA RootClosed ==
  ASSUME FilesInv, ~wild, NEW fs \in DOMAIN mounts,
         mounts[fs].root \notin Stale, mounts[fs].root.dirs # Wild
  PROVE  \E D : Closed(D) /\ mounts[fs].root \in D
<1>1. CASE fs # devfs
  <2>1. Closed(Directories)
    BY TreesAssumption DEF Closed
  <2>2. mounts[fs].root \in Directories
    BY <1>1 DEF FilesInv
  <2> QED BY <2>1, <2>2
<1>2. CASE fs = devfs
  <2>1. devfs # 0
    BY <1>2 DEF FilesInv
  <2>2. Made /\ Root = mounts[fs].root
    BY <1>2, <2>1 DEF FilesInv, Root
  <2>3. PICK dirs \in {<<>>, Wild} : Root = Dir(dirs, FilesOf(devices))
    BY <2>2 DEF Made
  <2>4. Root.dirs = dirs
    BY <2>3 DEF Dir
  <2>5. dirs = <<>> /\ Wild # <<>>
    BY <2>2, <2>3, <2>4
  <2>6. Known(devices)
    BY DEF FilesInv
  <2>7. Closed({Dir(<<>>, FilesOf(devices))})
    BY <2>2, <2>3, <2>5, <2>6, MadeClosed
  <2> QED BY <2>2, <2>3, <2>5, <2>7
<1> QED BY <1>1, <1>2

\* A directory that nobody made is not entered.
LEMMA EnterWild ==
  ASSUME NEW root, root \in Stale \/ root.dirs = Wild, NEW name
  PROVE  Enter(Spot("dir", root), name).kind = "wild"
BY DEF Enter, Spot

\* The search for a mount finds one, or runs into what the last `next` is.
LEMMA VfsFsCases ==
  ASSUME FilesInv, NEW name
  PROVE  \/ VfsFs(name) \in DOMAIN mounts /\ mounts[VfsFs(name)].name = name
         \/ VfsFs(name) = NULL /\ NextOfLast # Wild
         \/ VfsFs(name) = Wild /\ NextOfLast = Wild
<1>1. DOMAIN mounts \subseteq Nat
  BY DEF FilesInv
<1>2. VfsFs(name) = IF Named(mounts, name) # {} THEN Min(Named(mounts, name))
                    ELSE IF NextOfLast = Wild THEN Wild ELSE NULL
  BY DEF VfsFs, Named
<1> QED BY <1>1, <1>2, MinNamed

\* A wild pointer ends the walk.
LEMMA WildStays ==
  ASSUME NEW root, NEW names, NEW n \in Nat \ {0}, n = Len(names),
         Places(root, names)[1].kind = "wild"
  PROVE  Places(root, names)[n].kind = "wild"
<1> DEFINE p == Places(root, names)
           T == {j \in 0 .. n - 1 : p[j + 1].kind = "wild"}
<1>1. \A i \in 1 .. n : p[i] = Enter(p[i - 1], names[i])
  BY PlacesSteps
<1>2. p[1].kind = "wild"
  OBVIOUS
<1> HIDE DEF p
<1>3. 0 \in T
  BY <1>2
<1>4. ASSUME NEW j \in 0 .. (n - 1) - 1, j \in T
      PROVE  j + 1 \in T
  <2>1. j + 1 \in 1 .. n /\ (j + 1) + 1 \in 1 .. n /\ ((j + 1) + 1) - 1 = j + 1 /\ j + 1 \in 0 .. n - 1
    BY <1>4
  <2>2. p[(j + 1) + 1] = Enter(p[j + 1], names[(j + 1) + 1])
    BY <1>1, <2>1
  <2>3. p[j + 1].kind = "wild"
    BY <1>4
  <2>4. p[(j + 1) + 1].kind = "wild"
    BY <2>2, <2>3 DEF Enter
  <2> QED BY <2>1, <2>4
<1> HIDE DEF T
<1>5. n - 1 \in Nat
  OBVIOUS
<1>6. 0 .. n - 1 \subseteq T
  BY <1>3, <1>4, <1>5, InductionTo
<1>7. n - 1 \in T /\ (n - 1) + 1 = n
  BY <1>5, <1>6
<1> QED BY <1>7 DEF T, p

\* Where a path leads, by the directories.
There(path) ==
  LET fs == VfsFs(path[1])
  IN  IF fs = NULL \/ Len(path) = 1 THEN {} ELSE Leads(mounts[fs].root, Tail(path))

\* The walk ends where the path leads, or at a field that nobody set.
LEMMA WalkKnown ==
  ASSUME FilesInv, ~wild, NEW path \in Paths
  PROVE  /\ Walk(path).kind = "wild" => WildSeen
         /\ Walk(path).kind # "wild" =>
              There(path) = IF Walk(path).kind = "file" THEN {Walk(path).what} ELSE {}
<1> DEFINE fs == VfsFs(path[1])
           root == mounts[fs].root
           n == Len(path) - 1
<1>1. n \in Nat /\ n = Len(Tail(path)) /\ Len(path) = n + 1
  BY NamesOf
<1>2. NULL # Wild /\ Wild \notin Nat
  BY VfsAssumption
<1>3. /\ fs = Wild => Walk(path) = Spot("wild", NULL)
      /\ fs = NULL => Walk(path) = Spot("none", NULL)
      /\ fs \notin {NULL, Wild} => Walk(path) = Places(root, Tail(path))[n]
  BY <1>2 DEF Walk
<1>4. There(path) = IF fs = NULL \/ n = 0 THEN {} ELSE Leads(root, Tail(path))
  BY <1>1 DEF There
<1>5. \/ fs \in DOMAIN mounts
      \/ fs = NULL
      \/ fs = Wild /\ NextOfLast = Wild
  BY VfsFsCases
<1>6. fs \in DOMAIN mounts => fs # Wild
  <2>1. DOMAIN mounts \subseteq Nat
    BY DEF FilesInv
  <2> QED BY <1>2, <2>1
<1> HIDE DEF fs, n
<1>7. CASE fs = NULL
  BY <1>3, <1>4, <1>7 DEF Spot
<1>8. CASE fs = Wild /\ NextOfLast = Wild
  BY <1>3, <1>8 DEF Spot, WildSeen
<1>9. CASE fs \in DOMAIN mounts /\ fs # NULL /\ n = 0
  <2>1. Places(root, Tail(path))[0] = Spot("dir", root)
    BY <1>1, PlacesSteps
  <2>2. Walk(path).kind = "dir"
    BY <1>3, <1>6, <1>9, <2>1 DEF Spot
  <2> QED BY <1>4, <1>9, <2>2
<1>10. CASE fs \in DOMAIN mounts /\ fs # NULL /\ n # 0
  <2>1. Walk(path) = Places(root, Tail(path))[n]
    BY <1>3, <1>6, <1>10
  <2>2. There(path) = Leads(root, Tail(path))
    BY <1>4, <1>10
  <2>3. n \in Nat \ {0}
    BY <1>1, <1>10
  <2>4. CASE root \in Stale \/ root.dirs = Wild
    <3>1. WildSeen
      BY <1>10, <2>4 DEF WildSeen
    <3>2. /\ Places(root, Tail(path))[0] = Spot("dir", root)
          /\ Places(root, Tail(path))[1] = Enter(Places(root, Tail(path))[0], Tail(path)[1])
      <4>1. 1 \in 1 .. n /\ 1 - 1 = 0
        BY <2>3
      <4> HIDE DEF root
      <4>2. \A i \in 1 .. n : Places(root, Tail(path))[i] = Enter(Places(root, Tail(path))[i - 1], Tail(path)[i])
        BY <1>1, PlacesSteps
      <4>3. Places(root, Tail(path))[0] = Spot("dir", root)
        BY <1>1, PlacesSteps
      <4> DEFINE p == Places(root, Tail(path))
                 names == Tail(path)
      <4>4. p[1] = Enter(p[1 - 1], names[1])
        <5> HIDE DEF p, names
        <5>1. \A i \in 1 .. n : p[i] = Enter(p[i - 1], names[i])
          BY <4>2 DEF p, names
        <5> QED BY <4>1, <5>1
      <4>5. p[1] = Enter(p[0], names[1])
        BY <4>1, <4>4
      <4> QED BY <4>3, <4>5
    <3>3. Places(root, Tail(path))[1].kind = "wild"
      <4> HIDE DEF root
      <4>1. Enter(Spot("dir", root), Tail(path)[1]).kind = "wild"
        BY <2>4, EnterWild
      <4> QED BY <3>2, <4>1
    <3>4. Places(root, Tail(path))[n].kind = "wild"
      BY <1>1, <2>3, <3>3, WildStays
    <3> QED BY <2>1, <3>1, <3>4
  <2>5. CASE root \notin Stale /\ root.dirs # Wild
    <3>1. PICK D : Closed(D) /\ root \in D
      BY <1>10, <2>5, RootClosed
    <3> HIDE DEF root
    <3>2. /\ Leads(root, Tail(path)) = IF Places(root, Tail(path))[n].kind = "file"
                                         THEN {Places(root, Tail(path))[n].what} ELSE {}
          /\ Places(root, Tail(path))[n].kind # "wild"
      BY <1>1, <2>3, <3>1, WalkLeads
    <3> QED BY <2>1, <2>2, <3>2
  <2> QED BY <2>4, <2>5
<1> QED BY <1>5, <1>7, <1>8, <1>9, <1>10

\* Only a wild pointer makes a search undefined.
LEMMA WildCodes ==
  ASSUME NEW path
  PROVE  /\ VfsType(path).code = Wild => Walk(path).kind = "wild"
         /\ VfsFindFile(path).code = Wild => Walk(path).kind = "wild"
         /\ VfsFindDirectory(path).code = Wild => Walk(path).kind = "wild"
<1>1. Wild \notin {"E_SUCCESS", "E_NOENT", "E_INVOP", "E_INVOPT"}
  BY VfsAssumption
<1>2. VfsType(path).code = Wild => Walk(path).kind = "wild"
  BY <1>1 DEF VfsType, Found
<1>3. VfsFindFile(path).code = Wild => VfsType(path).code = Wild
  <2>1. VfsFindFile(path) = VfsType(path) \/ VfsFindFile(path).code \in {"E_NOENT", "E_SUCCESS"}
    BY DEF VfsFindFile, Found
  <2> QED BY <1>1, <2>1
<1>4. VfsFindDirectory(path).code = Wild => VfsType(path).code = Wild
  <2>1. VfsFindDirectory(path) = VfsType(path)
        \/ VfsFindDirectory(path).code \in {"E_NOENT", "E_SUCCESS", "E_INVOP"}
    BY DEF VfsFindDirectory, Found
  <2> QED BY <1>1, <2>1
<1> QED BY <1>2, <1>3, <1>4

\* A device file that is opened is that of the device of its name.
LEMMA OpenReaches ==
  ASSUME FilesInv, NEW path \in Paths, OpenDevice(path)
  PROVE  DevOf(path) \in DOMAIN devices /\ devices[DevOf(path)].name = path[Len(path)]
<1> DEFINE names == Tail(path)
           n == Len(path) - 1
           p == Places(Root, names)
<1>1. /\ ~wild /\ devfs # 0 /\ path[1] = "dev" /\ VfsFs("dev") = devfs
      /\ VfsFindFile(path).code = "E_SUCCESS"
  BY DEF OpenDevice, May
<1>2. n \in Nat /\ n = Len(names) /\ Len(path) = n + 1
      /\ \A i \in 1 .. n : names[i] = path[i + 1]
  BY NamesOf
<1>3. Walk(path).kind = "file" /\ DevOf(path) = Walk(path).what.dev
  BY <1>1, FoundWhen DEF DevOf
<1>4. Walk(path) = p[n]
  <2>1. Walk(path) = IF devfs = Wild THEN Spot("wild", NULL)
                     ELSE IF devfs = NULL THEN Spot("none", NULL)
                     ELSE Places(mounts[devfs].root, Tail(path))[Len(path) - 1]
    BY <1>1 DEF Walk
  <2>2. devfs # Wild /\ devfs # NULL
    BY <1>3, <2>1 DEF Spot
  <2> QED BY <2>1, <2>2 DEF Root
<1>5. p[0] = Spot("dir", Root) /\ \A i \in 1 .. n : p[i] = Enter(p[i - 1], names[i])
  <2>1. n \in Nat /\ n = Len(names)
    BY <1>2
  <2> HIDE DEF n, names
  <2> QED BY <2>1, PlacesSteps, SMTT(30)
<1>6. \A m \in 0 .. n : p[m].kind \in {"file", "none", "wild"} =>
                          \A i \in m + 1 .. n : p[i].kind \in {"none", "wild"}
  BY <1>2, WalkEnds
<1> HIDE DEF p, names, n
<1>7. n # 0
  BY <1>3, <1>4, <1>5 DEF Spot
<1>8. p[1] = Enter(p[0], names[1]) /\ names[1] = path[2]
  <2>1. 1 \in 1 .. n /\ 1 - 1 = 0 /\ 1 + 1 = 2
    BY <1>2, <1>7
  <2>2. p[1] = Enter(p[1 - 1], names[1]) /\ names[1] = path[1 + 1]
    BY <1>2, <1>5, <2>1
  <2> QED BY <2>1, <2>2
<1>9. \/ p[1].kind \in {"none", "wild"}
      \/ /\ p[1].kind = "file" /\ p[1].what.dev \in DOMAIN devices
         /\ devices[p[1].what.dev].name = path[2]
  <2>1. CASE Root \in Stale \/ Root.dirs = Wild
    BY <1>5, <1>8, <2>1 DEF Enter, Spot
  <2>2. CASE Root \notin Stale /\ Root.dirs # Wild
    <3>1. Made
      BY <1>1, <2>2 DEF FilesInv
    <3>2. PICK dirs \in {<<>>, Wild} : Root = Dir(dirs, FilesOf(devices))
      BY <3>1 DEF Made
    <3>3. Root.dirs = <<>> /\ Root.files = FilesOf(devices)
      BY <2>2, <3>2 DEF Dir
    <3>4. Named(<<>>, path[2]) = {}
      BY DEF Named
    <3> DEFINE files == FilesOf(devices)
               i == Min(Named(files, path[2]))
    <3>5. p[1] = IF Named(files, path[2]) # {} THEN Spot("file", files[i]) ELSE Spot("none", NULL)
      BY <1>5, <1>8, <2>2, <3>3, <3>4 DEF Enter, Spot
    <3>6. DOMAIN files = DOMAIN devices /\ DOMAIN files \subseteq Nat
          /\ \A k \in DOMAIN devices : files[k].name = devices[k].name /\ files[k].dev = k
      <4>1. Known(devices) /\ DOMAIN devices \subseteq Nat
        BY DEF FilesInv, Known
      <4> QED BY <4>1, FilesOfKnown
    <3>7. Named(files, path[2]) # {} => i \in DOMAIN files /\ files[i].name = path[2]
      BY <3>6, MinNamed
    <3> HIDE DEF files, i
    <3> QED BY <3>5, <3>6, <3>7 DEF Spot
  <2> QED BY <2>1, <2>2
<1>10. n = 1 /\ p[1].kind = "file"
  <2>1. 1 \in 0 .. n /\ p[1].kind \in {"file", "none", "wild"}
    BY <1>2, <1>7, <1>9
  <2>2. \A i \in 1 + 1 .. n : p[i].kind \in {"none", "wild"}
    BY <1>6, <2>1
  <2>3. n \notin 1 + 1 .. n
    BY <1>3, <1>4, <2>2
  <2>4. n = 1
    BY <1>2, <1>7, <2>3
  <2> QED BY <1>3, <1>4, <2>4
<1> QED BY <1>2, <1>3, <1>4, <1>9, <1>10

-----------------------------------------------------------------------------
(***************************************************************************)
(* The invariant of the file systems.                                      *)
(***************************************************************************)

\* What a wild pointer was followed for.
WildCause == wild => ops.reloads > 1 \/ WildSeen

\* The files of the device list are those of null and zero, and of the drms.
LEMMA MakeDevfsInv ==
  ASSUME FilesInv, MakeDevfs
  PROVE  FilesInv' /\ WildCause'
<1> DEFINE zs == <<Device("null", "zero", 0), Device("zero", "zero", 0)>>
<1>1. /\ ~wild /\ devfs = 0 /\ devices' = devices \o zs
      /\ devfs' = IF wild' THEN 0 ELSE Len(mounts')
      /\ ops' = [ops EXCEPT !.calls = @ + 1]
  BY DEF MakeDevfs, May, Count
<1>2. PICK root \in Stale : VfsMake("dev", root)
  BY DEF MakeDevfs
<1>3. ops'.calls \in Nat /\ ops'.reloads = ops.reloads /\ ops.reloads \in Nat
      /\ DOMAIN ops' = {"calls", "reloads"}
  BY <1>1 DEF FilesInv
<1>4. Known(devices) /\ \A i \in DOMAIN devices : devices[i].handler = "drm"
  BY <1>1 DEF FilesInv
<1>5. /\ zs \in Seq(DeviceNodes) /\ DOMAIN zs = 1 .. 2
      /\ \A i \in 1 .. 2 : /\ zs[i].handler = "zero" /\ zs[i].live = TRUE
                           /\ zs[i].name = IF i = 1 THEN "null" ELSE "zero"
  <2>1. \A name \in {"null", "zero"} : Device(name, "zero", 0) \in DeviceNodes
    BY DEF Device, DeviceNodes, DeviceNames
  <2>2. zs \in Seq(DeviceNodes) /\ DOMAIN zs = 1 .. 2
    <3> DEFINE a == Device("null", "zero", 0)
               b == Device("zero", "zero", 0)
    <3>1. a \in DeviceNodes /\ b \in DeviceNodes
      BY <2>1
    <3> HIDE DEF a, b
    <3>2. <<a, b>> \in Seq(DeviceNodes) /\ DOMAIN <<a, b>> = 1 .. 2
      BY <3>1
    <3> QED BY <3>2 DEF a, b
  <2> QED BY <2>2 DEF Device
<1> HIDE DEF zs
<1>6. Known(zs)
  <2>1. NamesDiffer(zs)
    BY <1>5 DEF NamesDiffer
  <2> QED BY <1>5, <2>1 DEF Known
<1>7. /\ Known(devices')
      /\ \A k \in DOMAIN devices' : \/ \E i \in DOMAIN devices : devices'[k] = devices[i]
                                    \/ \E j \in DOMAIN zs : devices'[k] = zs[j]
  <2>1. \A i \in DOMAIN devices, j \in DOMAIN zs : devices[i].handler # zs[j].handler
    BY <1>4, <1>5
  <2> QED BY <1>1, <1>4, <1>6, <2>1, JoinKnown
<1>8. (\E k \in DOMAIN devices' : ~devices'[k].live) => ops'.reloads > 1
  <2>1. ASSUME NEW k \in DOMAIN devices', ~devices'[k].live
        PROVE  \E i \in DOMAIN devices : ~devices[i].live
    <3>1. ~ \E j \in DOMAIN zs : devices'[k] = zs[j]
      BY <1>5, <2>1
    <3> QED BY <1>7, <2>1, <3>1
  <2> QED BY <1>1, <1>3, <2>1 DEF FilesInv
<1>9. CASE wild' /\ wild' = TRUE /\ mounts' = mounts /\ NextOfLast = Wild
  <2>1. devfs' = 0 /\ devfs' = devfs
    BY <1>1, <1>9
  <2>2. NextOfLast' = NextOfLast
    BY <1>9 DEF NextOfLast
  <2>3. WildCause'
    BY <1>9, <2>2 DEF WildCause, WildSeen
  <2> QED BY <1>3, <1>7, <1>9, <2>1, <2>3 DEF FilesInv
<1>10. CASE /\ wild' = wild
            /\ mounts' \in Seq(Mounts) /\ Len(mounts') = Len(mounts) + 1
            /\ DOMAIN mounts' = DOMAIN mounts \cup {Len(mounts) + 1}
            /\ \A i \in DOMAIN mounts : mounts'[i] = mounts[i]
            /\ mounts'[Len(mounts) + 1].name = "dev" /\ mounts'[Len(mounts) + 1].root = root
  <2>1. devfs' = Len(mounts) + 1 /\ Len(mounts) \in Nat
    BY <1>1, <1>10 DEF FilesInv
  <2>2. devfs' \in 0 .. Len(mounts') /\ mounts'[devfs'].name = "dev" /\ devfs' # 0
    BY <1>10, <2>1
  <2>3. Root' \in Stale
    BY <1>2, <1>10, <2>1 DEF Root
  <2>4. \A i \in DOMAIN mounts' : i # devfs' => mounts'[i].root \in Directories
    <3> TAKE i \in DOMAIN mounts'
    <3> HAVE i # devfs'
    <3>1. i \in DOMAIN mounts /\ i # 0
      BY <1>10, <2>1 DEF FilesInv
    <3> QED BY <1>1, <1>10, <3>1 DEF FilesInv
  <2>5. wild' \in BOOLEAN /\ ~wild'
    BY <1>1, <1>10 DEF FilesInv
  <2> QED BY <1>3, <1>7, <1>8, <1>10, <2>2, <2>3, <2>4, <2>5 DEF FilesInv, WildCause
<1>11. "dev" \in {tree.name : tree \in Trees} \cup {"dev"} /\ root \in Stale \cup Directories
  OBVIOUS
<1> QED BY <1>2, <1>9, <1>10, <1>11, VfsMakeInv

\* A tree is mounted without wild pointers of its own.
LEMMA MountTreeInv ==
  ASSUME FilesInv, MountTree
  PROVE  FilesInv' /\ WildCause'
<1>1. /\ ~wild /\ UNCHANGED <<devices, devfs>> /\ ops' = [ops EXCEPT !.calls = @ + 1]
  BY DEF MountTree, May, Count
<1>2. PICK tree \in Trees : VfsMake(tree.name, tree.root)
  BY DEF MountTree
<1>3. ops'.calls \in Nat /\ ops'.reloads = ops.reloads /\ ops.reloads \in Nat
      /\ DOMAIN ops' = {"calls", "reloads"}
  BY <1>1 DEF FilesInv
<1>4. tree.root \in Directories
  BY TreesAssumption
<1>5. CASE wild' /\ wild' = TRUE /\ mounts' = mounts /\ NextOfLast = Wild
  <2>1. NextOfLast' = NextOfLast
    BY <1>5 DEF NextOfLast
  <2>2. WildCause'
    BY <1>5, <2>1 DEF WildCause, WildSeen
  <2> QED BY <1>1, <1>3, <1>5, <2>2 DEF FilesInv
<1>6. CASE /\ wild' = wild
           /\ mounts' \in Seq(Mounts) /\ Len(mounts') = Len(mounts) + 1
           /\ DOMAIN mounts' = DOMAIN mounts \cup {Len(mounts) + 1}
           /\ \A i \in DOMAIN mounts : mounts'[i] = mounts[i]
           /\ mounts'[Len(mounts) + 1].name = tree.name
           /\ mounts'[Len(mounts) + 1].root = tree.root
  <2>1. Len(mounts) \in Nat /\ devfs \in 0 .. Len(mounts) /\ DOMAIN mounts = 1 .. Len(mounts)
    BY DEF FilesInv
  <2>2. devfs' \in 0 .. Len(mounts')
    BY <1>1, <1>6, <2>1
  <2>3. devfs # 0 => devfs \in DOMAIN mounts /\ mounts'[devfs] = mounts[devfs]
    BY <1>6, <2>1
  <2>4. \A i \in DOMAIN mounts' : i # devfs' => mounts'[i].root \in Directories
    <3> TAKE i \in DOMAIN mounts'
    <3> HAVE i # devfs'
    <3>1. CASE i \in DOMAIN mounts
      BY <1>1, <1>6, <3>1 DEF FilesInv
    <3>2. CASE i = Len(mounts) + 1
      BY <1>4, <1>6, <3>2
    <3> QED BY <1>6, <3>1, <3>2
  <2>5. devfs # 0 => Root' = Root /\ (Made => Made')
    BY <1>1, <2>3 DEF Root, Made
  <2> QED BY <1>1, <1>3, <1>6, <2>2, <2>3, <2>4, <2>5 DEF FilesInv, WildCause
<1>7. tree.name \in {t.name : t \in Trees} \cup {"dev"} /\ tree.root \in Stale \cup Directories
  BY <1>4
<1> QED BY <1>2, <1>5, <1>6, <1>7, VfsMakeInv

\* Making the device files again (devfs_reload).
LEMMA DevfsReloadInv ==
  ASSUME FilesInv, DevfsReload
  PROVE  FilesInv' /\ WildCause'
<1>1. /\ ~wild /\ Reload(devices) /\ devfs' = devfs
      /\ ops' = [ops EXCEPT !.calls = @ + 1, !.reloads = @ + 1]
  BY DEF DevfsReload, May
<1>2. /\ Known(devices)
      /\ (\E i \in DOMAIN devices : ~devices[i].live) => ops.reloads > 1
      /\ devfs = 0 => \A i \in DOMAIN devices : devices[i].handler = "drm"
  BY <1>1 DEF FilesInv
<1>3. FilesInv' /\ (wild' => ops'.reloads > 1 \/ \E i \in DOMAIN mounts' : mounts'[i].root \in Stale)
  BY <1>1, <1>2, ReloadInv
<1> QED BY <1>3 DEF WildCause, WildSeen

\* The drms' devices go behind the others (drm_register_vfs).
LEMMA DrmRegisterInv ==
  ASSUME FilesInv, DrmRegisterVfs
  PROVE  FilesInv' /\ WildCause'
<1>1. /\ ~wild /\ devfs' = devfs /\ \A i \in DOMAIN devices : devices[i].handler # "drm"
      /\ ops' = [ops EXCEPT !.calls = @ + 1, !.reloads = @ + 1]
  BY DEF DrmRegisterVfs, May
<1>2. \E junk \in SUBSET Drms : Reload(devices \o FreshDrms(junk))
  BY DEF DrmRegisterVfs, FreshDrms
<1>3. PICK junk \in SUBSET Drms : Reload(devices \o FreshDrms(junk))
  BY <1>2
<1> DEFINE f == FreshDrms(junk)
           list == devices \o f
<1>4. Known(f) /\ \A i \in DOMAIN f : f[i].handler = "drm" /\ f[i].live
  BY FreshDrmsKnown
<1> HIDE DEF f
<1>5. /\ Known(devices)
      /\ (\E i \in DOMAIN devices : ~devices[i].live) => ops.reloads > 1
      /\ devfs = 0 => \A i \in DOMAIN devices : devices[i].handler = "drm"
  BY <1>1 DEF FilesInv
<1>6. /\ Known(list)
      /\ \A k \in DOMAIN list : \/ \E i \in DOMAIN devices : list[k] = devices[i]
                                \/ \E j \in DOMAIN f : list[k] = f[j]
  <2>1. \A i \in DOMAIN devices, j \in DOMAIN f : devices[i].handler # f[j].handler
    BY <1>1, <1>4
  <2> QED BY <1>4, <1>5, <2>1, JoinKnown
<1>7. Reload(list)
  BY <1>3 DEF f
<1> HIDE DEF list
<1>8. (\E k \in DOMAIN list : ~list[k].live) => ops.reloads > 1
  <2>1. ASSUME NEW k \in DOMAIN list, ~list[k].live
        PROVE  \E i \in DOMAIN devices : ~devices[i].live
    <3>1. ~ \E j \in DOMAIN f : list[k] = f[j]
      BY <1>4, <2>1
    <3> QED BY <1>6, <2>1, <3>1
  <2> QED BY <1>5, <2>1
<1>9. devfs = 0 => \A k \in DOMAIN list : list[k].handler = "drm"
  BY <1>4, <1>5, <1>6
<1>10. FilesInv' /\ (wild' => ops'.reloads > 1 \/ \E i \in DOMAIN mounts' : mounts'[i].root \in Stale)
  BY <1>1, <1>6, <1>7, <1>8, <1>9, ReloadInv
<1> QED BY <1>10 DEF WildCause, WildSeen

\* Calls that change neither the mounts nor the devices keep the invariant.
LEMMA KeepsInv ==
  ASSUME FilesInv, UNCHANGED <<mounts, devices, devfs>>, wild' \in BOOLEAN,
         ops'.calls \in Nat, ops'.reloads = ops.reloads, DOMAIN ops' = DOMAIN ops,
         wild => wild'
  PROVE  FilesInv' /\ (WildSeen => WildSeen')
<1>1. Root' = Root /\ (Made <=> Made')
  BY DEF Root, Made
<1>2. FilesInv'
  BY <1>1 DEF FilesInv
<1>3. WildSeen' <=> WildSeen
  BY DEF WildSeen, NextOfLast
<1> QED BY <1>2, <1>3

\* One call more.
LEMMA CountInv ==
  ASSUME FilesInv, Count
  PROVE  ops'.calls \in Nat /\ ops'.reloads = ops.reloads /\ DOMAIN ops' = DOMAIN ops
BY DEF FilesInv, Count

\* A search is undefined when it follows a wild pointer.
LEMMA LookupInv ==
  ASSUME FilesInv, Lookup
  PROVE  FilesInv' /\ WildCause'
<1>1. ~wild /\ UNCHANGED <<mounts, devices, devfs>> /\ wild' = (last'.result.code = Wild) /\ Count
  BY DEF Lookup, May
<1>2. wild' \in BOOLEAN
  BY <1>1
<1>3. FilesInv' /\ (WildSeen => WildSeen')
  BY <1>1, <1>2, CountInv, KeepsInv
<1>4. wild' => WildSeen
  <2> SUFFICES ASSUME last'.result.code = Wild PROVE WildSeen
    BY <1>1
  <2>1. PICK path \in Paths : \/ last'.result = VfsType(path)
                              \/ last'.result = VfsFindFile(path)
                              \/ last'.result = VfsFindDirectory(path)
    BY DEF Lookup, Call
  <2>2. Walk(path).kind = "wild"
    BY <2>1, WildCodes
  <2> QED BY <1>1, <2>2, WalkKnown
<1> QED BY <1>3, <1>4 DEF WildCause

\* Reads and writes of device files, and figures, leave the files alone.
LEMMA UseInv ==
  ASSUME FilesInv, WildCause, DevfsRead \/ DevfsWrite \/ Draw \/ UNCHANGED vars
  PROVE  FilesInv' /\ WildCause'
<1>1. UNCHANGED <<mounts, devices, devfs, wild>>
  BY DEF DevfsRead, DevfsWrite, Draw, vars, vfsVars, devVars
<1>2. wild \in BOOLEAN
  BY DEF FilesInv
<1>3. ops'.calls \in Nat /\ ops'.reloads = ops.reloads /\ DOMAIN ops' = DOMAIN ops
  <2>1. CASE DevfsRead \/ DevfsWrite
    BY <2>1, CountInv DEF DevfsRead, DevfsWrite
  <2>2. CASE Draw
    <3>1. MaxOps \in Nat /\ ops' = [ops EXCEPT !.calls = MaxOps]
      BY <2>2, CallsAssumption DEF Draw
    <3> QED BY <3>1 DEF FilesInv
  <2>3. CASE UNCHANGED vars
    BY <2>3 DEF vars, devVars, FilesInv
  <2> QED BY <2>1, <2>2, <2>3
<1>4. FilesInv' /\ (WildSeen => WildSeen')
  BY <1>1, <1>2, <1>3, KeepsInv
<1> QED BY <1>1, <1>3, <1>4 DEF WildCause

\* Only a second making of the device files leaves freed devices behind.
LEMMA UseFreedInv ==
  ASSUME FilesInv, UseFreed
  PROVE  FilesInv' /\ WildCause'
<1>1. PICK path \in Paths : OpenDevice(path) /\ ~devices[DevOf(path)].live
  BY DEF UseFreed
<1>2. ~wild /\ UNCHANGED <<mounts, devices, devfs>> /\ wild' = TRUE /\ Count
  BY <1>1 DEF UseFreed, OpenDevice, May
<1>3. DevOf(path) \in DOMAIN devices
  BY <1>1, OpenReaches
<1>4. ops.reloads > 1
  BY <1>1, <1>2, <1>3 DEF FilesInv
<1>5. wild' \in BOOLEAN
  BY <1>2
<1>6. ops'.calls \in Nat /\ ops'.reloads = ops.reloads /\ DOMAIN ops' = DOMAIN ops
  BY <1>2, CountInv
<1>7. FilesInv'
  BY <1>2, <1>5, <1>6, KeepsInv
<1> QED BY <1>4, <1>6, <1>7 DEF WildCause

\* Every step keeps the invariant.
LEMMA FilesNext ==
  ASSUME FilesInv, WildCause, [Next]_vars
  PROVE  FilesInv' /\ WildCause'
BY MakeDevfsInv, MountTreeInv, DevfsReloadInv, DrmRegisterInv, LookupInv, UseInv, UseFreedInv DEF Next

\* At first nothing is mounted.
LEMMA FilesInit ==
  ASSUME Init
  PROVE  FilesInv /\ WildCause
<1>1. mounts = <<>> /\ wild = FALSE /\ devices = <<>> /\ devfs = 0 /\ ops = [calls |-> 0, reloads |-> 0]
  BY DEF Init, VfsInit
<1>2. Known(devices)
  BY <1>1 DEF Known, NamesDiffer
<1>3. mounts \in Seq(Mounts) /\ DOMAIN mounts = {} /\ Len(mounts) = 0 /\ DOMAIN devices = {}
  BY <1>1
<1>4. ops.calls \in Nat /\ ops.reloads \in Nat /\ DOMAIN ops = {"calls", "reloads"}
  BY <1>1
<1>5. wild \in BOOLEAN /\ ~wild
  BY <1>1, Zenon
<1>6. devfs = 0 /\ devfs \in 0 .. 0
  BY <1>1
<1> QED BY <1>2, <1>3, <1>4, <1>5, <1>6 DEF FilesInv, WildCause

\* The device behind the file that was last read or written has its name.
Served == last.op \in {"read", "write"} => devices[last.result.dev].name = last.arg[Len(last.arg)]

\* A call of another name says nothing of reads.
LEMMA ServedNext ==
  ASSUME FilesInv, Served, [Next]_vars
  PROVE  Served'
<1>1. CASE DevfsRead
  <2>1. PICK path \in Paths, t \in Transfers :
          OpenDevice(path) /\ Call("read", path, ReadResult(DevOf(path), t))
    BY <1>1 DEF DevfsRead
  <2>2. ReadResult(DevOf(path), t).dev = DevOf(path)
    BY DEF ReadResult
  <2>3. last'.result.dev = DevOf(path) /\ last'.arg = path
    BY <2>1, <2>2 DEF Call
  <2>4. devices[DevOf(path)].name = path[Len(path)]
    BY <2>1, OpenReaches
  <2>5. devices' = devices
    BY <1>1 DEF DevfsRead
  <2> QED BY <2>3, <2>4, <2>5 DEF Served
<1>2. CASE DevfsWrite
  <2>1. PICK path \in Paths, t \in Transfers : OpenDevice(path) /\
          \E code : Call("write", path, [code |-> code, dev |-> DevOf(path), at |-> t.at, size |-> t.size])
    BY <1>2, Zenon DEF DevfsWrite
  <2>2. last'.result.dev = DevOf(path) /\ last'.arg = path
    BY <2>1 DEF Call
  <2>3. devices[DevOf(path)].name = path[Len(path)]
    BY <2>1, OpenReaches
  <2>4. devices' = devices
    BY <1>2 DEF DevfsWrite
  <2> QED BY <2>2, <2>3, <2>4 DEF Served
<1>3. CASE UseFreed \/ UNCHANGED vars
  BY <1>3 DEF UseFreed, vars, devVars, Served
<1>4. CASE MakeDevfs \/ MountTree \/ DevfsReload \/ DrmRegisterVfs
  BY <1>4 DEF MakeDevfs, MountTree, DevfsReload, DrmRegisterVfs, Call, Served
<1>5. CASE Lookup \/ Draw
  <2>1. last'.op \in {"vfs_type", "vfs_find_file", "vfs_find_directory", "draw"}
    <3>1. CASE Lookup
      BY <3>1 DEF Lookup, Call
    <3>2. CASE Draw
      BY <3>2 DEF Draw, Call
    <3> QED BY <1>5, <3>1, <3>2
  <2> QED BY <2>1 DEF Served
<1> QED BY <1>1, <1>2, <1>3, <1>4, <1>5 DEF Next

\* The device files reach their devices, and wild pointers come from fields
\* that nobody set or from the second making of the files (devfs_reload).
THEOREM ReadsReachInv == Spec => []ReadsReach
<1>1. Init => FilesInv /\ WildCause /\ Served
  <2> SUFFICES ASSUME Init PROVE FilesInv /\ WildCause /\ Served
    OBVIOUS
  <2>1. last.op = "none"
    BY DEF Init
  <2> QED BY <2>1, FilesInit DEF Served
<1>2. FilesInv /\ WildCause /\ Served /\ [Next]_vars => (FilesInv /\ WildCause /\ Served)'
  BY FilesNext, ServedNext
<1>3. WildCause /\ Served => ReadsReach
  BY DEF WildCause, WildSeen, Served, ReadsReach
<1> QED BY <1>1, <1>2, <1>3, PTL DEF Spec

\* What the last search for a file found is where its path leads.
LEMMA FoundNext ==
  ASSUME FilesInv, FilesFound, [Next]_vars
  PROVE  FilesFound'
<1>1. CASE Lookup
  <2> SUFFICES ASSUME last'.op = "vfs_find_file", ~wild'
               PROVE  FilesFound'
    BY DEF FilesFound
  <2>1. PICK path \in Paths : last' = [op |-> "vfs_find_file", arg |-> path, result |-> VfsFindFile(path)]
    <3>1. PICK path \in Paths : \/ Call("vfs_type", path, VfsType(path))
                                \/ Call("vfs_find_file", path, VfsFindFile(path))
                                \/ Call("vfs_find_directory", path, VfsFindDirectory(path))
      BY <1>1 DEF Lookup
    <3> QED BY <3>1 DEF Call
  <2>2. ~wild /\ mounts' = mounts /\ wild' = (last'.result.code = Wild)
    BY <1>1 DEF Lookup, May
  <2>3. last'.arg = path /\ last'.result = VfsFindFile(path) /\ VfsFindFile(path).code # Wild
    BY <2>1, <2>2
  <2> DEFINE there == IF path = <<"">> \/ VfsFs(path[1]) = NULL \/ Len(path) = 1 THEN {}
                      ELSE Leads(mounts[VfsFs(path[1])].root, Tail(path))
             result == VfsFindFile(path)
  <2>4. IF result.code = "E_SUCCESS" THEN there = {result.what} ELSE there = {}
    <3>1. CASE path = <<"">>
      <4>1. result.code = "E_INVOPT"
        BY <3>1 DEF VfsFindFile, VfsType, Found
      <4> QED BY <3>1, <4>1
    <3>2. CASE path # <<"">>
      <4>1. there = There(path)
        BY <3>2 DEF There
      <4>2. Walk(path).kind # "wild"
        BY <2>3, <3>2, FoundWhen
      <4>3. There(path) = IF Walk(path).kind = "file" THEN {Walk(path).what} ELSE {}
        BY <2>2, <4>2, WalkKnown
      <4>4. /\ result.code = "E_SUCCESS" => Walk(path).kind = "file" /\ result.what = Walk(path).what
            /\ Walk(path).kind = "file" => result.code = "E_SUCCESS"
        BY <3>2, FoundWhen
      <4> HIDE DEF there, result
      <4> QED BY <4>1, <4>3, <4>4
    <3> QED BY <3>1, <3>2
  <2>5. (VfsFs(path[1]))' = VfsFs(path[1])
    BY <2>2 DEF VfsFs, NextOfLast
  <2> HIDE DEF result
  <2>6. last'.result = result
    BY <2>3 DEF result
  <2> QED BY <2>2, <2>3, <2>4, <2>5, <2>6 DEF FilesFound
<1>2. CASE UseFreed
  BY <1>2 DEF UseFreed, FilesFound
<1>3. CASE UNCHANGED vars
  BY <1>3 DEF vars, devVars, vfsVars, FilesFound, VfsFs, NextOfLast
<1>4. CASE MakeDevfs \/ MountTree \/ DevfsReload \/ DrmRegisterVfs \/ DevfsRead \/ DevfsWrite \/ Draw
  <2>1. last'.op # "vfs_find_file"
    <3>1. CASE MakeDevfs \/ MountTree \/ DevfsReload \/ DrmRegisterVfs
      BY <3>1 DEF MakeDevfs, MountTree, DevfsReload, DrmRegisterVfs, Call
    <3>2. CASE DevfsRead
      BY <3>2 DEF DevfsRead, Call
    <3>3. CASE DevfsWrite
      BY <3>3 DEF DevfsWrite, Call
    <3>4. CASE Draw
      BY <3>4 DEF Draw, Call
    <3> QED BY <1>4, <3>1, <3>2, <3>3, <3>4
  <2> QED BY <2>1 DEF FilesFound
<1> QED BY <1>1, <1>2, <1>3, <1>4 DEF Next

\* A search for a file succeeds exactly when its path leads to one, and finds
\* that one (vfs_find_file).
THEOREM FilesFoundInv == Spec => []FilesFound
<1>1. Init => FilesInv /\ WildCause /\ FilesFound
  <2> SUFFICES ASSUME Init PROVE FilesInv /\ WildCause /\ FilesFound
    OBVIOUS
  <2>1. last.op = "none"
    BY DEF Init
  <2> QED BY <2>1, FilesInit DEF FilesFound
<1>2. FilesInv /\ WildCause /\ FilesFound /\ [Next]_vars => (FilesInv /\ WildCause /\ FilesFound)'
  BY FilesNext, FoundNext
<1> QED BY <1>1, <1>2, PTL DEF Spec

-----------------------------------------------------------------------------
(***************************************************************************)
(* What is drawn and written to a drm.                                     *)
(***************************************************************************)
IsDisplay(d) ==
  /\ d = [active |-> d.active, screen |-> d.screen, back |-> d.back, outside |-> d.outside]
  /\ d.back = [n \in Drms |-> d.back[n]]

\* The offsets that a picture sets.
Hit(shade) == {Offset(p) : p \in Plotted(DOMAIN shade)}

Over(buffer, shade) ==
  [o \in Offsets |-> IF o \in Hit(shade)
                       THEN shade[CHOOSE p \in Plotted(DOMAIN shade) : Offset(p) = o] ELSE buffer[o]]

\* What painting changes (drm_plot).
LEMMA PaintParts ==
  ASSUME NEW d, IsDisplay(d), NEW n \in Drms, NEW shade
  PROVE  /\ IsDisplay(Paint(d, n, shade))
         /\ Paint(d, n, shade).active = d.active
         /\ Paint(d, n, shade).outside = d.outside \cup (Hit(shade) \ Offsets)
         /\ d.active # n => Paint(d, n, shade).back[n] = Over(d.back[n], shade)
<1> DEFINE e == [d EXCEPT !.outside = @ \cup (Hit(shade) \ Offsets)]
           a == d.active
           s == d.screen
           b == d.back
           u == d.outside \cup (Hit(shade) \ Offsets)
<1>1. e = [active |-> a, screen |-> s, back |-> b, outside |-> u]
  <2>1. e = [d EXCEPT !.outside = u]
    OBVIOUS
  <2>2. d = [active |-> a, screen |-> s, back |-> b, outside |-> d.outside]
    BY DEF IsDisplay
  <2> HIDE DEF e, a, s, b, u
  <2> QED BY <2>1, <2>2
<1>2. CASE d.active = n
  <2> DEFINE t == Over(s, shade)
             p == Paint(d, n, shade)
  <2>1. p = [e EXCEPT !.screen = Over(@, shade)]
    BY <1>2 DEF Paint, Over, Hit
  <2> HIDE DEF e, p
  <2>2. p = [active |-> a, screen |-> t, back |-> b, outside |-> u]
    BY <1>1, <2>1, Zenon
  <2>3. b = [m \in Drms |-> b[m]]
    BY DEF IsDisplay
  <2> HIDE DEF a, s, b, u, t
  <2>4. p.active = a /\ p.screen = t /\ p.back = b /\ p.outside = u
    BY <2>2
  <2>5. IsDisplay(p)
    BY <2>2, <2>3, <2>4 DEF IsDisplay
  <2> QED BY <1>2, <2>4, <2>5 DEF p, a, u
<1>3. CASE d.active # n
  <2> DEFINE t == Over(b[n], shade)
             p == Paint(d, n, shade)
             c == [b EXCEPT ![n] = t]
  <2>1. p = [e EXCEPT !.back[n] = Over(@, shade)]
    BY <1>3 DEF Paint, Over, Hit
  <2> HIDE DEF e, p
  <2>2. p = [active |-> a, screen |-> s, back |-> c, outside |-> u]
    BY <1>1, <2>1, Zenon
  <2>3. b = [m \in Drms |-> b[m]]
    BY DEF IsDisplay
  <2> HIDE DEF a, s, b, u, t
  <2>4. c = [m \in Drms |-> c[m]] /\ c[n] = t
    BY <2>3
  <2> HIDE DEF c
  <2>5. p.active = a /\ p.screen = s /\ p.back = c /\ p.outside = u
    BY <2>2
  <2>6. IsDisplay(p)
    BY <2>2, <2>4, <2>5 DEF IsDisplay
  <2> QED BY <1>3, <2>4, <2>5, <2>6 DEF p, a, u, t, b
<1> QED BY <1>2, <1>3

\* The place of a pixel in reading order is its offset, when rows have no
\* padding.
LEMMA PlaceOffset ==
  ASSUME Pitch = Width, NEW k \in 0 .. Width * Height - 1
  PROVE  /\ Offset(Place(k)) = k /\ k \in Offsets
         /\ Place(k)[2] * Width + Place(k)[1] = k
         /\ Place(k)[1] \in 0 .. Width /\ Place(k)[2] \in 0 .. Height
<1>1. Width \in Nat /\ Height \in Nat /\ Width > 0 /\ Height > 0
  BY DrmAssumption
<1> DEFINE x == k % Width
           y == k \div Width
<1>2. Place(k)[1] = x /\ Place(k)[2] = y
  BY DEF Place
<1>3. k \in Nat /\ k < Width * Height
  BY <1>1
<1>4. k = Width * y + x /\ y \in Nat /\ x \in 0 .. Width - 1
  BY <1>1, <1>3, DivMod
<1>5. y < Height
  BY <1>1, <1>3, DivBound
<1> HIDE DEF x, y
<1>6. y * Width = Width * y
  BY <1>1, <1>4
<1>7. Offset(Place(k)) = k
  BY <1>1, <1>2, <1>4 DEF Offset
<1>8. Place(k)[2] * Width + Place(k)[1] = k
  BY <1>1, <1>2, <1>4, <1>6
<1> QED BY <1>1, <1>2, <1>4, <1>5, <1>7, <1>8 DEF Offsets

\* A write reaches the pixels that it is for (_drm_write).
LEMMA WriteReaches ==
  ASSUME NEW d, IsDisplay(d), NEW n \in Drms, d.active # n, Pitch = Width,
         NEW at \in Nat, NEW size \in Nat, DrmInRange(at, size), NEW i \in 1 .. size
  PROVE  DrmWrite(d, n, at, Colors(size)).back[n][at + i - 1] = i
<1> DEFINE k == at + i - 1
           P == {Place(at + j - 1) : j \in DOMAIN Colors(size)}
           data == Colors(size)
           shade == [p \in P |-> data[p[2] * Width + p[1] - at + 1]]
<1>1. DrmWrite(d, n, at, data) = Paint(d, n, shade)
  BY DEF DrmWrite
<1>2. DOMAIN data = 1 .. size /\ data[i] = i
  BY DEF Colors
<1>3. \A j \in 1 .. size : at + j - 1 \in 0 .. Width * Height - 1
  <2>1. Width * Height \in Nat
    BY DrmAssumption
  <2> DEFINE W == Width * Height
  <2>2. at + size <= W
    BY DEF DrmInRange
  <2> HIDE DEF W
  <2>3. W \in Nat
    BY <2>1 DEF W
  <2>4. \A j \in 1 .. size : at + j - 1 \in 0 .. W - 1
    BY <2>2, <2>3
  <2> QED BY <2>4 DEF W
<1>4. \A p \in P : p = Place(Offset(p)) /\ p[1] \in 0 .. Width /\ p[2] \in 0 .. Height
  <2> TAKE p \in P
  <2>1. PICK j \in 1 .. size : p = Place(at + j - 1)
    BY <1>2
  <2>2. at + j - 1 \in 0 .. Width * Height - 1
    BY <1>3
  <2> DEFINE m == at + j - 1
  <2> HIDE DEF m
  <2>3. m \in 0 .. Width * Height - 1 /\ p = Place(m)
    BY <2>1, <2>2 DEF m
  <2> QED BY <2>3, PlaceOffset
<1>5. Place(k) \in P
  BY <1>2
<1>6. k \in 0 .. Width * Height - 1
  BY <1>3
<1> HIDE DEF k, P, data
<1>7. DOMAIN shade = P
  OBVIOUS
<1>8. /\ Offset(Place(k)) = k /\ k \in Offsets
      /\ Place(k)[2] * Width + Place(k)[1] = k
  BY <1>6, PlaceOffset
<1>9. Place(k) \in Plotted(P) /\ \A p \in Plotted(P) : Offset(p) = k => p = Place(k)
  BY <1>4, <1>5 DEF Plotted
<1>10. (CHOOSE p \in Plotted(P) : Offset(p) = k) = Place(k)
  BY <1>8, <1>9
<1>11. k \in Hit(shade)
  BY <1>7, <1>8, <1>9 DEF Hit
<1>12. shade[Place(k)] = data[k - at + 1]
  <2>1. shade[Place(k)] = data[Place(k)[2] * Width + Place(k)[1] - at + 1]
    BY <1>5
  <2> DEFINE u == Place(k)[2]
             v == Place(k)[1]
  <2>2. u \in Int /\ v \in Int /\ Width \in Int /\ k \in Int
    BY <1>6, PlaceOffset, DrmAssumption
  <2>3. u * Width + v = k /\ shade[Place(k)] = data[u * Width + v - at + 1]
    BY <1>8, <2>1
  <2> HIDE DEF u, v, shade
  <2>4. u * Width + v - at + 1 = k - at + 1
    BY <2>2, <2>3
  <2> QED BY <2>3, <2>4
<1>13. k - at + 1 = i
  BY DEF k
<1> HIDE DEF shade
<1>14. Over(d.back[n], shade)[k] = i
  BY <1>2, <1>7, <1>8, <1>10, <1>11, <1>12, <1>13 DEF Over
<1>15. Paint(d, n, shade).back[n] = Over(d.back[n], shade)
  BY PaintParts
<1> QED BY <1>1, <1>14, <1>15 DEF k, data

\* The display of a drm that was written holds what was written.
Wrote ==
  LET dev == devices[last.result.dev]
  IN  /\ last.op = "write" /\ last.result.code = "E_SUCCESS"
      /\ dev.handler = "drm" /\ dev.n # display.active /\ Pitch = Width
      => \A i \in 1 .. last.result.size : display.back[dev.n][last.result.at + i - 1] = i

\* Only writes and figures change the display.
LEMMA DisplayNext ==
  ASSUME FilesInv, IsDisplay(display), [Next]_vars
  PROVE  IsDisplay(display')
<1>1. CASE DevfsWrite
  <2>1. PICK path \in Paths, t \in Transfers :
          /\ OpenDevice(path)
          /\ \/ display' = display
             \/ /\ devices[DevOf(path)].handler = "drm"
                /\ display' = DrmWrite(display, devices[DevOf(path)].n, t.at, Colors(t.size))
    BY <1>1 DEF DevfsWrite
  <2>2. devices[DevOf(path)].handler = "drm" => devices[DevOf(path)].n \in Drms
    <3>1. DevOf(path) \in DOMAIN devices
      BY <2>1, OpenReaches
    <3> QED BY <3>1 DEF FilesInv, Known
  <2>3. CASE display' # display
    <3>1. PICK shade : display' = Paint(display, devices[DevOf(path)].n, shade)
      BY <2>1, <2>3 DEF DrmWrite
    <3>2. devices[DevOf(path)].n \in Drms
      BY <2>1, <2>2, <2>3
    <3> QED BY <3>1, <3>2, PaintParts
  <2> QED BY <2>3
<1>2. CASE Draw
  <2>1. PICK n \in Drms : \E shade : display' = Paint(display, n, shade)
    BY <1>2 DEF Draw
  <2> QED BY <2>1, PaintParts
<1>3. CASE MakeDevfs \/ MountTree \/ DevfsReload \/ DrmRegisterVfs \/ Lookup \/ DevfsRead \/ UseFreed
  BY <1>3 DEF MakeDevfs, MountTree, DevfsReload, DrmRegisterVfs, Lookup, DevfsRead, UseFreed
<1>4. CASE UNCHANGED vars
  BY <1>4 DEF vars
<1> QED BY <1>1, <1>2, <1>3, <1>4 DEF Next

\* A write leaves its colors behind.
LEMMA WroteNext ==
  ASSUME FilesInv, IsDisplay(display), Wrote, [Next]_vars
  PROVE  Wrote'
<1>1. CASE DevfsWrite
  <2>1. PICK path \in Paths, t \in Transfers :
          LET dev == devices[DevOf(path)]
              fits == dev.handler = "zero" \/ DrmInRange(t.at, t.size)
          IN  /\ OpenDevice(path)
              /\ display' = IF dev.handler = "drm" /\ fits
                              THEN DrmWrite(display, dev.n, t.at, Colors(t.size)) ELSE display
              /\ Call("write", path, [code |-> IF fits THEN "E_SUCCESS" ELSE "E_OUTOFBOUNDS",
                                      dev |-> DevOf(path), at |-> t.at, size |-> t.size])
    BY <1>1 DEF DevfsWrite
  <2> DEFINE dev == devices[DevOf(path)]
             fits == dev.handler = "zero" \/ DrmInRange(t.at, t.size)
  <2>2. DevOf(path) \in DOMAIN devices
    BY <2>1, OpenReaches
  <2>3. dev.handler = "drm" => dev.n \in Drms
    BY <2>2 DEF FilesInv, Known
  <2>4. /\ last'.result.code = (IF fits THEN "E_SUCCESS" ELSE "E_OUTOFBOUNDS")
        /\ last'.result.dev = DevOf(path) /\ last'.result.at = t.at /\ last'.result.size = t.size
    BY <2>1 DEF Call
  <2>5. t.at \in Nat /\ t.size \in Nat /\ devices' = devices
    BY <1>1, CallsAssumption DEF DevfsWrite
  <2> SUFFICES ASSUME last'.result.code = "E_SUCCESS", dev.handler = "drm",
                      dev.n # display'.active, Pitch = Width,
                      NEW i \in 1 .. t.size
               PROVE  display'.back[dev.n][t.at + i - 1] = i
    BY <2>4, <2>5 DEF Wrote
  <2>6. fits /\ DrmInRange(t.at, t.size)
    BY <2>4
  <2>7. display' = DrmWrite(display, dev.n, t.at, Colors(t.size))
    BY <2>1, <2>6
  <2>8. PICK shade : display' = Paint(display, dev.n, shade)
    BY <2>7 DEF DrmWrite
  <2> HIDE DEF dev, fits
  <2>9. display.active # dev.n
    BY <2>3, <2>8, PaintParts
  <2> QED BY <2>3, <2>5, <2>6, <2>7, <2>9, WriteReaches
<1>2. CASE UseFreed \/ UNCHANGED vars
  BY <1>2 DEF UseFreed, vars, devVars, Wrote
<1>3. CASE MakeDevfs \/ MountTree \/ DevfsReload \/ DrmRegisterVfs \/ Lookup \/ DevfsRead \/ Draw
  <2>1. last'.op # "write"
    <3>1. CASE MakeDevfs \/ MountTree \/ DevfsReload \/ DrmRegisterVfs
      BY <3>1 DEF MakeDevfs, MountTree, DevfsReload, DrmRegisterVfs, Call
    <3>2. CASE DevfsRead
      BY <3>2 DEF DevfsRead, Call
    <3>3. CASE Lookup
      BY <3>3 DEF Lookup, Call
    <3>4. CASE Draw
      BY <3>4 DEF Draw, Call
    <3> QED BY <1>3, <3>1, <3>2, <3>3, <3>4
  <2> QED BY <2>1 DEF Wrote
<1> QED BY <1>1, <1>2, <1>3 DEF Next

\* A write is of so many pixels.
WriteSizes == last.op = "write" => last.result.at \in Nat /\ last.result.size \in Nat

\* Every step keeps it.
LEMMA WriteSizesNext ==
  ASSUME WriteSizes, [Next]_vars
  PROVE  WriteSizes'
<1>1. CASE DevfsWrite
  <2>1. PICK t \in Transfers : last'.result.at = t.at /\ last'.result.size = t.size
    BY <1>1 DEF DevfsWrite, Call
  <2> QED BY <2>1, CallsAssumption DEF WriteSizes
<1>2. CASE UseFreed \/ UNCHANGED vars
  BY <1>2 DEF UseFreed, vars, devVars, WriteSizes
<1>3. CASE MakeDevfs \/ MountTree \/ DevfsReload \/ DrmRegisterVfs
  BY <1>3 DEF MakeDevfs, MountTree, DevfsReload, DrmRegisterVfs, Call, WriteSizes
<1>4. CASE Lookup \/ DevfsRead
  BY <1>4 DEF Lookup, DevfsRead, Call, WriteSizes
<1>5. CASE Draw
  BY <1>5 DEF Draw, Call, WriteSizes
<1> QED BY <1>1, <1>2, <1>3, <1>4, <1>5 DEF Next

\* What DrmReadsBack says of a step.
ReadsBackStep ==
  LET dev == devices[last.result.dev]
  IN  /\ last.op = "write" /\ last'.op = "read" /\ last' # last
      /\ last'.result.dev = last.result.dev
      /\ dev.handler = "drm" /\ dev.n # display.active /\ Pitch = Width
      /\ last.result.code = "E_SUCCESS" /\ last'.result.code = "E_SUCCESS"
      => \A j \in DOMAIN last'.result.data :
           LET at == last'.result.at + j - 1 - last.result.at
           IN  at \in 0 .. last.result.size - 1 => last'.result.data[j] = at + 1

\* A read of what was written finds it.
LEMMA ReadsBackNext ==
  ASSUME FilesInv, Wrote, WriteSizes, [Next]_vars
  PROVE  ReadsBackStep
<1> DEFINE dev == devices[last.result.dev]
<1> SUFFICES ASSUME last.op = "write", last'.op = "read", last' # last,
                    last'.result.dev = last.result.dev,
                    dev.handler = "drm", dev.n # display.active, Pitch = Width,
                    last.result.code = "E_SUCCESS", last'.result.code = "E_SUCCESS",
                    NEW j \in DOMAIN last'.result.data,
                    last'.result.at + j - 1 - last.result.at \in 0 .. last.result.size - 1
             PROVE  last'.result.data[j] = last'.result.at + j - 1 - last.result.at + 1
  BY DEF ReadsBackStep
<1>1. DevfsRead
  <2>1. ~UseFreed /\ ~UNCHANGED vars
    BY DEF UseFreed, vars, devVars
  <2>2. ~MakeDevfs /\ ~MountTree /\ ~DevfsReload /\ ~DrmRegisterVfs
    BY DEF MakeDevfs, MountTree, DevfsReload, DrmRegisterVfs, Call
  <2>3. ~Lookup
    BY DEF Lookup, Call
  <2>4. ~DevfsWrite
    BY DEF DevfsWrite, Call
  <2>5. ~Draw
    BY DEF Draw, Call
  <2> QED BY <2>1, <2>2, <2>3, <2>4, <2>5 DEF Next
<1>2. PICK path \in Paths, t \in Transfers : last'.result = ReadResult(DevOf(path), t)
  BY <1>1 DEF DevfsRead, Call
<1>3. t.at \in Nat /\ t.size \in Nat
  BY CallsAssumption
<1> DEFINE d == devices[DevOf(path)]
           data == [i \in 1 .. t.size |-> display.back[d.n][t.at + i - 1]]
<1>4. DevOf(path) = last.result.dev
  BY <1>2 DEF ReadResult
<1>5. d = dev
  BY <1>4
<1>6. last'.result.at = t.at /\ last'.result.data = DrmRead(display, d.n, t.at, t.size)
  BY <1>2, <1>5 DEF ReadResult
<1>7. DrmRead(display, d.n, t.at, t.size) = data
  BY <1>5 DEF DrmRead
<1>8. j \in 1 .. t.size /\ last'.result.data[j] = display.back[dev.n][t.at + j - 1]
  BY <1>5, <1>6, <1>7
<1> HIDE DEF dev, d, data
<1> DEFINE i == t.at + j - 1 - last.result.at + 1
<1>9. i \in 1 .. last.result.size /\ last.result.at + i - 1 = t.at + j - 1
  <2>1. last.result.at \in Nat /\ last.result.size \in Nat
    BY DEF WriteSizes
  <2> QED BY <1>3, <1>6, <1>8, <2>1
<1>10. display.back[dev.n][last.result.at + i - 1] = i
  <2> HIDE DEF i
  <2> QED BY <1>9 DEF Wrote, dev
<1> QED BY <1>6, <1>8, <1>9, <1>10

\* At first the display is as the boot loader left it.
LEMMA DisplayInit ==
  ASSUME Init
  PROVE  IsDisplay(display) /\ Wrote /\ WriteSizes
<1>1. display = [active |-> 0, screen |-> Blank, back |-> [n \in Drms |-> Blank], outside |-> {}]
  BY DEF Init, DrmInit
<1>2. display.back = [n \in Drms |-> Blank]
  BY <1>1
<1>3. display = [active |-> display.active, screen |-> display.screen, back |-> display.back,
                 outside |-> display.outside]
  BY <1>1
<1>4. last.op = "none"
  BY DEF Init
<1> QED BY <1>2, <1>3, <1>4 DEF IsDisplay, Wrote, WriteSizes

\* A program reads back what it wrote to a drm that is not on the screen, if
\* rows have no padding (_drm_write, _drm_read).
THEOREM DrmReadsBackHolds == Spec => DrmReadsBack
<1> DEFINE I == FilesInv /\ WildCause /\ IsDisplay(display) /\ Wrote /\ WriteSizes
<1>1. Init => I
  BY FilesInit, DisplayInit
<1>2. I /\ [Next]_vars => I'
  BY FilesNext, DisplayNext, WroteNext, WriteSizesNext
<1>3. I /\ [Next]_vars => [ReadsBackStep]_vars
  BY ReadsBackNext
<1> HIDE DEF I
<1>4. Spec => [][ReadsBackStep]_vars
  BY <1>1, <1>2, <1>3, PTL DEF Spec
<1> QED BY <1>4 DEF DrmReadsBack, ReadsBackStep

-----------------------------------------------------------------------------
(***************************************************************************)
(* Lines.                                                                  *)
(***************************************************************************)
Flat(dx, dy) == Abs(dx) > Abs(dy)
Slow(dx, dy) == IF Flat(dx, dy) THEN Abs(dy) ELSE Abs(dx)
Fast(dx, dy) == IF Flat(dx, dy) THEN Abs(dx) ELSE Abs(dy)

Pens == [x : Int, y : Int, err : Int]

\* The pen after a step of the line.
Drawn(dx, dy, pen) ==
  LET err == pen.err - Slow(dx, dy)
  IN  IF err < 0
        THEN [x |-> pen.x + Sign(dx), y |-> pen.y + Sign(dy), err |-> err + Fast(dx, dy)]
        ELSE [x |-> pen.x + IF Flat(dx, dy) THEN Sign(dx) ELSE 0,
              y |-> pen.y + IF Flat(dx, dy) THEN 0 ELSE Sign(dy), err |-> err]

\* A number is its sign times its size.
LEMMA SignAbs ==
  ASSUME NEW n \in Int
  PROVE  /\ Sign(n) \in {-1, 0, 1} /\ Abs(n) \in Nat /\ n = Abs(n) * Sign(n)
         /\ (n = 0 <=> Abs(n) = 0) /\ (n = 0 <=> Sign(n) = 0)
         /\ Abs(n) = IF n < 0 THEN -n ELSE n
<1>1. CASE n > 0
  <2>1. Sign(n) = 1 /\ Abs(n) = n
    BY <1>1 DEF Sign, Abs
  <2> QED BY <1>1, <2>1
<1>2. CASE n < 0
  <2>1. Sign(n) = -1 /\ Abs(n) = -n
    BY <1>2 DEF Sign, Abs
  <2> QED BY <1>2, <2>1
<1>3. CASE n = 0
  <2>1. Sign(n) = 0 /\ Abs(n) = 0
    BY <1>3 DEF Sign, Abs
  <2> QED BY <1>3, <2>1
<1> QED BY <1>1, <1>2, <1>3

\* The two sides of a line.
LEMMA SidesTypes ==
  ASSUME NEW dx \in Int, NEW dy \in Int
  PROVE  /\ Slow(dx, dy) \in Nat /\ Fast(dx, dy) \in Nat /\ Slow(dx, dy) <= Fast(dx, dy)
         /\ Flat(dx, dy) \in BOOLEAN
         /\ \A pen \in Pens : Drawn(dx, dy, pen) \in Pens
<1>1. /\ Sign(dx) \in Int /\ Abs(dx) \in Nat /\ Sign(dy) \in Int /\ Abs(dy) \in Nat
  BY SignAbs
<1>2. Slow(dx, dy) \in Nat /\ Fast(dx, dy) \in Nat /\ Slow(dx, dy) <= Fast(dx, dy)
  BY <1>1 DEF Slow, Fast, Flat
<1>3. ASSUME NEW pen \in Pens
      PROVE  Drawn(dx, dy, pen) \in Pens
  <2>1. pen.x \in Int /\ pen.y \in Int /\ pen.err \in Int
    BY DEF Pens
  <2> QED BY <1>1, <1>2, <2>1 DEF Drawn, Pens
<1> QED BY <1>2, <1>3 DEF Flat

\* drm_plot_line draws with a pen that goes step by step.
LinePen(p, q, pen) ==
  LET dx == q[1] - p[1]
      dy == q[2] - p[2]
  IN  /\ pen \in [0 .. Fast(dx, dy) -> Pens]
      /\ pen[0] = [x |-> p[1], y |-> p[2], err |-> Fast(dx, dy) \div 2]
      /\ \A t \in 1 .. Fast(dx, dy) : pen[t] = Drawn(dx, dy, pen[t - 1])
      /\ DrmPlotLine(p, q) = {<<pen[t].x, pen[t].y>> : t \in 0 .. Fast(dx, dy)}

\* There is such a pen for every line.
LEMMA LinePens ==
  ASSUME NEW p \in Int \X Int, NEW q \in Int \X Int
  PROVE  \E pen : LinePen(p, q, pen)
<1> DEFINE dx == q[1] - p[1]
           dy == q[2] - p[2]
           n == Fast(dx, dy)
           s == [x |-> p[1], y |-> p[2], err |-> n \div 2]
           F == [z \in (1 .. n) \X Pens |-> Drawn(dx, dy, z[2])]
           Recurs(f) == f = [t \in 0 .. n |-> IF t = 0 THEN s ELSE Drawn(dx, dy, f[t - 1])]
           pen == CHOOSE f : Recurs(f)
<1>1. p[1] \in Int /\ p[2] \in Int /\ dx \in Int /\ dy \in Int
  OBVIOUS
<1>2. n \in Nat /\ \A g \in Pens : Drawn(dx, dy, g) \in Pens
  BY <1>1, SidesTypes
<1>3. DrmPlotLine(p, q) = {<<pen[t].x, pen[t].y>> : t \in 0 .. n}
  BY DEF DrmPlotLine, Drawn, Fast, Slow, Flat
<1> HIDE DEF dx, dy, n
<1>4. s \in Pens
  BY <1>1, <1>2 DEF Pens
<1>5. F \in [(1 .. n) \X Pens -> Pens]
  BY <1>2
<1>6. \A k \in 1 .. n, g \in Pens : F[<<k, g>>] = Drawn(dx, dy, g)
  OBVIOUS
<1> HIDE DEF F, s
<1>7. PICK g \in [0 .. n -> Pens] : g[0] = s /\ \A k \in 1 .. n : g[k] = F[<<k, g[k - 1]>>]
  <2>1. Iterates(n, Pens, s, F)
    BY <1>2, <1>4, <1>5, Iteration
  <2> QED BY <2>1 DEF Iterates
<1>8. \A k \in 1 .. n : g[k] = Drawn(dx, dy, g[k - 1])
  <2>1. \A k \in 1 .. n : g[k - 1] \in Pens
    BY <1>2, <1>7
  <2> QED BY <1>6, <1>7, <2>1
<1>9. Recurs(g)
  <2>1. \A k \in 0 .. n : g[k] = IF k = 0 THEN s ELSE Drawn(dx, dy, g[k - 1])
    <3> TAKE k \in 0 .. n
    <3>1. CASE k = 0
      BY <1>7, <3>1
    <3>2. CASE k # 0
      <4>1. k \in 1 .. n
        BY <1>2, <3>2
      <4> QED BY <1>8, <3>2, <4>1
    <3> QED BY <3>1, <3>2
  <2> QED BY <1>7, <2>1
<1>10. Recurs(pen)
  <2> HIDE DEF Recurs
  <2> QED BY <1>9
<1> HIDE DEF pen
<1>11. \A k \in 0 .. n : pen[k] = IF k = 0 THEN s ELSE Drawn(dx, dy, pen[k - 1])
  BY <1>10
<1>12. pen[0] = s /\ \A k \in 1 .. n : pen[k] = Drawn(dx, dy, pen[k - 1])
  BY <1>2, <1>11
<1>13. pen \in [0 .. n -> Pens]
  <2> DEFINE T == {k \in 0 .. n : pen[k] \in Pens}
  <2>1. 0 \in T
    BY <1>2, <1>4, <1>12
  <2>2. ASSUME NEW k \in 0 .. n - 1, k \in T
        PROVE  k + 1 \in T
    <3>1. k + 1 \in 1 .. n /\ k + 1 \in 0 .. n /\ (k + 1) - 1 = k
      BY <1>2, <2>2
    <3>2. pen[k + 1] = Drawn(dx, dy, pen[k])
      BY <1>12, <3>1
    <3> QED BY <1>2, <2>2, <3>1, <3>2
  <2> HIDE DEF T
  <2>3. 0 .. n \subseteq T
    BY <1>2, <2>1, <2>2, InductionTo
  <2>4. pen = [k \in 0 .. n |-> pen[k]]
    BY <1>10
  <2> QED BY <2>3, <2>4 DEF T
<1> QED BY <1>3, <1>12, <1>13 DEF LinePen, s, n, dx, dy

\* After t steps the pen is t points along the long side and k along the
\* short one, and its error says how far it is from the line.
After(fast, slow, t, k, err) ==
  /\ k \in Int /\ err = fast \div 2 - t * slow + k * fast
  /\ err >= 0 /\ (err < fast \/ fast = 0)

\* A step keeps the error between 0 and the long side.
LEMMA AfterNext ==
  ASSUME NEW fast \in Nat, NEW slow \in Nat, slow <= fast, NEW t \in Nat, NEW k, NEW err \in Int,
         After(fast, slow, t, k, err), t < fast
  PROVE  /\ err - slow < 0 => After(fast, slow, t + 1, k + 1, err - slow + fast)
         /\ err - slow >= 0 => After(fast, slow, t + 1, k, err - slow)
<1> DEFINE a == t * slow
           b == k * fast
           h == fast \div 2
<1>1. k \in Int /\ err = h - a + b /\ err >= 0 /\ err < fast
  BY DEF After
<1>2. a \in Int /\ b \in Int /\ h \in Int
  BY <1>1
<1>3. (t + 1) * slow = a + slow /\ (k + 1) * fast = b + fast
  BY <1>1
<1> HIDE DEF a, b, h
<1>4. ASSUME err - slow < 0
      PROVE  After(fast, slow, t + 1, k + 1, err - slow + fast)
  <2>1. err - slow + fast >= 0 /\ err - slow + fast < fast
    BY <1>1, <1>4
  <2>2. err - slow + fast = h - (a + slow) + (b + fast)
    BY <1>1, <1>2
  <2> QED BY <1>1, <1>3, <2>1, <2>2 DEF After, h
<1>5. ASSUME err - slow >= 0
      PROVE  After(fast, slow, t + 1, k, err - slow)
  <2>1. err - slow < fast
    BY <1>1
  <2>2. err - slow = h - (a + slow) + b
    BY <1>1, <1>2
  <2> QED BY <1>1, <1>3, <1>5, <2>1, <2>2 DEF After, h, b
<1> QED BY <1>4, <1>5

\* At its end the pen has gone the whole short side.
LEMMA AfterEnd ==
  ASSUME NEW fast \in Nat, NEW slow \in Nat, slow <= fast, NEW k, NEW err \in Int,
         After(fast, slow, fast, k, err), fast # 0
  PROVE  k = slow
<1> DEFINE h == fast \div 2
<1>1. k \in Int /\ err = h - fast * slow + k * fast /\ err >= 0 /\ err < fast /\ h >= 0 /\ h < fast
      /\ h \in Int
  BY DEF After
<1> HIDE DEF h
<1>2. (k - slow) * fast = err - h
  BY <1>1
<1>3. (k - slow) * fast < fast /\ (k - slow) * fast > -fast
  BY <1>1, <1>2
<1>4. ASSUME NEW z \in Int, z * fast < fast, z * fast > -fast
      PROVE  z = 0
  <2>1. CASE z >= 1
    <3>1. z * fast >= 1 * fast
      BY <2>1
    <3> QED BY <1>4, <3>1
  <2>2. CASE z <= -1
    <3>1. z * fast <= (-1) * fast
      BY <2>2
    <3> QED BY <1>4, <3>1
  <2> QED BY <1>4, <2>1, <2>2
<1>5. k - slow \in Int
  BY <1>1
<1>6. k - slow = 0
  BY <1>3, <1>4, <1>5
<1> QED BY <1>1, <1>6

\* No point is more than half a pixel off the line.
LEMMA AfterNear ==
  ASSUME NEW fast \in Nat, NEW slow \in Nat, slow <= fast, NEW t \in Nat, NEW k, NEW err \in Int,
         After(fast, slow, t, k, err)
  PROVE  2 * (t * slow - k * fast) \in -fast .. fast
<1> DEFINE a == t * slow
           b == k * fast
           h == fast \div 2
           r == fast % 2
<1>1. a \in Int /\ b \in Int /\ err = h - a + b /\ err >= 0 /\ (err < fast \/ fast = 0)
  BY DEF After
<1>2. h \in Nat /\ r \in 0 .. 1 /\ fast = 2 * h + r
  OBVIOUS
<1>3. fast = 0 => a = 0 /\ b = 0
  <2> SUFFICES ASSUME fast = 0 PROVE a = 0 /\ b = 0
    OBVIOUS
  <2>1. slow = 0 /\ k \in Int
    BY DEF After
  <2>2. t * 0 = 0 /\ k * 0 = 0
    BY <2>1
  <2> QED BY <2>1, <2>2
<1> HIDE DEF a, b, h, r
<1>4. a - b = h - err
  BY <1>1, <1>2
<1>5. CASE fast = 0
  <2>1. 2 * (a - b) \in -fast .. fast
    BY <1>3, <1>5
  <2> QED BY <2>1 DEF a, b
<1>6. CASE err < fast
  <2>1. 2 * (h - err) \in -fast .. fast
    BY <1>1, <1>2, <1>6
  <2>2. 2 * (a - b) \in -fast .. fast
    BY <1>4, <2>1
  <2> QED BY <2>2 DEF a, b
<1> QED BY <1>1, <1>5, <1>6

\* Bresenham's algorithm, along a long side and a short one.
Walks(fast, slow, a, b, sf, ss, u, v, e) ==
  /\ u[0] = a /\ v[0] = b /\ e[0] = fast \div 2
  /\ \A t \in 0 .. fast : u[t] \in Int /\ v[t] \in Int /\ e[t] \in Int
  /\ \A t \in 1 .. fast :
       /\ u[t] = u[t - 1] + sf
       /\ e[t - 1] - slow < 0 => v[t] = v[t - 1] + ss /\ e[t] = e[t - 1] - slow + fast
       /\ e[t - 1] - slow >= 0 => v[t] = v[t - 1] /\ e[t] = e[t - 1] - slow

\* Where the pen is after t steps.
Stops(fast, slow, a, b, sf, ss, t, x, y) ==
  /\ x = a + t * sf
  /\ \E k, err \in Int : After(fast, slow, t, k, err) /\ y = b + k * ss

\* There it is after each step.
LEMMA WalksStops ==
  ASSUME NEW fast \in Nat, NEW slow \in Nat, slow <= fast, NEW a \in Int, NEW b \in Int,
         NEW sf \in Int, NEW ss \in Int, NEW u, NEW v, NEW e,
         Walks(fast, slow, a, b, sf, ss, u, v, e)
  PROVE  \A t \in 0 .. fast : Stops(fast, slow, a, b, sf, ss, t, u[t], v[t])
<1> DEFINE At(t, k) == u[t] = a + t * sf /\ After(fast, slow, t, k, e[t]) /\ v[t] = b + k * ss
           T == {t \in 0 .. fast : \E k \in Int : At(t, k)}
<1>1. 0 \in T
  <2>1. At(0, 0)
    <3>1. 0 * sf = 0 /\ 0 * ss = 0 /\ 0 * slow = 0 /\ 0 * fast = 0
      OBVIOUS
    <3>2. u[0] = a /\ v[0] = b /\ e[0] = fast \div 2
      BY DEF Walks
    <3>3. fast \div 2 >= 0 /\ (fast \div 2 < fast \/ fast = 0)
      OBVIOUS
    <3>4. After(fast, slow, 0, 0, fast \div 2)
      BY <3>1, <3>3 DEF After
    <3> QED BY <3>1, <3>2, <3>4
  <2> HIDE DEF At
  <2> QED BY <2>1
<1>2. ASSUME NEW t \in 0 .. fast - 1, t \in T
      PROVE  t + 1 \in T
  <2>1. PICK k \in Int : At(t, k)
    BY <1>2
  <2>2. t \in Nat /\ t < fast /\ t + 1 \in 1 .. fast /\ t + 1 \in 0 .. fast /\ (t + 1) - 1 = t
    BY <1>2
  <2>3. e[t] \in Int /\ u[t + 1] = u[t] + sf
        /\ (e[t] - slow < 0 => v[t + 1] = v[t] + ss /\ e[t + 1] = e[t] - slow + fast)
        /\ (e[t] - slow >= 0 => v[t + 1] = v[t] /\ e[t + 1] = e[t] - slow)
    <3>1. \A i \in 1 .. fast :
            /\ u[i] = u[i - 1] + sf
            /\ e[i - 1] - slow < 0 => v[i] = v[i - 1] + ss /\ e[i] = e[i - 1] - slow + fast
            /\ e[i - 1] - slow >= 0 => v[i] = v[i - 1] /\ e[i] = e[i - 1] - slow
      BY DEF Walks
    <3>2. e[t] \in Int
      BY <1>2, <2>2 DEF Walks
    <3> QED BY <2>2, <3>1, <3>2
  <2>4. /\ e[t] - slow < 0 => After(fast, slow, t + 1, k + 1, e[t] - slow + fast)
        /\ e[t] - slow >= 0 => After(fast, slow, t + 1, k, e[t] - slow)
    BY <2>1, <2>2, <2>3, AfterNext
  <2>5. u[t + 1] = a + (t + 1) * sf
    <3>1. u[t] = a + t * sf
      BY <2>1
    <3>2. (t + 1) * sf = t * sf + sf /\ t * sf \in Int
      BY <2>2
    <3> QED BY <2>3, <3>1, <3>2
  <2>6. CASE e[t] - slow < 0
    <3>1. v[t + 1] = b + (k + 1) * ss
      <4>1. v[t] = b + k * ss
        BY <2>1
      <4>2. (k + 1) * ss = k * ss + ss /\ k * ss \in Int
        OBVIOUS
      <4> QED BY <2>3, <2>6, <4>1, <4>2
    <3>2. At(t + 1, k + 1)
      BY <2>3, <2>4, <2>5, <2>6, <3>1
    <3> HIDE DEF At
    <3>3. k + 1 \in Int
      OBVIOUS
    <3> QED BY <2>2, <3>2, <3>3
  <2>7. CASE e[t] - slow >= 0
    <3>1. At(t + 1, k)
      BY <2>1, <2>3, <2>4, <2>5, <2>7
    <3> HIDE DEF At
    <3> QED BY <2>2, <3>1
  <2> QED BY <2>3, <2>6, <2>7
<1> HIDE DEF T
<1>3. 0 .. fast \subseteq T
  BY <1>1, <1>2, InductionTo
<1> SUFFICES ASSUME NEW t \in 0 .. fast
             PROVE  Stops(fast, slow, a, b, sf, ss, t, u[t], v[t])
  OBVIOUS
<1>4. PICK k \in Int : At(t, k)
  BY <1>3 DEF T
<1>5. e[t] \in Int
  BY DEF Walks
<1> QED BY <1>4, <1>5 DEF Stops

\* A line goes along its long side, from one end to the other.
LEMMA LineStops ==
  ASSUME NEW p \in Int \X Int, NEW q \in Int \X Int, NEW pen, LinePen(p, q, pen)
  PROVE  LET dx == q[1] - p[1]
             dy == q[2] - p[2]
             fast == Fast(dx, dy)
             slow == Slow(dx, dy)
         IN  \A t \in 0 .. fast :
               /\ pen[t].x \in Int /\ pen[t].y \in Int
               /\ Flat(dx, dy) =>
                    Stops(fast, slow, p[1], p[2], Sign(dx), Sign(dy), t, pen[t].x, pen[t].y)
               /\ ~Flat(dx, dy) =>
                    Stops(fast, slow, p[2], p[1], Sign(dy), Sign(dx), t, pen[t].y, pen[t].x)
<1> DEFINE dx == q[1] - p[1]
           dy == q[2] - p[2]
           fast == Fast(dx, dy)
           slow == Slow(dx, dy)
           x == [t \in 0 .. fast |-> pen[t].x]
           y == [t \in 0 .. fast |-> pen[t].y]
           e == [t \in 0 .. fast |-> pen[t].err]
<1>1. p[1] \in Int /\ p[2] \in Int /\ dx \in Int /\ dy \in Int
  OBVIOUS
<1>2. fast \in Nat /\ slow \in Nat /\ slow <= fast
  BY <1>1, SidesTypes
<1>3. Sign(dx) \in Int /\ Sign(dy) \in Int
  BY <1>1, SignAbs
<1>4. /\ pen \in [0 .. fast -> Pens] /\ pen[0] = [x |-> p[1], y |-> p[2], err |-> fast \div 2]
      /\ \A t \in 1 .. fast : pen[t] = Drawn(dx, dy, pen[t - 1])
  BY DEF LinePen
<1>5. \A t \in 0 .. fast : pen[t].x \in Int /\ pen[t].y \in Int /\ pen[t].err \in Int
  BY <1>4 DEF Pens
<1> DEFINE sx == Sign(dx)
           sy == Sign(dy)
<1>6. \A t \in 1 .. fast :
        /\ pen[t - 1].err - slow < 0 =>
             /\ pen[t].x = pen[t - 1].x + sx /\ pen[t].y = pen[t - 1].y + sy
             /\ pen[t].err = pen[t - 1].err - slow + fast
        /\ pen[t - 1].err - slow >= 0 =>
             /\ pen[t].x = pen[t - 1].x + IF Flat(dx, dy) THEN sx ELSE 0
             /\ pen[t].y = pen[t - 1].y + IF Flat(dx, dy) THEN 0 ELSE sy
             /\ pen[t].err = pen[t - 1].err - slow
  <2> TAKE t \in 1 .. fast
  <2>1. pen[t] = Drawn(dx, dy, pen[t - 1]) /\ pen[t - 1].err \in Int
    <3>1. t - 1 \in 0 .. fast
      BY <1>2
    <3> QED BY <1>4, <1>5, <3>1
  <2>2. slow \in Int /\ slow = Slow(dx, dy) /\ fast = Fast(dx, dy)
    BY <1>2
  <2> HIDE DEF slow, fast, dx, dy
  <2> DEFINE g == pen[t - 1]
  <2>3. pen[t] = Drawn(dx, dy, g) /\ g.err \in Int
    BY <2>1
  <2> HIDE DEF g
  <2>4. CASE g.err - slow < 0
    BY <2>2, <2>3, <2>4 DEF Drawn, sx, sy, g
  <2>5. CASE g.err - slow >= 0
    BY <2>2, <2>3, <2>5 DEF Drawn, sx, sy, g
  <2> QED BY <2>2, <2>3, <2>4, <2>5 DEF g
<1>7. /\ x[0] = p[1] /\ y[0] = p[2] /\ e[0] = fast \div 2
      /\ \A t \in 0 .. fast : x[t] \in Int /\ y[t] \in Int /\ e[t] \in Int
  BY <1>2, <1>4, <1>5
<1>8. \A t \in 1 .. fast : t - 1 \in 0 .. fast /\ t \in 0 .. fast
  BY <1>2
<1>9. \A t \in 1 .. fast :
        /\ e[t - 1] - slow < 0 =>
             x[t] = x[t - 1] + sx /\ y[t] = y[t - 1] + sy /\ e[t] = e[t - 1] - slow + fast
        /\ e[t - 1] - slow >= 0 =>
             /\ x[t] = x[t - 1] + IF Flat(dx, dy) THEN sx ELSE 0
             /\ y[t] = y[t - 1] + IF Flat(dx, dy) THEN 0 ELSE sy
             /\ e[t] = e[t - 1] - slow
  BY <1>6, <1>8
<1>10. \A t \in 0 .. fast : x[t] = pen[t].x /\ y[t] = pen[t].y
  OBVIOUS
<1> HIDE DEF dx, dy, fast, slow, x, y, e, sx, sy
<1>11. CASE Flat(dx, dy)
  <2>1. \A t \in 1 .. fast : x[t - 1] \in Int /\ y[t - 1] \in Int /\ e[t - 1] \in Int
    BY <1>7, <1>8
  <2>2. Walks(fast, slow, p[1], p[2], sx, sy, x, y, e)
    BY <1>2, <1>7, <1>9, <1>11, <2>1 DEF Walks
  <2>3. sx \in Int /\ sy \in Int
    BY <1>3 DEF sx, sy
  <2>4. \A t \in 0 .. fast : Stops(fast, slow, p[1], p[2], sx, sy, t, x[t], y[t])
    BY <1>1, <1>2, <2>2, <2>3, WalksStops
  <2> QED BY <1>5, <1>10, <1>11, <2>4 DEF sx, sy, fast, slow, dx, dy
<1>12. CASE ~Flat(dx, dy)
  <2>1. \A t \in 1 .. fast : x[t - 1] \in Int /\ y[t - 1] \in Int /\ e[t - 1] \in Int
    BY <1>7, <1>8
  <2>2. Walks(fast, slow, p[2], p[1], sy, sx, y, x, e)
    BY <1>2, <1>7, <1>9, <1>12, <2>1 DEF Walks
  <2>3. sx \in Int /\ sy \in Int
    BY <1>3 DEF sx, sy
  <2>4. \A t \in 0 .. fast : Stops(fast, slow, p[2], p[1], sy, sx, t, y[t], x[t])
    BY <1>1, <1>2, <2>2, <2>3, WalksStops
  <2> QED BY <1>5, <1>10, <1>12, <2>4 DEF sx, sy, fast, slow, dx, dy
<1> QED BY <1>11, <1>12

\* t points along the long side and k along the short one are near a line.
NearLine(fast, slow, t, k) == 2 * (t * slow - k * fast) \in -fast .. fast

\* The same of a line that goes where sf and ss say.
NearSigned(fast, slow, sf, ss, t, k) ==
  /\ 2 * Abs((t * sf) * (slow * ss) - (k * ss) * (fast * sf)) <= fast
  /\ 2 * Abs((k * ss) * (fast * sf) - (t * sf) * (slow * ss)) <= fast

Signs == {-1, 0, 1}

\* The distance from the line does not depend on where the line goes.
LEMMA OffLine ==
  ASSUME NEW t \in Int, NEW k \in Int, NEW slow \in Int, NEW fast \in Int,
         NEW sf \in Signs, NEW ss \in Signs, fast >= 0, NearLine(fast, slow, t, k)
  PROVE  NearSigned(fast, slow, sf, ss, t, k)
<1> DEFINE a == t * slow
           b == k * fast
           d == (t * sf) * (slow * ss) - (k * ss) * (fast * sf)
<1>0. sf \in Int /\ ss \in Int
  BY DEF Signs
<1>1. a \in Int /\ b \in Int /\ 2 * (a - b) \in -fast .. fast
  BY DEF NearLine
<1>2. d \in {a - b, b - a, 0}
  <2>1. CASE sf = 0
    <3>1. t * sf = 0 /\ fast * sf = 0
      BY <2>1
    <3>2. 0 * (slow * ss) = 0 /\ (k * ss) * 0 = 0
      BY <1>0
    <3> QED BY <3>1, <3>2
  <2>2. CASE ss = 0
    <3>1. slow * ss = 0 /\ k * ss = 0
      BY <2>2
    <3>2. (t * sf) * 0 = 0 /\ 0 * (fast * sf) = 0
      BY <1>0
    <3> QED BY <3>1, <3>2
  <2>3. CASE sf = 1
    <3>1. t * sf = t /\ fast * sf = fast
      BY <2>3
    <3>2. CASE ss = 1
      <4>1. slow * ss = slow /\ k * ss = k
        BY <3>2
      <4> QED BY <3>1, <4>1
    <3>3. CASE ss = -1
      <4>1. slow * ss = -slow /\ k * ss = -k
        BY <3>3
      <4>2. t * (-slow) = -a /\ (-k) * fast = -b
        OBVIOUS
      <4> QED BY <3>1, <4>1, <4>2
    <3> QED BY <2>2, <3>2, <3>3 DEF Signs
  <2>4. CASE sf = -1
    <3>1. t * sf = -t /\ fast * sf = -fast
      BY <2>4
    <3>2. CASE ss = 1
      <4>1. slow * ss = slow /\ k * ss = k
        BY <3>2
      <4>2. (-t) * slow = -a /\ k * (-fast) = -b
        OBVIOUS
      <4> QED BY <3>1, <4>1, <4>2
    <3>3. CASE ss = -1
      <4>1. slow * ss = -slow /\ k * ss = -k
        BY <3>3
      <4>2. (-t) * (-slow) = a /\ (-k) * (-fast) = b
        OBVIOUS
      <4> QED BY <3>1, <4>1, <4>2
    <3> QED BY <2>2, <3>2, <3>3 DEF Signs
  <2> QED BY <2>1, <2>3, <2>4 DEF Signs
<1>3. (k * ss) * (fast * sf) - (t * sf) * (slow * ss) = -d
  BY <1>0
<1> HIDE DEF a, b, d
<1>4. d \in Int /\ -d \in Int
  BY <1>1, <1>2
<1>5. Abs(d) = (IF d < 0 THEN -d ELSE d) /\ Abs(-d) = (IF -d < 0 THEN -(-d) ELSE -d)
  BY <1>4, SignAbs
<1>6. 2 * Abs(d) <= fast /\ 2 * Abs(-d) <= fast
  BY <1>1, <1>2, <1>4, <1>5
<1> QED BY <1>3, <1>6 DEF d, NearSigned

\* One point for each step.
LEMMA PointsOfSteps ==
  ASSUME NEW n \in Nat, NEW g, \A i, j \in 0 .. n : g[i] = g[j] => i = j
  PROVE  Cardinality({g[t] : t \in 0 .. n}) = n + 1
<1> DEFINE S == 0 .. n
           P == {g[t] : t \in 0 .. n}
           f == [t \in S |-> g[t]]
<1>1. IsFiniteSet(S) /\ Cardinality(S) = n + 1
  BY FS_Interval
<1>2. f \in [S -> P] /\ \A i, j \in S : f[i] = f[j] => i = j
  OBVIOUS
<1>3. \A z \in P : \E t \in S : f[t] = z
  OBVIOUS
<1> HIDE DEF S, P, f
<1>4. f \in Bijection(S, P)
  BY <1>2, <1>3, Zenon DEF Bijection, Injection, Surjection, IsInjective
<1>5. ExistsBijection(S, P)
  BY <1>4 DEF ExistsBijection
<1>6. Cardinality(P) = n + 1
  BY <1>1, <1>5, FS_Bijection
<1> QED BY <1>6 DEF P

\* The greater of two numbers.
LEMMA GreaterOf ==
  ASSUME NEW a \in Int, NEW b \in Int
  PROVE  Max({a, b}) = (IF a > b THEN a ELSE b) /\ Min({a, b}) = (IF a > b THEN b ELSE a)
<1>1. Max({a, b}) = IF a > b THEN a ELSE b
  <2> DEFINE m == IF a > b THEN a ELSE b
  <2>1. m \in {a, b} /\ \A y \in {a, b} : m >= y
    OBVIOUS
  <2>2. \A x \in {a, b} : (\A y \in {a, b} : x >= y) => x = m
    OBVIOUS
  <2> HIDE DEF m
  <2>3. Max({a, b}) = m
    BY <2>1, <2>2 DEF Max
  <2> QED BY <2>3 DEF m
<1>2. Min({a, b}) = IF a > b THEN b ELSE a
  <2> DEFINE m == IF a > b THEN b ELSE a
  <2>1. m \in {a, b} /\ \A y \in {a, b} : m <= y
    OBVIOUS
  <2>2. \A x \in {a, b} : (\A y \in {a, b} : x <= y) => x = m
    OBVIOUS
  <2> HIDE DEF m
  <2>3. Min({a, b}) = m
    BY <2>1, <2>2 DEF Min
  <2> QED BY <2>3 DEF m
<1> QED BY <1>1, <1>2

\* Where a walk along a long side of a given direction ends.
LEMMA StopsEnd ==
  ASSUME NEW fast \in Nat, NEW slow \in Nat, slow <= fast, NEW a \in Int, NEW b \in Int,
         NEW sf \in Int, NEW ss \in Int, NEW x, NEW y, fast # 0,
         Stops(fast, slow, a, b, sf, ss, fast, x, y)
  PROVE  x = a + fast * sf /\ y = b + slow * ss
BY AfterEnd DEF Stops

\* What a line is (drm_plot_line).
WholeLine(p, q) ==
  LET points == DrmPlotLine(p, q)
      dx == q[1] - p[1]
      dy == q[2] - p[2]
  IN  /\ {p, q} \subseteq points /\ Cardinality(points) = Fast(dx, dy) + 1
      /\ \A z \in points : 2 * Abs((z[1] - p[1]) * dy - (z[2] - p[2]) * dx) <= Fast(dx, dy)

\* Every line is whole.
LEMMA LineWhole ==
  ASSUME NEW p \in Int \X Int, NEW q \in Int \X Int
  PROVE  WholeLine(p, q)
<1> DEFINE dx == q[1] - p[1]
           dy == q[2] - p[2]
           fast == Fast(dx, dy)
           slow == Slow(dx, dy)
           sx == Sign(dx)
           sy == Sign(dy)
           points == DrmPlotLine(p, q)
<1>1. /\ p = <<p[1], p[2]>> /\ q = <<q[1], q[2]>> /\ p[1] \in Int /\ p[2] \in Int
      /\ dx \in Int /\ dy \in Int /\ q[1] = p[1] + dx /\ q[2] = p[2] + dy
  OBVIOUS
<1>2. fast \in Nat /\ slow \in Nat /\ slow <= fast
  BY <1>1, SidesTypes
<1>3. /\ sx \in {-1, 0, 1} /\ dx = Abs(dx) * sx /\ (dx = 0 <=> sx = 0)
      /\ sy \in {-1, 0, 1} /\ dy = Abs(dy) * sy /\ (dy = 0 <=> sy = 0)
      /\ Abs(dx) \in Nat /\ Abs(dy) \in Nat
      /\ (dx = 0 <=> Abs(dx) = 0) /\ (dy = 0 <=> Abs(dy) = 0)
  BY <1>1, SignAbs
<1>4. PICK pen : LinePen(p, q, pen)
  BY LinePens
<1>5. pen[0].x = p[1] /\ pen[0].y = p[2] /\ points = {<<pen[t].x, pen[t].y>> : t \in 0 .. fast}
  BY <1>4 DEF LinePen
<1>6. \A t \in 0 .. fast :
        /\ pen[t].x \in Int /\ pen[t].y \in Int
        /\ Flat(dx, dy) => Stops(fast, slow, p[1], p[2], sx, sy, t, pen[t].x, pen[t].y)
        /\ ~Flat(dx, dy) => Stops(fast, slow, p[2], p[1], sy, sx, t, pen[t].y, pen[t].x)
  BY <1>4, LineStops
<1> HIDE DEF dx, dy, sx, sy, points
<1>7. /\ Flat(dx, dy) => fast = Abs(dx) /\ slow = Abs(dy) /\ dx # 0
      /\ ~Flat(dx, dy) => fast = Abs(dy) /\ slow = Abs(dx)
      /\ ~Flat(dx, dy) /\ fast # 0 => dy # 0
      /\ fast = 0 => dx = 0 /\ dy = 0
  <2>1. CASE Flat(dx, dy)
    <3>1. fast = Abs(dx) /\ slow = Abs(dy)
      BY <2>1 DEF Fast, Slow
    <3>2. Abs(dx) > Abs(dy)
      BY <2>1 DEF Flat
    <3> HIDE DEF fast, slow
    <3>3. Abs(dx) # 0
      BY <1>3, <3>2
    <3> QED BY <1>3, <2>1, <3>1, <3>3
  <2>2. CASE ~Flat(dx, dy)
    <3>1. fast = Abs(dy) /\ slow = Abs(dx)
      BY <2>2 DEF Fast, Slow
    <3>2. ~(Abs(dx) > Abs(dy))
      BY <2>2 DEF Flat
    <3> HIDE DEF fast, slow
    <3>3. Abs(dy) = 0 => Abs(dx) = 0
      BY <1>3, <3>2
    <3> QED BY <1>3, <2>2, <3>1, <3>3
  <2> QED BY <2>1, <2>2
<1> HIDE DEF fast, slow
<1>8. p \in points /\ q \in points
  <2>1. 0 \in 0 .. fast /\ fast \in 0 .. fast
    BY <1>2
  <2>2. p \in points
    BY <1>1, <1>5, <2>1
  <2>3. CASE fast = 0
    <3>1. q = p
      BY <1>1, <1>7, <2>3
    <3> QED BY <2>2, <3>1
  <2>4. CASE fast # 0
    <3>1. pen[fast].x = q[1] /\ pen[fast].y = q[2]
      <4>1. CASE Flat(dx, dy)
        <5>1. Stops(fast, slow, p[1], p[2], sx, sy, fast, pen[fast].x, pen[fast].y)
          BY <1>6, <2>1, <4>1
        <5>2. pen[fast].x = p[1] + fast * sx /\ pen[fast].y = p[2] + slow * sy
          BY <1>1, <1>2, <1>3, <2>4, <5>1, StopsEnd
        <5> QED BY <1>1, <1>3, <1>7, <4>1, <5>2
      <4>2. CASE ~Flat(dx, dy)
        <5>1. Stops(fast, slow, p[2], p[1], sy, sx, fast, pen[fast].y, pen[fast].x)
          BY <1>6, <2>1, <4>2
        <5>2. pen[fast].y = p[2] + fast * sy /\ pen[fast].x = p[1] + slow * sx
          BY <1>1, <1>2, <1>3, <2>4, <5>1, StopsEnd
        <5> QED BY <1>1, <1>3, <1>7, <4>2, <5>2
      <4> QED BY <4>1, <4>2
    <3> QED BY <1>1, <1>5, <2>1, <3>1
  <2> QED BY <2>2, <2>3, <2>4
<1>9. Cardinality(points) = fast + 1
  <2> DEFINE g == [t \in 0 .. fast |-> <<pen[t].x, pen[t].y>>]
  <2>1. points = {g[t] : t \in 0 .. fast}
    BY <1>5
  <2>2. ASSUME NEW i \in 0 .. fast, NEW j \in 0 .. fast, g[i] = g[j]
        PROVE  i = j
    <3>1. pen[i].x = pen[j].x /\ pen[i].y = pen[j].y /\ i \in Nat /\ j \in Nat
      BY <2>2
    <3>2. ASSUME NEW s \in {-1, 1}, i * s = j * s
          PROVE  i = j
      BY <3>1, <3>2
    <3>3. CASE fast = 0
      BY <3>3
    <3>4. CASE fast # 0 /\ Flat(dx, dy)
      <4>1. pen[i].x = p[1] + i * sx /\ pen[j].x = p[1] + j * sx
        BY <1>6, <3>4 DEF Stops
      <4>2. sx \in {-1, 1}
        BY <1>3, <1>7, <3>4
      <4>3. i * sx \in Int /\ j * sx \in Int
        BY <3>1, <4>2
      <4>4. i * sx = j * sx
        <5> DEFINE m == i * sx
                   n == j * sx
        <5>1. m \in Int /\ n \in Int /\ p[1] + m = p[1] + n
          BY <3>1, <4>1, <4>3
        <5> HIDE DEF m, n
        <5>2. m = n
          BY <1>1, <5>1
        <5> QED BY <5>2 DEF m, n
      <4> QED BY <3>2, <4>2, <4>4
    <3>5. CASE fast # 0 /\ ~Flat(dx, dy)
      <4>1. pen[i].y = p[2] + i * sy /\ pen[j].y = p[2] + j * sy
        BY <1>6, <3>5 DEF Stops
      <4>2. sy \in {-1, 1}
        BY <1>3, <1>7, <3>5
      <4>3. i * sy \in Int /\ j * sy \in Int
        BY <3>1, <4>2
      <4>4. i * sy = j * sy
        <5> DEFINE m == i * sy
                   n == j * sy
        <5>1. m \in Int /\ n \in Int /\ p[2] + m = p[2] + n
          BY <3>1, <4>1, <4>3
        <5> HIDE DEF m, n
        <5>2. m = n
          BY <1>1, <5>1
        <5> QED BY <5>2 DEF m, n
      <4> QED BY <3>2, <4>2, <4>4
    <3> QED BY <3>3, <3>4, <3>5
  <2> HIDE DEF g
  <2>3. \A i, j \in 0 .. fast : g[i] = g[j] => i = j
    BY <2>2
  <2>4. Cardinality({g[t] : t \in 0 .. fast}) = fast + 1
    BY <1>2, <2>3, PointsOfSteps
  <2> QED BY <2>1, <2>4
<1>10. ASSUME NEW z \in points
       PROVE  2 * Abs((z[1] - p[1]) * dy - (z[2] - p[2]) * dx) <= fast
  <2>1. PICK t \in 0 .. fast : z = <<pen[t].x, pen[t].y>>
    BY <1>5
  <2>2. z[1] = pen[t].x /\ z[2] = pen[t].y /\ t \in Int /\ t \in Nat
    BY <2>1
  <2>3. CASE Flat(dx, dy)
    <3>1. Stops(fast, slow, p[1], p[2], sx, sy, t, z[1], z[2])
      BY <1>6, <2>2, <2>3
    <3>2. PICK k, err \in Int : After(fast, slow, t, k, err) /\ z[2] = p[2] + k * sy
      BY <3>1 DEF Stops
    <3>3. k \in Int /\ 2 * (t * slow - k * fast) \in -fast .. fast
      BY <1>2, <2>2, <3>2, AfterNear DEF After
    <3>4. z[1] - p[1] = t * sx /\ z[2] - p[2] = k * sy
      BY <1>1, <1>3, <2>2, <3>1, <3>2, <3>3 DEF Stops
    <3>5. dy = slow * sy /\ dx = fast * sx
      BY <1>3, <1>7, <2>3
    <3>6. fast >= 0 /\ fast \in Int /\ slow \in Int
      BY <1>2
    <3>7. 2 * Abs((t * sx) * (slow * sy) - (k * sy) * (fast * sx)) <= fast
      <4>1. NearLine(fast, slow, t, k)
        BY <3>3 DEF NearLine
      <4>2. sx \in Signs /\ sy \in Signs
        BY <1>3 DEF Signs
      <4>3. t \in Int /\ k \in Int
        BY <2>2, <3>3
      <4>4. NearSigned(fast, slow, sx, sy, t, k)
        BY <3>6, <4>1, <4>2, <4>3, OffLine
      <4> QED BY <4>4 DEF NearSigned
    <3>8. 2 * Abs((z[1] - p[1]) * dy - (z[2] - p[2]) * dx) <= fast
      BY <3>4, <3>5, <3>7
    <3> QED BY <3>8
  <2>4. CASE ~Flat(dx, dy)
    <3>1. Stops(fast, slow, p[2], p[1], sy, sx, t, z[2], z[1])
      BY <1>6, <2>2, <2>4
    <3>2. PICK k, err \in Int : After(fast, slow, t, k, err) /\ z[1] = p[1] + k * sx
      BY <3>1 DEF Stops
    <3>3. k \in Int /\ 2 * (t * slow - k * fast) \in -fast .. fast
      BY <1>2, <2>2, <3>2, AfterNear DEF After
    <3>4. z[2] - p[2] = t * sy /\ z[1] - p[1] = k * sx
      BY <1>1, <1>3, <2>2, <3>1, <3>2, <3>3 DEF Stops
    <3>5. dx = slow * sx /\ dy = fast * sy
      BY <1>3, <1>7, <2>4
    <3>6. fast >= 0 /\ fast \in Int /\ slow \in Int
      BY <1>2
    <3>7. 2 * Abs((k * sx) * (fast * sy) - (t * sy) * (slow * sx)) <= fast
      <4>1. NearLine(fast, slow, t, k)
        BY <3>3 DEF NearLine
      <4>2. sx \in Signs /\ sy \in Signs
        BY <1>3 DEF Signs
      <4>3. t \in Int /\ k \in Int
        BY <2>2, <3>3
      <4>4. NearSigned(fast, slow, sy, sx, t, k)
        BY <3>6, <4>1, <4>2, <4>3, OffLine
      <4> QED BY <4>4 DEF NearSigned
    <3>8. 2 * Abs((z[1] - p[1]) * dy - (z[2] - p[2]) * dx) <= fast
      BY <3>4, <3>5, <3>7
    <3> QED BY <3>8
  <2> QED BY <2>3, <2>4
<1> QED BY <1>8, <1>9, <1>10 DEF WholeLine, points, fast, dx, dy

-----------------------------------------------------------------------------
(***************************************************************************)
(* Rectangles.                                                             *)
(***************************************************************************)
Between(a, b, c) == Min({a, c}) <= b /\ b <= Max({a, c})

\* What lies between two numbers.
LEMMA BetweenOf ==
  ASSUME NEW a \in Int, NEW b \in Int, NEW c \in Int
  PROVE  Between(a, b, c) <=> ((a <= b /\ b <= c) \/ (c <= b /\ b <= a))
<1>1. Max({a, c}) = (IF a > c THEN a ELSE c) /\ Min({a, c}) = (IF a > c THEN c ELSE a)
  BY GreaterOf
<1>2. CASE a > c
  <2>1. Max({a, c}) = a /\ Min({a, c}) = c
    BY <1>1, <1>2
  <2>2. Between(a, b, c) <=> c <= b /\ b <= a
    BY <2>1 DEF Between
  <2> QED BY <1>2, <2>2
<1>3. CASE ~(a > c)
  <2>1. Max({a, c}) = c /\ Min({a, c}) = a
    BY <1>1, <1>3
  <2>2. Between(a, b, c) <=> a <= b /\ b <= c
    BY <2>1 DEF Between
  <2> QED BY <1>3, <2>2
<1> QED BY <1>2, <1>3

\* A number lies between two others when some steps lead from the first to it.
LEMMA BetweenSteps ==
  ASSUME NEW a \in Int, NEW b \in Int, NEW c \in Int, NEW d, d = c - a
  PROVE  Between(a, b, c) <=> \E t \in 0 .. Abs(d) : b = a + t * Sign(d)
<1>1. d \in Int
  OBVIOUS
<1>2. Between(a, b, c) <=> ((a <= b /\ b <= c) \/ (c <= b /\ b <= a))
  BY BetweenOf
<1>3. c = a + d
  OBVIOUS
<1>4. CASE d > 0
  <2>1. Abs(d) = d /\ Sign(d) = 1
    BY <1>1, <1>4, SignAbs DEF Sign
  <2>2. Between(a, b, c) <=> (a <= b /\ b <= c)
    BY <1>2, <1>3, <1>4
  <2>3. ASSUME (a <= b /\ b <= c)
        PROVE  \E t \in 0 .. Abs(d) : b = a + t * Sign(d)
    <3>1. b - a \in 0 .. Abs(d) /\ b = a + (b - a) * Sign(d)
      BY <1>3, <2>1, <2>3
    <3> QED BY <3>1
  <2>4. ASSUME NEW t \in 0 .. Abs(d), b = a + t * Sign(d)
        PROVE  (a <= b /\ b <= c)
    <3>1. b = a + t * (1) /\ t \in 0 .. d
      BY <2>1, <2>4
    <3> QED BY <1>1, <1>3, <1>4, <3>1
  <2> QED BY <2>2, <2>3, <2>4
<1>5. CASE d < 0
  <2>1. Abs(d) = -d /\ Sign(d) = -1
    BY <1>1, <1>5, SignAbs DEF Sign
  <2>2. Between(a, b, c) <=> (c <= b /\ b <= a)
    BY <1>2, <1>3, <1>5
  <2>3. ASSUME (c <= b /\ b <= a)
        PROVE  \E t \in 0 .. Abs(d) : b = a + t * Sign(d)
    <3>1. a - b \in 0 .. Abs(d) /\ b = a + (a - b) * Sign(d)
      BY <1>3, <2>1, <2>3
    <3> QED BY <3>1
  <2>4. ASSUME NEW t \in 0 .. Abs(d), b = a + t * Sign(d)
        PROVE  (c <= b /\ b <= a)
    <3>1. b = a + t * (-1) /\ t \in 0 .. -d
      BY <2>1, <2>4
    <3> QED BY <1>1, <1>3, <1>5, <3>1
  <2> QED BY <2>2, <2>3, <2>4
<1>6. CASE d = 0
  <2>1. Abs(d) = 0 /\ Sign(d) = 0
    BY <1>1, <1>6, SignAbs DEF Sign
  <2>2. Between(a, b, c) <=> b = a
    BY <1>2, <1>3, <1>6
  <2>3. ASSUME b = a
        PROVE  \E t \in 0 .. Abs(d) : b = a + t * Sign(d)
    <3>1. 0 \in 0 .. Abs(d) /\ b = a + 0 * Sign(d)
      BY <2>1, <2>3
    <3> QED BY <3>1
  <2>4. ASSUME NEW t \in 0 .. Abs(d), b = a + t * Sign(d)
        PROVE  b = a
    <3>1. b = a + t * 0 /\ t \in 0 .. 0
      BY <2>1, <2>4
    <3> QED BY <3>1
  <2> QED BY <2>2, <2>3, <2>4
<1> QED BY <1>1, <1>4, <1>5, <1>6

\* An upright or level line has the points between its ends.
LEMMA StraightLine ==
  ASSUME NEW p \in Int \X Int, NEW q \in Int \X Int, p[1] = q[1] \/ p[2] = q[2]
  PROVE  \A z : z \in DrmPlotLine(p, q) <=>
                  z \in Int \X Int /\ Between(p[1], z[1], q[1]) /\ Between(p[2], z[2], q[2])
<1> DEFINE dx == q[1] - p[1]
           dy == q[2] - p[2]
           fast == Fast(dx, dy)
           slow == Slow(dx, dy)
<1>1. /\ p[1] \in Int /\ p[2] \in Int /\ q[1] \in Int /\ q[2] \in Int
      /\ dx \in Int /\ dy \in Int /\ (dx = 0 => q[1] = p[1]) /\ (dy = 0 => q[2] = p[2])
      /\ (dx = 0 \/ dy = 0)
  OBVIOUS
<1>2. PICK pen : LinePen(p, q, pen)
  BY LinePens
<1>3. DrmPlotLine(p, q) = {<<pen[t].x, pen[t].y>> : t \in 0 .. fast}
  BY <1>2 DEF LinePen
<1>4. \A t \in 0 .. fast :
        /\ pen[t].x \in Int /\ pen[t].y \in Int
        /\ Flat(dx, dy) => Stops(fast, slow, p[1], p[2], Sign(dx), Sign(dy), t, pen[t].x, pen[t].y)
        /\ ~Flat(dx, dy) => Stops(fast, slow, p[2], p[1], Sign(dy), Sign(dx), t, pen[t].y, pen[t].x)
  BY <1>2, LineStops
<1>5. /\ Abs(dx) \in Nat /\ (dx = 0 <=> Abs(dx) = 0) /\ (dx = 0 <=> Sign(dx) = 0)
      /\ Abs(dy) \in Nat /\ (dy = 0 <=> Abs(dy) = 0) /\ (dy = 0 <=> Sign(dy) = 0)
  BY <1>1, SignAbs
<1>8. dx = q[1] - p[1] /\ dy = q[2] - p[2]
  OBVIOUS
<1> HIDE DEF dx, dy, slow
<1>6. CASE Flat(dx, dy)
  <2>1. fast = Abs(dx) /\ Abs(dx) > Abs(dy)
    BY <1>6 DEF Fast, Flat
  <2> HIDE DEF fast
  <2>2. dy = 0 /\ Sign(dy) = 0 /\ q[2] = p[2]
    BY <1>1, <1>5, <2>1
  <2>3. ASSUME NEW t \in 0 .. fast
        PROVE  pen[t].x = p[1] + t * Sign(dx) /\ pen[t].y = p[2]
    <3>1. Stops(fast, slow, p[1], p[2], Sign(dx), 0, t, pen[t].x, pen[t].y)
      BY <1>4, <1>6, <2>2
    <3>2. PICK k, err \in Int : After(fast, slow, t, k, err) /\ pen[t].y = p[2] + k * 0
      BY <3>1 DEF Stops
    <3>3. k \in Int
      BY <3>2 DEF After
    <3>4. k * 0 = 0
      BY <3>3
    <3> QED BY <1>1, <3>1, <3>2, <3>4 DEF Stops
  <2>4. ASSUME NEW z, z \in DrmPlotLine(p, q)
        PROVE  z \in Int \X Int /\ Between(p[1], z[1], q[1]) /\ Between(p[2], z[2], q[2])
    <3>1. PICK t \in 0 .. fast : z = <<pen[t].x, pen[t].y>>
      BY <1>3, <2>4
    <3>2. z \in Int \X Int /\ z[1] = p[1] + t * Sign(dx) /\ z[2] = p[2] /\ z[1] \in Int
      BY <1>4, <2>3, <3>1
    <3>3. Between(p[1], z[1], q[1])
      BY <1>1, <1>8, <2>1, <3>2, BetweenSteps
    <3>4. Between(p[2], z[2], q[2])
      BY <1>1, <2>2, <3>2, BetweenOf
    <3> QED BY <3>2, <3>3, <3>4
  <2>5. ASSUME NEW z, z \in Int \X Int, Between(p[1], z[1], q[1]), Between(p[2], z[2], q[2])
        PROVE  z \in DrmPlotLine(p, q)
    <3>1. z = <<z[1], z[2]>> /\ z[1] \in Int /\ z[2] \in Int
      BY <2>5
    <3>2. z[2] = p[2]
      BY <1>1, <2>2, <2>5, <3>1, BetweenOf
    <3>3. PICK t \in 0 .. fast : z[1] = p[1] + t * Sign(dx)
      BY <1>1, <1>8, <2>1, <2>5, <3>1, BetweenSteps
    <3>4. z = <<pen[t].x, pen[t].y>>
      BY <2>3, <3>1, <3>2, <3>3
    <3> QED BY <1>3, <3>4
  <2> QED BY <2>4, <2>5
<1>7. CASE ~Flat(dx, dy)
  <2>1. fast = Abs(dy) /\ ~(Abs(dx) > Abs(dy))
    BY <1>7 DEF Fast, Flat
  <2> HIDE DEF fast
  <2>2. dx = 0 /\ Sign(dx) = 0 /\ q[1] = p[1]
    BY <1>1, <1>5, <2>1
  <2>3. ASSUME NEW t \in 0 .. fast
        PROVE  pen[t].y = p[2] + t * Sign(dy) /\ pen[t].x = p[1]
    <3>1. Stops(fast, slow, p[2], p[1], Sign(dy), 0, t, pen[t].y, pen[t].x)
      BY <1>4, <1>7, <2>2
    <3>2. PICK k, err \in Int : After(fast, slow, t, k, err) /\ pen[t].x = p[1] + k * 0
      BY <3>1 DEF Stops
    <3>3. k \in Int
      BY <3>2 DEF After
    <3>4. k * 0 = 0
      BY <3>3
    <3> QED BY <1>1, <3>1, <3>2, <3>4 DEF Stops
  <2>4. ASSUME NEW z, z \in DrmPlotLine(p, q)
        PROVE  z \in Int \X Int /\ Between(p[1], z[1], q[1]) /\ Between(p[2], z[2], q[2])
    <3>1. PICK t \in 0 .. fast : z = <<pen[t].x, pen[t].y>>
      BY <1>3, <2>4
    <3>2. z \in Int \X Int /\ z[2] = p[2] + t * Sign(dy) /\ z[1] = p[1] /\ z[2] \in Int
      BY <1>4, <2>3, <3>1
    <3>3. Between(p[2], z[2], q[2])
      BY <1>1, <1>8, <2>1, <3>2, BetweenSteps
    <3>4. Between(p[1], z[1], q[1])
      BY <1>1, <2>2, <3>2, BetweenOf
    <3> QED BY <3>2, <3>3, <3>4
  <2>5. ASSUME NEW z, z \in Int \X Int, Between(p[1], z[1], q[1]), Between(p[2], z[2], q[2])
        PROVE  z \in DrmPlotLine(p, q)
    <3>1. z = <<z[1], z[2]>> /\ z[1] \in Int /\ z[2] \in Int
      BY <2>5
    <3>2. z[1] = p[1]
      BY <1>1, <2>2, <2>5, <3>1, BetweenOf
    <3>3. PICK t \in 0 .. fast : z[2] = p[2] + t * Sign(dy)
      BY <1>1, <1>8, <2>1, <2>5, <3>1, BetweenSteps
    <3>4. z = <<pen[t].x, pen[t].y>>
      BY <2>3, <3>1, <3>2, <3>3
    <3> QED BY <1>3, <3>4
  <2> QED BY <2>4, <2>5
<1> QED BY <1>6, <1>7

\* A rectangle has its border and nothing else (drm_plot_rect).
LEMMA RectWhole ==
  ASSUME NEW p \in (0 .. Width) \X (0 .. Height), NEW q \in (0 .. Width) \X (0 .. Height)
  PROVE  DrmPlotRect(p, q) =
           {z \in (0 .. Width) \X (0 .. Height) :
              /\ Between(p[1], z[1], q[1]) /\ Between(p[2], z[2], q[2])
              /\ z[1] \in {p[1], q[1]} \/ z[2] \in {p[2], q[2]}}
<1> DEFINE a == <<q[1], p[2]>>
           b == <<p[1], q[2]>>
           border == {z \in (0 .. Width) \X (0 .. Height) :
                        /\ Between(p[1], z[1], q[1]) /\ Between(p[2], z[2], q[2])
                        /\ z[1] \in {p[1], q[1]} \/ z[2] \in {p[2], q[2]}}
           Level(z, y) == z \in Int \X Int /\ Between(p[1], z[1], q[1]) /\ z[2] = y
           Upright(z, x) == z \in Int \X Int /\ z[1] = x /\ Between(p[2], z[2], q[2])
<1>1. /\ p \in Int \X Int /\ q \in Int \X Int /\ a \in Int \X Int /\ b \in Int \X Int
      /\ p[1] \in 0 .. Width /\ q[1] \in 0 .. Width /\ p[2] \in 0 .. Height /\ q[2] \in 0 .. Height
      /\ Width \in Nat /\ Height \in Nat
      /\ a[1] = q[1] /\ a[2] = p[2] /\ b[1] = p[1] /\ b[2] = q[2]
  BY DrmAssumption
<1> HIDE DEF a, b
<1>2. \A z \in Int \X Int : z[1] \in Int /\ z[2] \in Int
  OBVIOUS
<1>3. \A x, y \in Int : Between(x, y, x) <=> y = x
  BY BetweenOf
<1>4. \A z : z \in DrmPlotLine(p, a) <=> Level(z, p[2])
  <2>1. \A z : z \in DrmPlotLine(p, a) <=>
                 z \in Int \X Int /\ Between(p[1], z[1], a[1]) /\ Between(p[2], z[2], a[2])
    BY <1>1, StraightLine
  <2> QED BY <1>1, <1>2, <1>3, <2>1
<1>5. \A z : z \in DrmPlotLine(p, b) <=> Upright(z, p[1])
  <2>1. \A z : z \in DrmPlotLine(p, b) <=>
                 z \in Int \X Int /\ Between(p[1], z[1], b[1]) /\ Between(p[2], z[2], b[2])
    BY <1>1, StraightLine
  <2> QED BY <1>1, <1>2, <1>3, <2>1
<1>6. \A z : z \in DrmPlotLine(b, q) <=> Level(z, q[2])
  <2>1. \A z : z \in DrmPlotLine(b, q) <=>
                 z \in Int \X Int /\ Between(b[1], z[1], q[1]) /\ Between(b[2], z[2], q[2])
    BY <1>1, StraightLine
  <2> QED BY <1>1, <1>2, <1>3, <2>1
<1>7. \A z : z \in DrmPlotLine(a, q) <=> Upright(z, q[1])
  <2>1. \A z : z \in DrmPlotLine(a, q) <=>
                 z \in Int \X Int /\ Between(a[1], z[1], q[1]) /\ Between(a[2], z[2], q[2])
    BY <1>1, StraightLine
  <2> QED BY <1>1, <1>2, <1>3, <2>1
<1>8. DrmPlotRect(p, q) =
        DrmPlotLine(p, a) \cup DrmPlotLine(p, b) \cup DrmPlotLine(b, q) \cup DrmPlotLine(a, q)
  BY DEF DrmPlotRect, a, b
<1>9. \A z : z \in DrmPlotRect(p, q) <=>
               Level(z, p[2]) \/ Upright(z, p[1]) \/ Level(z, q[2]) \/ Upright(z, q[1])
  <2> HIDE DEF Level, Upright
  <2> QED BY <1>4, <1>5, <1>6, <1>7, <1>8
<1>10. /\ Between(p[1], p[1], q[1]) /\ Between(p[1], q[1], q[1])
       /\ Between(p[2], p[2], q[2]) /\ Between(p[2], q[2], q[2])
  <2>1. \A x, y \in Int : Between(x, x, y) /\ Between(x, y, y)
    BY BetweenOf
  <2>2. p[1] \in Int /\ q[1] \in Int /\ p[2] \in Int /\ q[2] \in Int
    BY <1>1
  <2> QED BY <2>1, <2>2
<1>11. \A v \in Int : /\ Between(p[1], v, q[1]) => v \in 0 .. Width
                      /\ Between(p[2], v, q[2]) => v \in 0 .. Height
  <2>1. \A n \in Nat : \A x, y \in 0 .. n : \A v \in Int : Between(x, v, y) => v \in 0 .. n
    BY BetweenOf
  <2> QED BY <1>1, <2>1
<1>12. ASSUME NEW z, z \in DrmPlotRect(p, q)
       PROVE  z \in border
  <2>1. /\ z \in Int \X Int /\ Between(p[1], z[1], q[1]) /\ Between(p[2], z[2], q[2])
        /\ z[1] \in {p[1], q[1]} \/ z[2] \in {p[2], q[2]}
    BY <1>9, <1>10, <1>12
  <2>2. z = <<z[1], z[2]>> /\ z[1] \in 0 .. Width /\ z[2] \in 0 .. Height
    BY <1>2, <1>11, <2>1
  <2>3. z \in (0 .. Width) \X (0 .. Height)
    BY <2>2
  <2> QED BY <2>1, <2>3
<1>13. ASSUME NEW z, z \in border
       PROVE  z \in DrmPlotRect(p, q)
  <2>1. z \in Int \X Int /\ z[1] \in 0 .. Width /\ z[2] \in 0 .. Height
    BY <1>1, <1>13
  <2>2. Level(z, p[2]) \/ Upright(z, p[1]) \/ Level(z, q[2]) \/ Upright(z, q[1])
    BY <1>13, <2>1
  <2> QED BY <1>9, <2>2
<1> QED BY <1>12, <1>13

-----------------------------------------------------------------------------
(***************************************************************************)
(* Circles.                                                                *)
(***************************************************************************)
Compass == [x : Int, y : Int, f : Int]

\* The pen after a step of the circle.
Turned(pen) ==
  LET y == IF pen.f >= 0 THEN pen.y - 1 ELSE pen.y
      f == IF pen.f >= 0 THEN pen.f - 2 * y ELSE pen.f
  IN  IF pen.x >= pen.y THEN pen ELSE [x |-> pen.x + 1, y |-> y, f |-> f + 2 * (pen.x + 1) + 1]

\* How far a point is outside of a circle around the origin.
Outside(x, y, r) == x * x + y * y - r * r

\* The pen's f is how far the point between its two next ones is outside; the
\* pen itself is never more than the radius outside or its height inside.
Near(pen, r) ==
  /\ pen \in Compass /\ pen.x >= 0 /\ pen.y <= r
  /\ pen.f = Outside(pen.x, pen.y, r) + 2 * pen.x + 1 - pen.y
  /\ -pen.y <= Outside(pen.x, pen.y, r) /\ Outside(pen.x, pen.y, r) <= r

\* A step of the circle stays near it.
LEMMA TurnedNear ==
  ASSUME NEW r \in Nat, NEW pen, Near(pen, r)
  PROVE  Near(Turned(pen), r)
<1> DEFINE x == pen.x
           y == pen.y
           f == pen.f
           g == Outside(x, y, r)
<1>1. /\ x \in Int /\ y \in Int /\ f \in Int /\ x >= 0 /\ y <= r
      /\ f = g + 2 * x + 1 - y /\ -y <= g /\ g <= r
  BY DEF Near, Compass
<1>2. g \in Int
  BY <1>1 DEF Outside
<1>3. Outside(x + 1, y, r) = g + 2 * x + 1
  <2>1. (x + 1) * (x + 1) = x * x + 2 * x + 1
    BY <1>1
  <2>2. x * x \in Int /\ y * y \in Int /\ r * r \in Int
    BY <1>1
  <2> QED BY <1>1, <2>1, <2>2 DEF Outside
<1>4. Outside(x + 1, y - 1, r) = g + 2 * x + 2 - 2 * y
  <2>1. (x + 1) * (x + 1) = x * x + 2 * x + 1 /\ (y - 1) * (y - 1) = y * y - 2 * y + 1
    BY <1>1
  <2>2. x * x \in Int /\ y * y \in Int /\ r * r \in Int
    BY <1>1
  <2> QED BY <1>1, <2>1, <2>2 DEF Outside
<1>5. CASE x >= y
  <2>1. Turned(pen) = pen
    BY <1>5 DEF Turned
  <2> QED BY <2>1
<1>6. CASE ~(x >= y) /\ f < 0
  <2> DEFINE next == [x |-> x + 1, y |-> y, f |-> f + 2 * (x + 1) + 1]
  <2>1. Turned(pen) = next
    BY <1>1, <1>6 DEF Turned
  <2>2. next.x = x + 1 /\ next.y = y /\ next.f = f + 2 * (x + 1) + 1 /\ next \in Compass
    BY <1>1 DEF Compass
  <2> HIDE DEF next, x, y, f, g
  <2>3. /\ f + 2 * (x + 1) + 1 = (g + 2 * x + 1) + 2 * (x + 1) + 1 - y
        /\ -y <= g + 2 * x + 1 /\ g + 2 * x + 1 <= r /\ x + 1 >= 0
    BY <1>1, <1>2, <1>6
  <2>4. Near(next, r)
    BY <1>1, <1>3, <2>2, <2>3 DEF Near
  <2> QED BY <2>1, <2>4
<1>7. CASE ~(x >= y) /\ f >= 0
  <2> DEFINE next == [x |-> x + 1, y |-> y - 1, f |-> f - 2 * (y - 1) + 2 * (x + 1) + 1]
  <2>1. Turned(pen) = next
    BY <1>1, <1>7 DEF Turned
  <2>2. /\ next.x = x + 1 /\ next.y = y - 1 /\ next.f = f - 2 * (y - 1) + 2 * (x + 1) + 1
        /\ next \in Compass
    BY <1>1 DEF Compass
  <2> HIDE DEF next, x, y, f, g
  <2>3. /\ f - 2 * (y - 1) + 2 * (x + 1) + 1
             = (g + 2 * x + 2 - 2 * y) + 2 * (x + 1) + 1 - (y - 1)
        /\ -(y - 1) <= g + 2 * x + 2 - 2 * y /\ g + 2 * x + 2 - 2 * y <= r
        /\ x + 1 >= 0 /\ y - 1 <= r
    BY <1>1, <1>2, <1>7
  <2>4. Near(next, r)
    BY <1>1, <1>4, <2>2, <2>3 DEF Near
  <2> QED BY <2>1, <2>4
<1> QED BY <1>1, <1>5, <1>6, <1>7

\* drm_plot_circle draws the mirror images of the pen's points.
CirclePen(p, r, pen) ==
  /\ pen[0] = [x |-> 0, y |-> r, f |-> 1 - r]
  /\ \A t \in 1 .. r : pen[t] = Turned(pen[t - 1])
  /\ DrmPlotCircle(p, r) =
       Mirrored(p, 0, r) \cup UNION {Mirrored(p, pen[t].x, pen[t].y) : t \in 1 .. r}

\* There is such a pen for every circle.
LEMMA CirclePens ==
  ASSUME NEW p, NEW r \in Nat
  PROVE  \E pen : CirclePen(p, r, pen)
<1> DEFINE s == [x |-> 0, y |-> r, f |-> 1 - r]
           F == [z \in (1 .. r) \X Compass |-> Turned(z[2])]
           Recurs(f) == f = [t \in 0 .. r |-> IF t = 0 THEN s ELSE Turned(f[t - 1])]
           pen == CHOOSE f : Recurs(f)
<1>1. DrmPlotCircle(p, r) =
        Mirrored(p, 0, r) \cup UNION {Mirrored(p, pen[t].x, pen[t].y) : t \in 1 .. r}
  BY DEF DrmPlotCircle, Turned
<1>2. \A g \in Compass : Turned(g) \in Compass
  <2> TAKE g \in Compass
  <2>1. g.x \in Int /\ g.y \in Int /\ g.f \in Int
    BY DEF Compass
  <2> QED BY <2>1 DEF Turned, Compass
<1>3. s \in Compass
  BY DEF Compass
<1>4. F \in [(1 .. r) \X Compass -> Compass]
  BY <1>2
<1>5. \A k \in 1 .. r, g \in Compass : F[<<k, g>>] = Turned(g)
  OBVIOUS
<1> HIDE DEF F, s
<1>6. PICK g \in [0 .. r -> Compass] : g[0] = s /\ \A k \in 1 .. r : g[k] = F[<<k, g[k - 1]>>]
  <2>1. Iterates(r, Compass, s, F)
    BY <1>3, <1>4, Iteration
  <2> QED BY <2>1 DEF Iterates
<1>7. \A k \in 1 .. r : g[k] = Turned(g[k - 1])
  <2>1. \A k \in 1 .. r : g[k - 1] \in Compass
    BY <1>6
  <2> QED BY <1>5, <1>6, <2>1
<1>8. Recurs(g)
  <2>1. \A k \in 0 .. r : g[k] = IF k = 0 THEN s ELSE Turned(g[k - 1])
    <3> TAKE k \in 0 .. r
    <3>1. CASE k = 0
      BY <1>6, <3>1
    <3>2. CASE k # 0
      <4>1. k \in 1 .. r
        BY <3>2
      <4> QED BY <1>7, <3>2, <4>1
    <3> QED BY <3>1, <3>2
  <2> QED BY <1>6, <2>1
<1>9. Recurs(pen)
  <2> HIDE DEF Recurs
  <2> QED BY <1>8
<1> HIDE DEF pen
<1>10. \A k \in 0 .. r : pen[k] = IF k = 0 THEN s ELSE Turned(pen[k - 1])
  BY <1>9
<1>11. pen[0] = s /\ \A k \in 1 .. r : pen[k] = Turned(pen[k - 1])
  BY <1>10
<1> QED BY <1>1, <1>11 DEF CirclePen, s

\* The mirror images of a point are as far from the middle as the point.
LEMMA MirroredFar ==
  ASSUME NEW p \in Int \X Int, NEW x \in Int, NEW y \in Int, NEW z \in Mirrored(p, x, y)
  PROVE  /\ z \in Int \X Int
         /\ (z[1] - p[1]) * (z[1] - p[1]) + (z[2] - p[2]) * (z[2] - p[2]) = x * x + y * y
<1>1. PICK i \in {1, -1}, j \in {1, -1}, m \in {<<x, y>>, <<y, x>>} :
        z = <<p[1] + i * m[1], p[2] + j * m[2]>>
  BY DEF Mirrored
<1> DEFINE a == m[1]
           b == m[2]
<1>2. a \in Int /\ b \in Int /\ ((a = x /\ b = y) \/ (a = y /\ b = x)) /\ p[1] \in Int /\ p[2] \in Int
  <2>1. p[1] \in Int /\ p[2] \in Int
    OBVIOUS
  <2>2. CASE m = <<x, y>>
    <3>1. a = x /\ b = y
      BY <2>2
    <3> HIDE DEF a, b
    <3> QED BY <2>1, <3>1
  <2>3. CASE m = <<y, x>>
    <3>1. a = y /\ b = x
      BY <2>3
    <3> HIDE DEF a, b
    <3> QED BY <2>1, <3>1
  <2> QED BY <2>2, <2>3
<1>3. z[1] = p[1] + i * a /\ z[2] = p[2] + j * b
  BY <1>1
<1>4. i * a \in {a, -a} /\ j * b \in {b, -b} /\ i * a \in Int /\ j * b \in Int
  BY <1>2
<1> DEFINE u == i * a
           v == j * b
<1> HIDE DEF a, b, u, v
<1>5. z[1] - p[1] = u /\ z[2] - p[2] = v
  BY <1>2, <1>3, <1>4 DEF u, v
<1>6. u * u = a * a /\ v * v = b * b
  <2>1. (-a) * (-a) = a * a /\ (-b) * (-b) = b * b
    BY <1>2
  <2> QED BY <1>4, <2>1 DEF u, v
<1>7. a * a + b * b = x * x + y * y
  BY <1>2
<1>8. z \in Int \X Int
  BY <1>1, <1>2, <1>4 DEF a, b
<1> QED BY <1>5, <1>6, <1>7, <1>8

\* A circle is within half a pixel of its radius (drm_plot_circle).
LEMMA CircleWhole ==
  ASSUME NEW p \in Int \X Int, NEW r \in Nat
  PROVE  \A z \in DrmPlotCircle(p, r) :
           Abs((z[1] - p[1]) * (z[1] - p[1]) + (z[2] - p[2]) * (z[2] - p[2]) - r * r) <= r
<1>1. PICK pen : CirclePen(p, r, pen)
  BY CirclePens
<1> DEFINE T == {t \in 0 .. r : Near(pen[t], r)}
<1>2. 0 \in T
  <2> DEFINE s == [x |-> 0, y |-> r, f |-> 1 - r]
  <2>1. s \in Compass /\ s.x = 0 /\ s.y = r /\ s.f = 1 - r
    BY DEF Compass
  <2>2. Outside(0, r, r) = 0
    BY DEF Outside
  <2>3. pen[0] = s
    BY <1>1 DEF CirclePen
  <2> HIDE DEF s
  <2>4. Near(s, r)
    BY <2>1, <2>2 DEF Near
  <2> QED BY <2>3, <2>4
<1>3. ASSUME NEW t \in 0 .. r - 1, t \in T
      PROVE  t + 1 \in T
  <2>1. t + 1 \in 1 .. r /\ t + 1 \in 0 .. r /\ (t + 1) - 1 = t
    OBVIOUS
  <2>2. pen[t + 1] = Turned(pen[t])
    BY <1>1, <2>1 DEF CirclePen
  <2> QED BY <1>3, <2>1, <2>2, TurnedNear
<1> HIDE DEF T
<1>4. 0 .. r \subseteq T
  BY <1>2, <1>3, InductionTo
<1>5. \A t \in 0 .. r : Near(pen[t], r)
  BY <1>4 DEF T
<1> SUFFICES ASSUME NEW z \in DrmPlotCircle(p, r)
             PROVE  Abs((z[1] - p[1]) * (z[1] - p[1]) + (z[2] - p[2]) * (z[2] - p[2]) - r * r) <= r
  OBVIOUS
<1>6. PICK t \in 0 .. r : z \in Mirrored(p, pen[t].x, pen[t].y)
  <2>1. pen[0].x = 0 /\ pen[0].y = r /\ 0 \in 0 .. r
    BY <1>1 DEF CirclePen
  <2>2. z \in Mirrored(p, 0, r) \/ \E t \in 1 .. r : z \in Mirrored(p, pen[t].x, pen[t].y)
    BY <1>1 DEF CirclePen
  <2>3. CASE z \in Mirrored(p, 0, r)
    BY <2>1, <2>3
  <2>4. CASE \E t \in 1 .. r : z \in Mirrored(p, pen[t].x, pen[t].y)
    BY <2>4
  <2> QED BY <2>2, <2>3, <2>4
<1> DEFINE x == pen[t].x
           y == pen[t].y
           g == Outside(x, y, r)
<1>7. x \in Int /\ y \in Int /\ y <= r /\ -y <= g /\ g <= r
  BY <1>5, <1>6 DEF Near, Compass
<1>8. /\ z \in Int \X Int
      /\ (z[1] - p[1]) * (z[1] - p[1]) + (z[2] - p[2]) * (z[2] - p[2]) = x * x + y * y
  BY <1>6, <1>7, MirroredFar
<1>9. g \in Int /\ g = x * x + y * y - r * r
  BY <1>7 DEF Outside
<1> HIDE DEF g, x, y
<1>10. Abs(g) = IF g < 0 THEN -g ELSE g
  BY <1>9, SignAbs
<1>11. Abs(g) <= r
  BY <1>7, <1>9, <1>10
<1> DEFINE u == z[1] - p[1]
           v == z[2] - p[2]
           uu == u * u
           vv == v * v
           rr == r * r
<1>12. uu + vv = x * x + y * y /\ uu \in Int /\ vv \in Int /\ rr \in Int
  <2>1. z \in Int \X Int
    BY <1>8
  <2>2. u \in Int /\ v \in Int
    BY <2>1
  <2> HIDE DEF u, v
  <2>3. uu \in Int /\ vv \in Int
    BY <2>2
  <2>4. u * u + v * v = x * x + y * y
    BY <1>8 DEF u, v
  <2> QED BY <2>3, <2>4
<1>13. x * x + y * y \in Int /\ g = (x * x + y * y) - rr
  BY <1>7, <1>9
<1> HIDE DEF uu, vv, rr
<1>14. uu + (vv - rr) = g
  BY <1>12, <1>13
<1>15. Abs(uu + (vv - rr)) <= r
  BY <1>11, <1>14
<1> QED BY <1>15, Zenon DEF uu, vv, rr, u, v

-----------------------------------------------------------------------------
(***************************************************************************)
(* The figure that was drawn.                                              *)
(***************************************************************************)
\* A figure is whole, and on the screen's memory if it is on the screen.
Whole(f, points, outside) ==
  /\ f.kind = "line" =>
       /\ {f.p, f.q} \subseteq points /\ Cardinality(points) = Longer(f) + 1
       /\ \A p \in points :
            2 * Abs((p[1] - f.p[1]) * (f.q[2] - f.p[2]) - (p[2] - f.p[2]) * (f.q[1] - f.p[1]))
              <= Longer(f)
  /\ f.kind = "rect" =>
       points = {p \in (0 .. Width) \X (0 .. Height) :
                   /\ Between(f.p[1], p[1], f.q[1]) /\ Between(f.p[2], p[2], f.q[2])
                   /\ p[1] \in {f.p[1], f.q[1]} \/ p[2] \in {f.p[2], f.q[2]}}
  /\ f.kind = "circle" =>
       \A p \in points :
         Abs((p[1] - f.p[1]) * (p[1] - f.p[1]) + (p[2] - f.p[2]) * (p[2] - f.p[2])
               - f.q[1] * f.q[1]) <= f.q[1]
  /\ points \subseteq (0 .. Width - 1) \X (0 .. Height - 1) => outside = {}

\* The longer side of a line is the one that it goes along.
LEMMA LongerFast ==
  ASSUME NEW f, f.p \in Int \X Int, f.q \in Int \X Int
  PROVE  Longer(f) = Fast(f.q[1] - f.p[1], f.q[2] - f.p[2])
<1> DEFINE dx == f.q[1] - f.p[1]
           dy == f.q[2] - f.p[2]
<1>1. dx \in Int /\ dy \in Int
  OBVIOUS
<1>2. Longer(f) = Max({Abs(dx), Abs(dy)})
  BY DEF Longer
<1> HIDE DEF dx, dy
<1>3. Abs(dx) \in Int /\ Abs(dy) \in Int
  BY <1>1, SignAbs
<1>4. Max({Abs(dx), Abs(dy)}) = IF Abs(dx) > Abs(dy) THEN Abs(dx) ELSE Abs(dy)
  BY <1>3, GreaterOf
<1>5. Fast(dx, dy) = IF Abs(dx) > Abs(dy) THEN Abs(dx) ELSE Abs(dy)
  BY DEF Fast, Flat
<1> QED BY <1>2, <1>4, <1>5 DEF dx, dy

\* What lies on the screen has its pixel in the screen's memory.
LEMMA OnScreen ==
  ASSUME NEW p \in (0 .. Width - 1) \X (0 .. Height - 1)
  PROVE  Offset(p) \in Offsets
<1>1. /\ Width \in Nat /\ Height \in Nat /\ Pitch \in Nat /\ Width <= Pitch
      /\ p[1] \in 0 .. Width - 1 /\ p[2] \in 0 .. Height - 1
  BY DrmAssumption
<1> DEFINE x == p[1]
           y == p[2]
           k == Height - 1 - y
           a == Pitch * y
           b == Pitch * k
<1>2. x \in Nat /\ x < Pitch /\ y \in Nat /\ k \in Nat /\ Height = y + k + 1
  BY <1>1
<1> HIDE DEF x, y, k
<1>3. a \in Nat /\ b \in Nat
  BY <1>1, <1>2
<1>4. Pitch * Height = a + b + Pitch
  BY <1>1, <1>2
<1>5. Offset(p) = a + x
  BY DEF Offset, x, y
<1> HIDE DEF a, b
<1>6. a + x \in 0 .. (a + b + Pitch) - 1
  BY <1>1, <1>2, <1>3
<1> QED BY <1>4, <1>5, <1>6 DEF Offsets

\* A drawn figure is whole.
LEMMA DrawWhole ==
  ASSUME NEW f \in Figures, NEW d, IsDisplay(d), d.outside = {}, NEW n \in Drms
  PROVE  Whole(f, PointsOf(f), Paint(d, n, InColor(PointsOf(f), 1)).outside)
<1> DEFINE points == PointsOf(f)
           shade == InColor(points, 1)
           outside == Paint(d, n, shade).outside
           dx == f.q[1] - f.p[1]
           dy == f.q[2] - f.p[2]
<1>1. ASSUME f.kind = "line"
      PROVE  /\ {f.p, f.q} \subseteq points /\ Cardinality(points) = Longer(f) + 1
             /\ \A p \in points :
                  2 * Abs((p[1] - f.p[1]) * dy - (p[2] - f.p[2]) * dx) <= Longer(f)
  <2>1. f.p \in Int \X Int /\ f.q \in Int \X Int
    BY <1>1, CallsAssumption
  <2>2. points = DrmPlotLine(f.p, f.q)
    BY <1>1 DEF PointsOf
  <2>3. WholeLine(f.p, f.q)
    BY <2>1, LineWhole
  <2>4. Longer(f) = Fast(dx, dy)
    BY <2>1, LongerFast
  <2> HIDE DEF points
  <2> QED BY <2>2, <2>3, <2>4 DEF WholeLine
<1>2. ASSUME f.kind = "rect"
      PROVE  points = {p \in (0 .. Width) \X (0 .. Height) :
                         /\ Between(f.p[1], p[1], f.q[1]) /\ Between(f.p[2], p[2], f.q[2])
                         /\ p[1] \in {f.p[1], f.q[1]} \/ p[2] \in {f.p[2], f.q[2]}}
  <2>1. f.p \in (0 .. Width) \X (0 .. Height) /\ f.q \in (0 .. Width) \X (0 .. Height)
    BY <1>2, CallsAssumption
  <2>2. points = DrmPlotRect(f.p, f.q)
    BY <1>2 DEF PointsOf
  <2> HIDE DEF points
  <2> QED BY <2>1, <2>2, RectWhole
<1>3. ASSUME f.kind = "circle"
      PROVE  \A p \in points :
               Abs((p[1] - f.p[1]) * (p[1] - f.p[1]) + (p[2] - f.p[2]) * (p[2] - f.p[2])
                     - f.q[1] * f.q[1]) <= f.q[1]
  <2>1. f.p \in Int \X Int /\ f.q[1] \in Nat
    BY <1>3, CallsAssumption
  <2>2. points = DrmPlotCircle(f.p, f.q[1])
    BY <1>3 DEF PointsOf
  <2> HIDE DEF points
  <2> QED BY <2>1, <2>2, CircleWhole
<1>4. ASSUME points \subseteq (0 .. Width - 1) \X (0 .. Height - 1)
      PROVE  outside = {}
  <2>1. outside = d.outside \cup (Hit(shade) \ Offsets)
    BY PaintParts
  <2>2. Hit(shade) \subseteq {Offset(p) : p \in points}
    BY DEF Hit, Plotted, InColor
  <2> HIDE DEF points, outside, shade
  <2>3. {Offset(p) : p \in points} \subseteq Offsets
    BY <1>4, OnScreen
  <2> QED BY <2>1, <2>2, <2>3
<1> QED BY <1>1, <1>2, <1>3, <1>4 DEF Whole

\* Before the first call nothing was drawn outside of the screen's memory.
Clean == ops.calls = 0 => display.outside = {}

\* The figure that was drawn last is whole.
Drawing == last.op = "draw" => Whole(last.arg, last.result, display.outside)

\* Only a first call draws.
LEMMA DrawingNext ==
  ASSUME FilesInv, IsDisplay(display), Clean, Drawing, [Next]_vars
  PROVE  Clean' /\ Drawing'
<1>1. ops.calls \in Nat /\ DOMAIN ops = {"calls", "reloads"}
  BY DEF FilesInv
<1>2. CASE Draw
  <2>1. PICK f \in Figures, n \in Drms :
          /\ display' = Paint(display, n, InColor(PointsOf(f), 1))
          /\ Call("draw", f, PointsOf(f))
    BY <1>2 DEF Draw
  <2>2. ops.calls = 0 /\ ops'.calls = MaxOps /\ MaxOps # 0
    BY <1>1, <1>2, CallsAssumption DEF Draw
  <2>3. Whole(f, PointsOf(f), display'.outside)
    BY <2>1, <2>2, DrawWhole DEF Clean
  <2>4. last'.arg = f /\ last'.result = PointsOf(f)
    BY <2>1 DEF Call
  <2>5. Drawing'
    BY <2>3, <2>4 DEF Drawing
  <2> QED BY <2>2, <2>5 DEF Clean
<1>3. CASE MakeDevfs \/ MountTree \/ DevfsReload \/ DrmRegisterVfs \/ Lookup \/ DevfsRead \/ DevfsWrite
  <2>1. last'.op # "draw"
    BY <1>3 DEF MakeDevfs, MountTree, DevfsReload, DrmRegisterVfs, Lookup, DevfsRead, DevfsWrite, Call
  <2>2. ops'.calls = ops.calls + 1
    BY <1>1, <1>3 DEF MakeDevfs, MountTree, DevfsReload, DrmRegisterVfs, Lookup, DevfsRead,
                      DevfsWrite, Count
  <2> QED BY <1>1, <2>1, <2>2 DEF Clean, Drawing
<1>4. CASE UseFreed
  <2>1. ops'.calls = ops.calls + 1 /\ UNCHANGED <<display, last>>
    BY <1>1, <1>4 DEF UseFreed, Count
  <2> QED BY <1>1, <2>1 DEF Clean, Drawing
<1>5. CASE UNCHANGED vars
  <2>1. UNCHANGED <<display, last, ops>>
    BY <1>5 DEF vars, devVars
  <2> QED BY <2>1 DEF Clean, Drawing
<1> QED BY <1>2, <1>3, <1>4, <1>5 DEF Next

\* A line has both ends, one point for each step of its longer side, none of
\* them more than half a pixel off; a rectangle has its border and nothing
\* else; a circle is within half a pixel of its radius; what lies on the screen
\* is drawn inside of its memory (drm_plot_line, drm_plot_rect,
\* drm_plot_circle).
THEOREM FiguresWholeInv == Spec => []FiguresWhole
<1> DEFINE I == FilesInv /\ WildCause /\ IsDisplay(display) /\ Clean /\ Drawing
<1>1. Init => I
  <2> SUFFICES ASSUME Init PROVE I
    OBVIOUS
  <2>1. last.op = "none" /\ display.outside = {}
    BY DEF Init, DrmInit
  <2>2. Clean /\ Drawing
    BY <2>1 DEF Clean, Drawing
  <2> QED BY <2>2, FilesInit, DisplayInit
<1>2. I /\ [Next]_vars => I'
  BY FilesNext, DisplayNext, DrawingNext
<1>3. I => FiguresWhole
  BY DEF Drawing, Whole, Between, FiguresWhole
<1> HIDE DEF I
<1> QED BY <1>1, <1>2, <1>3, PTL DEF Spec
=============================================================================
