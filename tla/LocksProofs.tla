---------------------------- MODULE LocksProofs -----------------------------
(***************************************************************************)
(* Proofs about the spin locks, for any number of CPUs and any choice of   *)
(* the functions they run.  There is a port, and the heap is in order:     *)
(* without either the locks do not match (runs MCKernelNoSerial and        *)
(* MCKernelPanic).                                                         *)
(*                                                                         *)
(* The locks are ranked so that what is done under a lock takes locks of   *)
(* higher rank only.  No function states this order; it is what their      *)
(* nesting amounts to.                                                     *)
(***************************************************************************)
EXTENDS KernelLocks, Integers, SequenceTheorems, TLAPS

-----------------------------------------------------------------------------
(***************************************************************************)
(* The ranks of the locks, and of the lowest lock that a function takes.   *)
(***************************************************************************)
Lock(l) == CASE l = "driver"   -> 1
             [] l = "storage"  -> 2
             [] l = "panic"    -> 3
             [] l = "cpu_list" -> 4
             [] l = "log"      -> 5
             [] l = "heap"     -> 6
             [] l = "serial"   -> 7
             [] l = "vt"       -> 8
             [] l = "drm"      -> 9
             [] OTHER          -> 10

Function(f) == CASE f \in {"devman_register_driver", "devman_handle_pcie_device"} -> 1
                 [] f \in {"devman_add_storage", "gpt_init", "devman_add_partition"} -> 2
                 [] f = "panic_handle" -> 3
                 [] f \in {"cpu_init", "cpu_get_random_cpu"} -> 4
                 [] f \in {"log", "logf", "stack_trace", "kernel_panic", "kernel_panic_error",
                           "fault_handler"} -> 5
                 [] f \in {"kmalloc", "kfree", "krealloc", "kvfprintf", "kvprintf"} -> 6
                 [] f = "serial_writes" -> 7
                 [] f \in {"kprint_colour", "kprint_line", "kprint_plain"} -> 8
                 [] f \in {"drm_plot", "vt_flush", "vt_redraw"} -> 9
                 [] OTHER -> 10

Rank(x) == CASE x.op \in {"take", "drop"} -> Lock(x.arg)
             [] x.op = "call"             -> Function(x.arg)
             [] OTHER                     -> 11

\* What a CPU may have to do.
Work == {Take(l) : l \in Locks} \cup {Drop(l) : l \in Locks}
          \cup {Call(f) : f \in DOMAIN Paths}
          \cup {Put(w) : w \in {"colour", "line", "plain"}} \cup {Halt}

-----------------------------------------------------------------------------
(***************************************************************************)
(* Sequences of steps.                                                     *)
(***************************************************************************)

\* The lock l that is taken at i is dropped at j, and above it between.
Pair(s, i, j, l) == /\ i < j /\ s[i] = Take(l) /\ s[j] = Drop(l)
                    /\ \A k \in i + 1 .. j - 1 : Rank(s[k]) > Lock(l)

\* The lock l that is dropped at j was taken before s.
Open(s, j, l) == /\ s[j] = Drop(l)
                 /\ \A k \in 1 .. j - 1 : Rank(s[k]) > Lock(l)

TakesPaired(s) == \A i \in DOMAIN s, l \in Locks :
                    s[i] = Take(l) => \E j \in DOMAIN s : Pair(s, i, j, l)

DropsPaired(s) == \A j \in DOMAIN s, l \in Locks :
                    s[j] = Drop(l) => \E i \in DOMAIN s : Pair(s, i, j, l)

\* What a CPU has still to do: locks may be taken already.
Nested(s) == /\ s \in Seq(Work) /\ TakesPaired(s)
             /\ \A j \in DOMAIN s, l \in Locks :
                  s[j] = Drop(l) => Open(s, j, l) \/ \E i \in DOMAIN s : Pair(s, i, j, l)

\* What a function does: it drops what it takes, of rank r or higher.
Closed(p, r) == /\ p \in Seq(Work) /\ TakesPaired(p) /\ DropsPaired(p)
                /\ \A k \in DOMAIN p : Rank(p[k]) >= r

InsideOf(s, l) == \E i \in DOMAIN s : /\ s[i] = Drop(l)
                                      /\ \A j \in 1 .. i - 1 : s[j] # Take(l)

\* Steps of different kinds, or of different locks, are different.
LEMMA StepsDiffer ==
  /\ \A l, k : Take(l) # Drop(k) /\ (Take(l) = Take(k) => l = k) /\ (Drop(l) = Drop(k) => l = k)
  /\ \A f, l : Call(f) # Take(l) /\ Call(f) # Drop(l)
  /\ \A w, l : Put(w) # Take(l) /\ Put(w) # Drop(l)
  /\ \A l : Halt # Take(l) /\ Halt # Drop(l)
BY DEF Take, Drop, Call, Put, Halt

\* The rank of each piece of work, from the rank of its lock or of its function.
LEMMA Ranks ==
  /\ \A l : Rank(Take(l)) = Lock(l) /\ Rank(Drop(l)) = Lock(l)
  /\ \A f : Rank(Call(f)) = Function(f)
  /\ \A w : Rank(Put(w)) = 11
  /\ Rank(Halt) = 11
  /\ \A l : Lock(l) \in 1 .. 10
  /\ \A f : Function(f) \in 1 .. 10
<1>1. \A l : Rank(Take(l)) = Lock(l) /\ Rank(Drop(l)) = Lock(l)
  BY DEF Rank, Take, Drop
<1>2. \A f : Rank(Call(f)) = Function(f)
  BY DEF Rank, Call
<1>3. \A w : Rank(Put(w)) = 11
  BY DEF Rank, Put
<1>4. Rank(Halt) = 11
  BY DEF Rank, Halt
<1>5. \A l : Lock(l) \in 1 .. 10
  BY DEF Lock
<1>6. \A f : Function(f) \in 1 .. 10
  BY DEF Function
<1> QED BY <1>1, <1>2, <1>3, <1>4, <1>5, <1>6

\* Every piece of work has a rank.
LEMMA RankType ==
  ASSUME NEW x \in Work
  PROVE  Rank(x) \in 1 .. 11
BY Ranks DEF Work

\* Where the steps of two sequences are in the joined one.
LEMMA Joining ==
  ASSUME NEW p \in Seq(Work), NEW q \in Seq(Work)
  PROVE  /\ p \o q \in Seq(Work)
         /\ Len(p) \in Nat /\ Len(q) \in Nat
         /\ DOMAIN p = 1 .. Len(p) /\ DOMAIN q = 1 .. Len(q)
         /\ DOMAIN (p \o q) = 1 .. Len(p) + Len(q)
         /\ \A i \in 1 .. Len(p) : (p \o q)[i] = p[i]
         /\ \A i \in 1 .. Len(q) : (p \o q)[Len(p) + i] = q[i]
OBVIOUS

\* Functions after each other.
LEMMA ClosedJoin ==
  ASSUME NEW r \in Nat, NEW p, NEW q, Closed(p, r), Closed(q, r)
  PROVE  Closed(p \o q, r)
<1> DEFINE s == p \o q
           n == Len(p)
<1>1. /\ p \in Seq(Work) /\ q \in Seq(Work) /\ TakesPaired(p) /\ TakesPaired(q)
      /\ DropsPaired(p) /\ DropsPaired(q)
      /\ \A k \in DOMAIN p : Rank(p[k]) >= r
      /\ \A k \in DOMAIN q : Rank(q[k]) >= r
  BY DEF Closed
<1>2. /\ s \in Seq(Work) /\ n \in Nat /\ Len(q) \in Nat
      /\ DOMAIN p = 1 .. n /\ DOMAIN q = 1 .. Len(q) /\ DOMAIN s = 1 .. n + Len(q)
      /\ \A i \in 1 .. n : s[i] = p[i]
      /\ \A i \in 1 .. Len(q) : s[n + i] = q[i]
  BY <1>1, Joining
<1> HIDE DEF s, n
<1>3. \A i, j \in DOMAIN p, l \in Locks : Pair(p, i, j, l) => Pair(s, i, j, l)
  BY <1>2 DEF Pair
<1>4. ASSUME NEW i \in DOMAIN q, NEW j \in DOMAIN q, NEW l \in Locks, Pair(q, i, j, l)
      PROVE  Pair(s, n + i, n + j, l)
  <2>1. ASSUME NEW k \in n + i + 1 .. n + j - 1
        PROVE  Rank(s[k]) > Lock(l)
    <3>1. k - n \in i + 1 .. j - 1 /\ k - n \in 1 .. Len(q) /\ k = n + (k - n)
      BY <1>2
    <3> QED BY <1>2, <1>4, <3>1 DEF Pair
  <2>2. i < j /\ q[i] = Take(l) /\ q[j] = Drop(l)
    BY <1>4 DEF Pair
  <2>3. n + i < n + j /\ s[n + i] = Take(l) /\ s[n + j] = Drop(l)
    BY <1>2, <2>2
  <2> DEFINE a == n + i
             b == n + j
  <2>4. a + 1 = n + i + 1 /\ b - 1 = n + j - 1
    BY <1>2
  <2>5. a < b /\ s[a] = Take(l) /\ s[b] = Drop(l) /\ \A k \in a + 1 .. b - 1 : Rank(s[k]) > Lock(l)
    BY <2>1, <2>3, <2>4
  <2> HIDE DEF a, b
  <2>6. Pair(s, a, b, l)
    BY <2>5 DEF Pair
  <2> QED BY <2>6 DEF a, b
<1>5. \A i \in DOMAIN s : i \in DOMAIN p \/ (i - n \in DOMAIN q /\ s[i] = q[i - n])
  <2>1. ASSUME NEW i \in DOMAIN s, i \notin DOMAIN p
        PROVE  i - n \in 1 .. Len(q) /\ i = n + (i - n)
    BY <1>2, <2>1
  <2> QED BY <1>2, <2>1
<1>6. \A i \in DOMAIN q : n + i \in DOMAIN s
  BY <1>2
<1>7. TakesPaired(s)
  <2> SUFFICES ASSUME NEW i \in DOMAIN s, NEW l \in Locks, s[i] = Take(l)
               PROVE  \E j \in DOMAIN s : Pair(s, i, j, l)
    BY DEF TakesPaired
  <2>1. CASE i \in DOMAIN p
    <3>1. PICK j \in DOMAIN p : Pair(p, i, j, l)
      BY <1>1, <1>2, <2>1 DEF TakesPaired
    <3> QED BY <1>2, <1>3, <2>1, <3>1
  <2>2. CASE i \notin DOMAIN p
    <3>1. i - n \in DOMAIN q /\ q[i - n] = Take(l)
      BY <1>5, <2>2
    <3>2. PICK j \in DOMAIN q : Pair(q, i - n, j, l)
      BY <1>1, <3>1 DEF TakesPaired
    <3>3. Pair(s, n + (i - n), n + j, l) /\ n + (i - n) = i
      BY <1>2, <1>4, <3>1, <3>2
    <3> QED BY <1>6, <3>2, <3>3
  <2> QED BY <2>1, <2>2
<1>8. DropsPaired(s)
  <2> SUFFICES ASSUME NEW i \in DOMAIN s, NEW l \in Locks, s[i] = Drop(l)
               PROVE  \E j \in DOMAIN s : Pair(s, j, i, l)
    BY DEF DropsPaired
  <2>1. CASE i \in DOMAIN p
    <3>1. PICK j \in DOMAIN p : Pair(p, j, i, l)
      BY <1>1, <1>2, <2>1 DEF DropsPaired
    <3> QED BY <1>2, <1>3, <2>1, <3>1
  <2>2. CASE i \notin DOMAIN p
    <3>1. i - n \in DOMAIN q /\ q[i - n] = Drop(l)
      BY <1>5, <2>2
    <3>2. PICK j \in DOMAIN q : Pair(q, j, i - n, l)
      BY <1>1, <3>1 DEF DropsPaired
    <3>3. Pair(s, n + j, n + (i - n), l) /\ n + (i - n) = i
      BY <1>2, <1>4, <3>1, <3>2
    <3> QED BY <1>6, <3>2, <3>3
  <2> QED BY <2>1, <2>2
<1>9. \A k \in DOMAIN s : Rank(s[k]) >= r
  BY <1>1, <1>2, <1>5
<1> QED BY <1>2, <1>7, <1>8, <1>9 DEF Closed, s

\* Steps that take and drop nothing themselves.
LEMMA ClosedPlain ==
  ASSUME NEW r \in Nat, NEW p \in Seq(Work),
         \A i \in DOMAIN p : /\ Rank(p[i]) >= r
                            /\ \A l \in Locks : p[i] # Take(l) /\ p[i] # Drop(l)
  PROVE  Closed(p, r)
BY DEF Closed, TakesPaired, DropsPaired

\* No steps at all take and drop no locks.
LEMMA ClosedEmpty ==
  ASSUME NEW r \in Nat
  PROVE  Closed(<<>>, r)
<1>1. <<>> \in Seq(Work) /\ DOMAIN <<>> = {}
  OBVIOUS
<1> QED BY <1>1 DEF Closed, TakesPaired, DropsPaired

\* One call, or one print.
LEMMA ClosedCall ==
  ASSUME NEW r \in Nat, NEW f \in DOMAIN Paths, Function(f) >= r
  PROVE  Closed(<<Call(f)>>, r)
<1> DEFINE p == <<Call(f)>>
<1>1. p \in Seq(Work) /\ DOMAIN p = {1} /\ p[1] = Call(f)
  BY DEF Work
<1> HIDE DEF p
<1>2. \A i \in DOMAIN p : /\ Rank(p[i]) >= r
                          /\ \A l \in Locks : p[i] # Take(l) /\ p[i] # Drop(l)
  BY <1>1, Ranks, StepsDiffer
<1>3. Closed(p, r)
  BY <1>1, <1>2, ClosedPlain
<1> QED BY <1>3 DEF p

\* A write to a device, or the halt, takes no lock.
LEMMA ClosedLast ==
  ASSUME NEW r \in 0 .. 11, NEW x \in {Put(w) : w \in {"colour", "line", "plain"}} \cup {Halt}
  PROVE  Closed(<<x>>, r)
<1> DEFINE p == <<x>>
<1>1. p \in Seq(Work) /\ DOMAIN p = {1} /\ p[1] = x
  BY DEF Work
<1> HIDE DEF p
<1>2. \A i \in DOMAIN p : /\ Rank(p[i]) >= r
                          /\ \A l \in Locks : p[i] # Take(l) /\ p[i] # Drop(l)
  BY <1>1, Ranks, StepsDiffer
<1>3. Closed(p, r)
  BY <1>1, <1>2, ClosedPlain
<1> QED BY <1>3 DEF p

\* Steps above a rank are above every lower one.
LEMMA ClosedLower ==
  ASSUME NEW r \in Nat, NEW q \in Nat, r <= q, NEW p, Closed(p, q)
  PROVE  Closed(p, r)
<1>1. \A k \in DOMAIN p : Rank(p[k]) \in 1 .. 11
  BY RankType DEF Closed
<1> QED BY <1>1 DEF Closed

\* A lock around what takes locks of higher rank only.
LEMMA ClosedUnder ==
  ASSUME NEW l \in Locks, NEW p, Closed(p, Lock(l) + 1)
  PROVE  Closed(Under(l, p), Lock(l))
<1> DEFINE s == Under(l, p)
           n == Len(p)
<1>1. /\ p \in Seq(Work) /\ TakesPaired(p) /\ DropsPaired(p)
      /\ \A k \in DOMAIN p : Rank(p[k]) >= Lock(l) + 1
      /\ Lock(l) \in 1 .. 10
  BY Ranks DEF Closed
<1>2. /\ s \in Seq(Work) /\ n \in Nat /\ DOMAIN p = 1 .. n /\ DOMAIN s = 1 .. n + 2
      /\ s[1] = Take(l) /\ s[n + 2] = Drop(l)
      /\ \A i \in 1 .. n : s[i + 1] = p[i]
  <2>1. /\ <<Take(l)>> \in Seq(Work) /\ Len(<<Take(l)>>) = 1 /\ <<Take(l)>>[1] = Take(l)
        /\ <<Drop(l)>> \in Seq(Work) /\ Len(<<Drop(l)>>) = 1 /\ <<Drop(l)>>[1] = Drop(l)
    BY DEF Work
  <2> DEFINE t == <<Take(l)>>
             d == <<Drop(l)>>
             tp == t \o p
  <2>2. s = tp \o d
    BY DEF Under
  <2> HIDE DEF t, d, tp, s
  <2>3. t \in Seq(Work) /\ Len(t) = 1 /\ t[1] = Take(l) /\ d \in Seq(Work) /\ Len(d) = 1 /\ d[1] = Drop(l)
    BY <2>1 DEF t, d
  <2>4. /\ tp \in Seq(Work) /\ Len(tp) = n + 1 /\ n \in Nat /\ DOMAIN p = 1 .. n
        /\ tp[1] = Take(l) /\ \A i \in 1 .. n : tp[1 + i] = p[i]
    BY <1>1, <2>3, Joining DEF tp
  <2>5. /\ s \in Seq(Work) /\ DOMAIN s = 1 .. n + 2
        /\ \A i \in 1 .. n + 1 : s[i] = tp[i]
        /\ s[(n + 1) + 1] = d[1]
    <3>1. /\ tp \o d \in Seq(Work) /\ DOMAIN (tp \o d) = 1 .. Len(tp) + Len(d)
          /\ \A i \in 1 .. Len(tp) : (tp \o d)[i] = tp[i]
          /\ \A i \in 1 .. Len(d) : (tp \o d)[Len(tp) + i] = d[i]
      BY <2>3, <2>4, Joining
    <3>2. 1 \in 1 .. Len(d) /\ Len(tp) + Len(d) = n + 2
      BY <2>3, <2>4
    <3> QED BY <2>2, <2>4, <3>1, <3>2
  <2> QED BY <2>3, <2>4, <2>5
<1> HIDE DEF s, n
<1>3. \A i \in DOMAIN s : i = 1 \/ i = n + 2 \/ (i - 1 \in DOMAIN p /\ s[i] = p[i - 1])
  <2>1. ASSUME NEW i \in 1 .. n + 2, i # 1, i # n + 2
        PROVE  i - 1 \in 1 .. n /\ i = (i - 1) + 1
    BY <1>2, <2>1
  <2> QED BY <1>2, <2>1
<1>4. Pair(s, 1, n + 2, l)
  <2>1. ASSUME NEW k \in 2 .. n + 1
        PROVE  Rank(s[k]) > Lock(l)
    <3>1. k - 1 \in DOMAIN p /\ s[k] = p[k - 1] /\ s[k] \in Work
      BY <1>2, <1>3
    <3>2. Rank(s[k]) >= Lock(l) + 1 /\ Rank(s[k]) \in 1 .. 11
      BY <1>1, <3>1, RankType
    <3> QED BY <1>1, <3>2
  <2> QED BY <1>2, <2>1 DEF Pair
<1>5. ASSUME NEW i \in DOMAIN p, NEW j \in DOMAIN p, NEW m \in Locks, Pair(p, i, j, m)
      PROVE  Pair(s, i + 1, j + 1, m)
  <2>1. ASSUME NEW k \in i + 1 + 1 .. j + 1 - 1
        PROVE  Rank(s[k]) > Lock(m)
    <3>1. k - 1 \in i + 1 .. j - 1 /\ k - 1 \in 1 .. n /\ k = (k - 1) + 1
      BY <1>2
    <3> QED BY <1>2, <1>5, <3>1 DEF Pair
  <2> QED BY <1>2, <1>5, <2>1 DEF Pair
<1>6. \A i \in DOMAIN p : i + 1 \in DOMAIN s
  BY <1>2
<1>7. TakesPaired(s)
  <2> SUFFICES ASSUME NEW i \in DOMAIN s, NEW m \in Locks, s[i] = Take(m)
               PROVE  \E j \in DOMAIN s : Pair(s, i, j, m)
    BY DEF TakesPaired
  <2>1. CASE i = 1
    BY <1>2, <1>4, <2>1, StepsDiffer
  <2>2. CASE i = n + 2
    BY <1>2, <2>2, StepsDiffer
  <2>3. CASE i # 1 /\ i # n + 2
    <3>1. i - 1 \in DOMAIN p /\ p[i - 1] = Take(m)
      BY <1>3, <2>3
    <3>2. PICK j \in DOMAIN p : Pair(p, i - 1, j, m)
      BY <1>1, <3>1 DEF TakesPaired
    <3>3. Pair(s, (i - 1) + 1, j + 1, m) /\ (i - 1) + 1 = i
      BY <1>2, <1>5, <3>1, <3>2
    <3> QED BY <1>6, <3>2, <3>3
  <2> QED BY <2>1, <2>2, <2>3
<1>8. DropsPaired(s)
  <2> SUFFICES ASSUME NEW i \in DOMAIN s, NEW m \in Locks, s[i] = Drop(m)
               PROVE  \E j \in DOMAIN s : Pair(s, j, i, m)
    BY DEF DropsPaired
  <2>1. CASE i = 1
    BY <1>2, <2>1, StepsDiffer
  <2>2. CASE i = n + 2
    BY <1>2, <1>4, <2>2, StepsDiffer
  <2>3. CASE i # 1 /\ i # n + 2
    <3>1. i - 1 \in DOMAIN p /\ p[i - 1] = Drop(m)
      BY <1>3, <2>3
    <3>2. PICK j \in DOMAIN p : Pair(p, j, i - 1, m)
      BY <1>1, <3>1 DEF DropsPaired
    <3>3. Pair(s, j + 1, (i - 1) + 1, m) /\ (i - 1) + 1 = i
      BY <1>2, <1>5, <3>1, <3>2
    <3> QED BY <1>6, <3>2, <3>3
  <2> QED BY <2>1, <2>2, <2>3
<1>9. ASSUME NEW k \in DOMAIN s
      PROVE  Rank(s[k]) >= Lock(l)
  <2>1. k = 1 \/ k = n + 2 => Rank(s[k]) = Lock(l)
    BY <1>2, Ranks
  <2>2. k # 1 /\ k # n + 2 => Rank(s[k]) >= Lock(l) + 1
    BY <1>1, <1>3
  <2>3. Rank(s[k]) \in 1 .. 11
    BY <1>2, RankType
  <2> QED BY <1>1, <2>1, <2>2, <2>3
<1> QED BY <1>2, <1>7, <1>8, <1>9 DEF Closed, s

-----------------------------------------------------------------------------
(***************************************************************************)
(* What a CPU has still to do.                                             *)
(***************************************************************************)

\* A step is done.
LEMMA TailNested ==
  ASSUME NEW s, Nested(s), s # <<>>
  PROVE  Nested(Tail(s))
<1> DEFINE t == Tail(s)
<1>1. s \in Seq(Work) /\ TakesPaired(s)
  BY DEF Nested
<1>2. /\ t \in Seq(Work) /\ Len(s) \in Nat \ {0} /\ DOMAIN s = 1 .. Len(s)
      /\ DOMAIN t = 1 .. Len(s) - 1
      /\ \A i \in DOMAIN t : t[i] = s[i + 1] /\ i + 1 \in DOMAIN s
  BY <1>1
<1> HIDE DEF t
<1>3. ASSUME NEW i \in DOMAIN t, NEW j \in DOMAIN s, NEW l \in Locks, Pair(s, i + 1, j, l)
      PROVE  j - 1 \in DOMAIN t /\ Pair(t, i, j - 1, l)
  <2>1. i + 1 < j /\ j - 1 \in DOMAIN t /\ j = (j - 1) + 1
    BY <1>2, <1>3 DEF Pair
  <2>2. ASSUME NEW k \in i + 1 .. (j - 1) - 1
        PROVE  Rank(t[k]) > Lock(l)
    <3>1. k + 1 \in i + 1 + 1 .. j - 1 /\ k \in DOMAIN t
      BY <1>2, <2>1
    <3> QED BY <1>2, <1>3, <3>1 DEF Pair
  <2> QED BY <1>2, <1>3, <2>1, <2>2 DEF Pair
<1>4. TakesPaired(t)
  <2> SUFFICES ASSUME NEW i \in DOMAIN t, NEW l \in Locks, t[i] = Take(l)
               PROVE  \E j \in DOMAIN t : Pair(t, i, j, l)
    BY DEF TakesPaired
  <2>1. PICK j \in DOMAIN s : Pair(s, i + 1, j, l)
    BY <1>1, <1>2 DEF TakesPaired
  <2> QED BY <1>3, <2>1
<1>5. ASSUME NEW j \in DOMAIN t, NEW l \in Locks, t[j] = Drop(l)
      PROVE  Open(t, j, l) \/ \E i \in DOMAIN t : Pair(t, i, j, l)
  <2>1. j + 1 \in DOMAIN s /\ s[j + 1] = Drop(l) /\ j \in Nat
    BY <1>2, <1>5
  <2>2. Open(s, j + 1, l) \/ \E i \in DOMAIN s : Pair(s, i, j + 1, l)
    BY <2>1 DEF Nested
  <2>3. ASSUME NEW i \in DOMAIN s, Pair(s, i, j + 1, l), i # 1
        PROVE  i - 1 \in DOMAIN t /\ Pair(t, i - 1, j, l)
    <3>1. i - 1 \in DOMAIN t /\ (i - 1) + 1 = i /\ (j + 1) - 1 = j
      BY SMTT(30), <1>2, <2>1, <2>3 DEF Pair
    <3> QED BY <1>3, <2>1, <2>3, <3>1
  <2>4. ASSUME Open(s, j + 1, l) \/ Pair(s, 1, j + 1, l)
        PROVE  Open(t, j, l)
    <3>1. ASSUME NEW k \in 1 .. j - 1
          PROVE  Rank(t[k]) > Lock(l)
      <4>1. /\ k + 1 \in 1 .. (j + 1) - 1 /\ k + 1 \in 1 + 1 .. (j + 1) - 1
            /\ k \in DOMAIN t
        BY <1>2, <2>1
      <4> QED BY <1>2, <2>4, <4>1 DEF Open, Pair
    <3> QED BY <1>5, <3>1 DEF Open
  <2> QED BY <2>2, <2>3, <2>4
<1> QED BY <1>2, <1>4, <1>5 DEF Nested, t

\* A call is replaced by the steps of the function.
LEMMA EnterNested ==
  ASSUME NEW s, Nested(s), s # <<>>, NEW f \in DOMAIN Paths, s[1] = Call(f),
         NEW p, Closed(p, Function(f))
  PROVE  /\ Nested(p \o Tail(s))
         /\ \A l \in Locks : InsideOf(p \o Tail(s), l) <=> InsideOf(s, l)
<1> DEFINE t == Tail(s)
           e == p \o t
           n == Len(p)
<1>1. /\ p \in Seq(Work) /\ TakesPaired(p) /\ DropsPaired(p)
      /\ \A k \in DOMAIN p : Rank(p[k]) >= Function(f) /\ Rank(p[k]) \in 1 .. 11
      /\ Function(f) \in 1 .. 10
  BY Ranks, RankType DEF Closed
<1>2. /\ s \in Seq(Work) /\ Len(s) \in Nat \ {0} /\ DOMAIN s = 1 .. Len(s)
      /\ t \in Seq(Work) /\ DOMAIN t = 1 .. Len(s) - 1 /\ Len(t) = Len(s) - 1
      /\ \A i \in DOMAIN t : t[i] = s[i + 1] /\ i + 1 \in DOMAIN s
  BY DEF Nested
<1>3. Nested(t)
  BY TailNested
<1> HIDE DEF t
<1>4. /\ e \in Seq(Work) /\ n \in Nat /\ DOMAIN p = 1 .. n /\ DOMAIN e = 1 .. n + Len(t)
      /\ DOMAIN t = 1 .. Len(t) /\ Len(t) \in Nat
      /\ \A i \in 1 .. n : e[i] = p[i]
      /\ \A i \in 1 .. Len(t) : e[n + i] = t[i]
  BY <1>1, <1>2, Joining
<1> HIDE DEF e, n
<1>5. ASSUME NEW i \in DOMAIN p, NEW j \in DOMAIN p, NEW l \in Locks, Pair(p, i, j, l)
      PROVE  Pair(e, i, j, l)
  <2>1. \A k \in i + 1 .. j - 1 : e[k] = p[k]
    BY <1>4
  <2> QED BY <1>4, <1>5, <2>1 DEF Pair
<1>6. ASSUME NEW i \in DOMAIN t, NEW j \in DOMAIN t, NEW l \in Locks, Pair(t, i, j, l)
      PROVE  Pair(e, n + i, n + j, l)
  <2>1. ASSUME NEW k \in n + i + 1 .. n + j - 1
        PROVE  Rank(e[k]) > Lock(l)
    <3>1. k - n \in i + 1 .. j - 1 /\ k - n \in 1 .. Len(t) /\ k = n + (k - n)
      BY <1>4
    <3> QED BY <1>4, <1>6, <3>1 DEF Pair
  <2>2. i < j /\ t[i] = Take(l) /\ t[j] = Drop(l)
    BY <1>6 DEF Pair
  <2>3. n + i < n + j /\ e[n + i] = Take(l) /\ e[n + j] = Drop(l)
    BY <1>4, <2>2
  <2> DEFINE a == n + i
             b == n + j
  <2>4. a + 1 = n + i + 1 /\ b - 1 = n + j - 1
    BY <1>4
  <2>5. a < b /\ e[a] = Take(l) /\ e[b] = Drop(l) /\ \A k \in a + 1 .. b - 1 : Rank(e[k]) > Lock(l)
    BY <2>1, <2>3, <2>4
  <2> HIDE DEF a, b
  <2>6. Pair(e, a, b, l)
    BY <2>5 DEF Pair
  <2> QED BY <2>6 DEF a, b
<1>7. \A i \in DOMAIN e : i \in DOMAIN p \/ (i - n \in DOMAIN t /\ e[i] = t[i - n])
  <2>1. ASSUME NEW i \in DOMAIN e, i \notin DOMAIN p
        PROVE  i - n \in 1 .. Len(t) /\ i = n + (i - n)
    BY <1>4, <2>1
  <2> QED BY <1>4, <2>1
<1>8. \A i \in DOMAIN t : n + i \in DOMAIN e
  BY <1>4
<1>9. TakesPaired(e)
  <2> SUFFICES ASSUME NEW i \in DOMAIN e, NEW l \in Locks, e[i] = Take(l)
               PROVE  \E j \in DOMAIN e : Pair(e, i, j, l)
    BY DEF TakesPaired
  <2>1. CASE i \in DOMAIN p
    <3>1. PICK j \in DOMAIN p : Pair(p, i, j, l)
      BY <1>1, <1>4, <2>1 DEF TakesPaired
    <3> QED BY <1>4, <1>5, <2>1, <3>1
  <2>2. CASE i \notin DOMAIN p
    <3>1. i - n \in DOMAIN t /\ t[i - n] = Take(l)
      BY <1>7, <2>2
    <3>2. PICK j \in DOMAIN t : Pair(t, i - n, j, l)
      BY <1>3, <3>1 DEF TakesPaired, Nested
    <3>3. Pair(e, n + (i - n), n + j, l) /\ n + (i - n) = i
      BY <1>4, <1>6, <3>1, <3>2
    <3> QED BY <1>8, <3>2, <3>3
  <2> QED BY <2>1, <2>2
\* What is open behind the call is of lower rank than all of the function.
<1>10. ASSUME NEW l \in Locks, NEW j \in DOMAIN t, Open(s, j + 1, l)
       PROVE  \A k \in 1 .. n : Rank(e[k]) > Lock(l)
  <2>1. 1 \in 1 .. (j + 1) - 1
    BY <1>4
  <2>2. Rank(s[1]) > Lock(l)
    BY <1>10, <2>1 DEF Open
  <2>3. Function(f) > Lock(l) /\ Lock(l) \in 1 .. 10
    BY <2>2, Ranks
  <2>4. ASSUME NEW k \in 1 .. n
        PROVE  Rank(e[k]) > Lock(l)
    <3>1. e[k] = p[k] /\ Rank(p[k]) >= Function(f) /\ Rank(p[k]) \in 1 .. 11
      BY <1>1, <1>4
    <3> QED BY <1>1, <2>3, <3>1
  <2> QED BY <2>4
<1>11. ASSUME NEW l \in Locks, NEW j \in DOMAIN t, Open(s, j + 1, l)
       PROVE  Open(e, n + j, l)
  <2>1. ASSUME NEW k \in 1 .. n + j - 1
        PROVE  Rank(e[k]) > Lock(l)
    <3>1. CASE k \in 1 .. n
      BY <1>10, <1>11, <3>1
    <3>2. CASE k \notin 1 .. n
      <4>1. k - n \in DOMAIN t /\ k = n + (k - n) /\ (k - n) + 1 \in 1 .. (j + 1) - 1
        BY <1>4, <3>2
      <4>2. e[k] = s[(k - n) + 1]
        BY <1>2, <1>4, <4>1
      <4> QED BY <1>11, <4>1, <4>2 DEF Open
    <3> QED BY <3>1, <3>2
  <2>2. e[n + j] = Drop(l)
    BY <1>2, <1>4, <1>11 DEF Open
  <2> DEFINE m == n + j
  <2>3. (\A k \in 1 .. m - 1 : Rank(e[k]) > Lock(l)) /\ e[m] = Drop(l)
    <3>1. m - 1 = n + j - 1
      BY <1>4
    <3> QED BY <2>1, <2>2, <3>1
  <2> HIDE DEF m
  <2>4. Open(e, m, l)
    BY <2>3 DEF Open
  <2> QED BY <2>4 DEF m
<1>12. ASSUME NEW l \in Locks, NEW i \in DOMAIN s, NEW j \in DOMAIN t, Pair(s, i, j + 1, l)
       PROVE  i - 1 \in DOMAIN t /\ Pair(t, i - 1, j, l)
  <2>1. i # 1
    BY <1>12, StepsDiffer DEF Pair
  <2>2. i - 1 \in DOMAIN t /\ i - 1 < j /\ (i - 1) + 1 = i
    BY <1>2, <1>4, <1>12, <2>1 DEF Pair
  <2>3. ASSUME NEW k \in (i - 1) + 1 .. j - 1
        PROVE  Rank(t[k]) > Lock(l)
    <3>1. k + 1 \in i + 1 .. (j + 1) - 1 /\ k \in DOMAIN t
      BY SMTT(30), <1>2, <1>4, <2>2
    <3> QED BY <1>2, <1>12, <3>1 DEF Pair
  <2> QED BY <1>2, <1>12, <2>2, <2>3 DEF Pair
<1>13. ASSUME NEW j \in DOMAIN e, NEW l \in Locks, e[j] = Drop(l)
       PROVE  \/ \E i \in DOMAIN e : Pair(e, i, j, l)
              \/ j - n \in DOMAIN t /\ Open(s, (j - n) + 1, l) /\ Open(e, j, l)
  <2>1. CASE j \in DOMAIN p
    <3>1. PICK i \in DOMAIN p : Pair(p, i, j, l)
      BY <1>1, <1>4, <1>13, <2>1 DEF DropsPaired
    <3> QED BY <1>4, <1>5, <2>1, <3>1
  <2>2. CASE j \notin DOMAIN p
    <3>1. j - n \in DOMAIN t /\ t[j - n] = Drop(l) /\ n + (j - n) = j
      BY <1>4, <1>7, <1>13, <2>2
    <3>2. (j - n) + 1 \in DOMAIN s /\ s[(j - n) + 1] = Drop(l)
      BY <1>2, <3>1
    <3>3. CASE Open(s, (j - n) + 1, l)
      BY <1>11, <3>1, <3>3
    <3>4. CASE \E i \in DOMAIN s : Pair(s, i, (j - n) + 1, l)
      <4>1. PICK i \in DOMAIN s : Pair(s, i, (j - n) + 1, l)
        BY <3>4
      <4>2. i - 1 \in DOMAIN t /\ Pair(t, i - 1, j - n, l)
        BY <1>12, <3>1, <4>1
      <4>3. Pair(e, n + (i - 1), n + (j - n), l)
        BY <1>6, <3>1, <4>2
      <4> QED BY <1>8, <3>1, <4>2, <4>3
    <3> QED BY <3>2, <3>3, <3>4 DEF Nested
  <2> QED BY <2>1, <2>2
<1>14. Nested(e)
  BY <1>4, <1>9, <1>13 DEF Nested
<1>15. ASSUME NEW l \in Locks, InsideOf(e, l)
       PROVE  InsideOf(s, l)
  <2>1. PICK j \in DOMAIN e : e[j] = Drop(l) /\ \A k \in 1 .. j - 1 : e[k] # Take(l)
    BY <1>15 DEF InsideOf
  <2>2. j \in Nat /\ \A i \in DOMAIN e : ~Pair(e, i, j, l)
    BY <1>4, <2>1 DEF Pair
  <2>3. j - n \in DOMAIN t /\ Open(s, (j - n) + 1, l)
    BY <1>13, <2>1, <2>2
  <2>4. \A k \in 1 .. ((j - n) + 1) - 1 : s[k] # Take(l)
    BY <2>3, Ranks DEF Open
  <2>5. (j - n) + 1 \in DOMAIN s
    BY <1>2, <2>3
  <2> QED BY <2>3, <2>4, <2>5 DEF InsideOf, Open
<1>16. ASSUME NEW l \in Locks, InsideOf(s, l)
       PROVE  InsideOf(e, l)
  <2>1. PICK j \in DOMAIN s : s[j] = Drop(l) /\ \A k \in 1 .. j - 1 : s[k] # Take(l)
    BY <1>16 DEF InsideOf
  <2>2. \A i \in DOMAIN s : ~Pair(s, i, j, l)
    BY <1>2, <2>1 DEF Pair
  <2>3. Open(s, j, l)
    BY <2>1, <2>2 DEF Nested
  <2>4. j - 1 \in DOMAIN t /\ (j - 1) + 1 = j
    BY <1>2, <2>1, StepsDiffer
  <2>5. Open(e, n + (j - 1), l) /\ n + (j - 1) \in DOMAIN e
    BY <1>8, <1>11, <2>3, <2>4
  <2> DEFINE m == n + (j - 1)
  <2>6. Open(e, m, l) /\ m \in DOMAIN e
    BY <2>5
  <2> HIDE DEF m
  <2>7. (\A k \in 1 .. m - 1 : Rank(e[k]) > Lock(l)) /\ e[m] = Drop(l)
    BY <2>6 DEF Open
  <2>8. \A k \in 1 .. m - 1 : e[k] # Take(l)
    BY <2>7, Ranks
  <2> QED BY <2>6, <2>7, <2>8 DEF InsideOf
<1> QED BY <1>14, <1>15, <1>16 DEF e, t

-----------------------------------------------------------------------------
(***************************************************************************)
(* The functions.                                                          *)
(***************************************************************************)

\* The calls of functions that take locks of rank r or higher only.
CallsOf(r) == {Call(f) : f \in {g \in DOMAIN Paths : Function(g) >= r}}

\* Calls in a row.
LEMMA ClosedCalls ==
  ASSUME NEW r \in Nat, NEW p \in Seq(CallsOf(r))
  PROVE  Closed(p, r)
<1>1. \A i \in DOMAIN p : p[i] \in CallsOf(r)
  OBVIOUS
<1>2. p \in Seq(Work)
  <2>1. CallsOf(r) \subseteq Work
    BY DEF Work, CallsOf
  <2> QED BY <2>1, SeqMonotonic
<1>3. \A i \in DOMAIN p : Rank(p[i]) >= r
  BY <1>1, Ranks DEF CallsOf
<1>4. \A i \in DOMAIN p : \A l \in Locks : p[i] # Take(l) /\ p[i] # Drop(l)
  BY <1>1, StepsDiffer DEF CallsOf
<1> QED BY <1>2, <1>3, <1>4, ClosedPlain

\* The functions there are.
LEMMA PathsDomain ==
  DOMAIN Paths = {"serial_writes", "kmalloc", "kfree", "krealloc", "kvfprintf", "kvprintf",
    "drm_plot", "drm_sync", "drm_clear", "drm_switch", "vt_flush", "vt_redraw",
    "kprint_colour", "kprint_line", "kprint_plain", "log", "logf", "stack_trace",
    "kernel_panic", "kernel_panic_error", "fault_handler", "panic_handle", "cpu_init",
    "cpu_get_random_cpu", "devman_register_driver", "devman_handle_pcie_device",
    "devman_add_storage", "gpt_init", "devman_add_partition"}
BY DEF Paths

\* The functions by what they take.
LEMMA CallsRanked ==
  /\ \A f \in {"drm_sync"} : Call(f) \in CallsOf(10)
  /\ \A f \in {"vt_flush", "drm_clear", "drm_plot", "drm_sync"} : Call(f) \in CallsOf(9)
  /\ \A f \in {"vt_flush"} : Call(f) \in CallsOf(8)
  /\ \A f \in {"serial_writes", "kmalloc", "kfree", "krealloc", "kvfprintf", "kprint_plain",
        "kprint_colour", "kprint_line"} : Call(f) \in CallsOf(6)
  /\ \A f \in {"log", "logf", "stack_trace", "kmalloc", "serial_writes", "kernel_panic",
        "kernel_panic_error"} : Call(f) \in CallsOf(5)
  /\ \A f \in {"log", "logf"} : Call(f) \in CallsOf(4)
  /\ \A f \in {"kmalloc", "krealloc", "log"} : Call(f) \in CallsOf(3)
  /\ \A f \in {"logf", "devman_add_storage", "gpt_init", "kernel_panic_error", "kprint_plain",
        "kvprintf", "devman_add_partition"} : Call(f) \in CallsOf(2)
  /\ \A f \in {"kmalloc"} : Call(f) \in CallsOf(1)
<1>1. \A f \in DOMAIN Paths, r \in Nat : Function(f) >= r => Call(f) \in CallsOf(r)
  BY DEF CallsOf
<1>2. \A f \in {"drm_sync"} : Call(f) \in CallsOf(10)
  BY <1>1, PathsDomain DEF Function
<1>3. \A f \in {"vt_flush", "drm_clear", "drm_plot", "drm_sync"} : Call(f) \in CallsOf(9)
  BY <1>1, PathsDomain DEF Function
<1>4. \A f \in {"vt_flush"} : Call(f) \in CallsOf(8)
  BY <1>1, PathsDomain DEF Function
<1>5. \A f \in {"serial_writes", "kmalloc", "kfree", "krealloc", "kvfprintf", "kprint_plain",
        "kprint_colour", "kprint_line"} : Call(f) \in CallsOf(6)
  BY <1>1, PathsDomain DEF Function
<1>6. \A f \in {"log", "logf", "stack_trace", "kmalloc", "serial_writes", "kernel_panic",
        "kernel_panic_error"} : Call(f) \in CallsOf(5)
  BY <1>1, PathsDomain DEF Function
<1>7. \A f \in {"log", "logf"} : Call(f) \in CallsOf(4)
  BY <1>1, PathsDomain DEF Function
<1>8. \A f \in {"kmalloc", "krealloc", "log"} : Call(f) \in CallsOf(3)
  BY <1>1, PathsDomain DEF Function
<1>9. \A f \in {"logf", "devman_add_storage", "gpt_init", "kernel_panic_error", "kprint_plain",
        "kvprintf", "devman_add_partition"} : Call(f) \in CallsOf(2)
  BY <1>1, PathsDomain DEF Function
<1>10. \A f \in {"kmalloc"} : Call(f) \in CallsOf(1)
  BY <1>1, PathsDomain DEF Function
<1> QED BY <1>2, <1>3, <1>4, <1>5, <1>6, <1>7, <1>8, <1>9, <1>10

\* The ranks of the locks, one by one.
LEMMA LockRanks ==
  /\ Locks = {"driver", "storage", "panic", "cpu_list", "log", "heap", "serial", "vt", "drm", "drm_sys"}
  /\ Lock("driver") = 1 /\ Lock("storage") = 2 /\ Lock("panic") = 3 /\ Lock("cpu_list") = 4
  /\ Lock("log") = 5 /\ Lock("heap") = 6 /\ Lock("serial") = 7 /\ Lock("vt") = 8
  /\ Lock("drm") = 9 /\ Lock("drm_sys") = 10
BY DEF Locks, Lock

\* A lock around calls.
LEMMA ClosedAround ==
  ASSUME NEW l \in Locks, NEW p \in Seq(CallsOf(Lock(l) + 1))
  PROVE  Closed(Under(l, p), Lock(l))
<1>1. Lock(l) + 1 \in Nat
  BY Ranks
<1>2. Closed(p, Lock(l) + 1)
  BY <1>1, ClosedCalls
<1> QED BY <1>2, ClosedUnder

\* log takes the lock of the log around locks of higher ranks.
LEMMA LogClosed ==
  ASSUME NEW p \in Log
  PROVE  Closed(p, 5)
<1>1. "log" \in Locks /\ Lock("log") = 5
  BY LockRanks
<1>2. /\ <<Call("serial_writes"), Call("kprint_colour"), Call("kprint_line")>> \in Seq(CallsOf(6))
      /\ <<Call("serial_writes")>> \in Seq(CallsOf(6))
      /\ <<>> \in Seq(CallsOf(6))
  BY CallsRanked
<1>3. \E q \in Seq(CallsOf(6)) : p = Under("log", q)
  BY <1>2 DEF Log
<1> QED BY <1>1, <1>3, ClosedAround

\* logf takes the lock of the log around locks of higher ranks.
LEMMA LogfClosed ==
  ASSUME NEW p \in Logf
  PROVE  Closed(p, 5)
<1>1. "log" \in Locks /\ Lock("log") = 5
  BY LockRanks
<1>2. /\ <<Call("kvfprintf"), Call("serial_writes"), Call("kprint_colour"),
          Call("kprint_line"), Call("kfree")>> \in Seq(CallsOf(6))
      /\ <<Call("kvfprintf"), Call("serial_writes"), Call("kfree")>> \in Seq(CallsOf(6))
      /\ <<Call("kvfprintf"), Call("kfree")>> \in Seq(CallsOf(6))
  BY CallsRanked
<1>3. \E q \in Seq(CallsOf(6)) : p = Under("log", q)
  BY <1>2 DEF Logf
<1> QED BY <1>1, <1>3, ClosedAround

\* The terminal is written and flushed.
LEMMA KprintClosed ==
  ASSUME NEW w \in {"colour", "line", "plain"}
  PROVE  Closed(Kprint(w), 8)
<1> DEFINE put == <<Put(w)>>
           flush == <<Call("vt_flush")>>
           out == IF w = "colour" THEN put ELSE <<Put(w), Call("vt_flush")>>
<1>1. Closed(put, 9)
  BY ClosedLast
<1>2. flush \in Seq(CallsOf(8)) /\ flush \in Seq(CallsOf(9))
  BY CallsRanked
<1>3. <<Put(w), Call("vt_flush")>> = put \o flush
  OBVIOUS
<1> HIDE DEF put, flush
<1>4. Closed(flush, 8) /\ Closed(flush, 9)
  BY <1>2, ClosedCalls
<1>5. Closed(put \o flush, 9)
  BY <1>1, <1>4, ClosedJoin
<1>6. Closed(out, 9)
  BY <1>1, <1>3, <1>5
<1>7. Kprint(w) = Under("vt", out) \o flush
  BY DEF Kprint, put, flush
<1> HIDE DEF out
<1>8. Closed(Under("vt", out), 8)
  <2>1. "vt" \in Locks /\ Lock("vt") = 8 /\ 8 + 1 = 9
    BY LockRanks
  <2>2. Closed(Under("vt", out), Lock("vt"))
    BY <1>6, <2>1, ClosedUnder
  <2> QED BY <2>1, <2>2
<1> QED BY <1>4, <1>7, <1>8, ClosedJoin

\* kfree and the functions of the framebuffer.
LEMMA KfreeClosed ==
  ASSUME NEW p \in Kfree
  PROVE  Closed(p, 6)
<1>1. "heap" \in Locks /\ Lock("heap") = 6 /\ 6 + 1 = 7
  BY LockRanks
<1>2. <<>> \in Seq(CallsOf(7))
  OBVIOUS
<1>3. \E q \in Seq(CallsOf(7)) : p = Under("heap", q)
  BY <1>2 DEF Kfree
<1> QED BY <1>1, <1>3, ClosedAround

\* One synchronization.
LEMMA DrmSyncClosed ==
  ASSUME NEW p \in DrmSync
  PROVE  Closed(p, 10)
<1>1. "drm_sys" \in Locks /\ Lock("drm_sys") = 10 /\ 10 + 1 = 11
  BY LockRanks
<1>2. <<>> \in Seq(CallsOf(11))
  OBVIOUS
<1>3. \E q \in Seq(CallsOf(11)) : p = Under("drm_sys", q)
  BY <1>2 DEF DrmSync
<1> QED BY <1>1, <1>3, ClosedAround

\* A switch.
LEMMA DrmSwitchClosed ==
  ASSUME NEW p \in DrmSwitch
  PROVE  Closed(p, 10)
<1>1. "drm_sys" \in Locks /\ Lock("drm_sys") = 10 /\ 10 + 1 = 11
  BY LockRanks
<1>2. <<>> \in Seq(CallsOf(11))
  OBVIOUS
<1>3. \E q \in Seq(CallsOf(11)) : p = Under("drm_sys", q)
  BY <1>2 DEF DrmSwitch
<1> QED BY <1>1, <1>3, ClosedAround

\* A clear, which synchronizes.
LEMMA DrmClearClosed ==
  ASSUME NEW p \in DrmClear
  PROVE  Closed(p, 10)
<1>1. "drm_sys" \in Locks /\ Lock("drm_sys") = 10 /\ 10 + 1 = 11
  BY LockRanks
<1>2. <<>> \in Seq(CallsOf(11))
  OBVIOUS
<1>3. <<Call("drm_sync")>> \in Seq(CallsOf(10))
  BY CallsRanked
<1>4. Closed(<<Call("drm_sync")>>, 10)
  BY <1>3, ClosedCalls
<1>5. \E q \in Seq(CallsOf(11)) : p = Under("drm_sys", q) \o <<Call("drm_sync")>>
  BY <1>2 DEF DrmClear
<1>6. PICK q \in Seq(CallsOf(11)) : p = Under("drm_sys", q) \o <<Call("drm_sync")>>
  BY <1>5
<1>7. Closed(Under("drm_sys", q), 10)
  BY <1>1, ClosedAround
<1> QED BY <1>4, <1>6, <1>7, ClosedJoin

\* The cells that are drawn.
LEMMA VtFlushClosed ==
  ASSUME NEW p \in VtFlush
  PROVE  Closed(p, 9)
<1>1. /\ <<Call("drm_clear"), Call("drm_plot"), Call("drm_sync")>> \in Seq(CallsOf(9))
      /\ <<Call("drm_plot"), Call("drm_sync")>> \in Seq(CallsOf(9))
      /\ <<Call("drm_sync")>> \in Seq(CallsOf(9))
  BY CallsRanked
<1>2. p \in Seq(CallsOf(9))
  BY <1>1 DEF VtFlush
<1> QED BY <1>2, ClosedCalls

\* The terminal is drawn anew.
LEMMA VtRedrawClosed ==
  ASSUME NEW p \in VtRedraw
  PROVE  Closed(p, 9)
<1>1. <<Call("vt_flush")>> \in Seq(CallsOf(9))
  BY CallsRanked
<1>2. p \in Seq(CallsOf(9))
  BY <1>1 DEF VtRedraw
<1> QED BY <1>2, ClosedCalls

\* Formatting.
LEMMA KvfprintfClosed ==
  ASSUME NEW p \in Kvfprintf
  PROVE  Closed(p, 6)
<1>1. <<Call("kmalloc"), Call("krealloc")>> \in Seq(CallsOf(6))
  BY CallsRanked
<1>2. p \in Seq(CallsOf(6))
  BY <1>1 DEF Kvfprintf
<1> QED BY <1>2, ClosedCalls

\* Formatting to the terminal.
LEMMA KvprintfClosed ==
  ASSUME NEW p \in Kvprintf
  PROVE  Closed(p, 6)
<1>1. <<Call("kvfprintf"), Call("kprint_plain"), Call("kfree")>> \in Seq(CallsOf(6))
  BY CallsRanked
<1>2. p \in Seq(CallsOf(6))
  BY <1>1 DEF Kvprintf
<1> QED BY <1>2, ClosedCalls

\* The stack.
LEMMA StackTraceClosed ==
  ASSUME NEW p \in StackTrace
  PROVE  Closed(p, 5)
<1>1. <<Call("logf"), Call("log")>> \in Seq(CallsOf(5))
  BY CallsRanked
<1>2. p \in Seq(CallsOf(5))
  BY <1>1 DEF StackTrace
<1> QED BY <1>2, ClosedCalls

\* A fault.
LEMMA FaultHandlerClosed ==
  ASSUME NEW p \in FaultHandler
  PROVE  Closed(p, 5)
<1>1. <<Call("serial_writes"), Call("kernel_panic_error")>> \in Seq(CallsOf(5))
  BY CallsRanked
<1>2. p \in Seq(CallsOf(5))
  BY <1>1 DEF FaultHandler
<1> QED BY <1>2, ClosedCalls

\* A partition table.
LEMMA GptInitClosed ==
  ASSUME NEW p \in GptInit
  PROVE  Closed(p, 2)
<1>1. /\ <<Call("kernel_panic_error")>> \in Seq(CallsOf(2))
      /\ <<Call("kprint_plain"), Call("kvprintf"), Call("logf"), Call("devman_add_partition")>> \in Seq(CallsOf(2))
  BY CallsRanked
<1>2. p \in Seq(CallsOf(2))
  BY <1>1 DEF GptInit
<1> QED BY <1>2, ClosedCalls

\* A panic with its reason.
LEMMA KernelPanicErrorClosed ==
  ASSUME NEW p \in KernelPanicError
  PROVE  Closed(p, 5)
<1>1. <<Call("serial_writes"), Call("serial_writes"), Call("serial_writes"), Call("logf"), Call("kernel_panic")>> \in Seq(CallsOf(5))
  BY CallsRanked
<1>2. p \in Seq(CallsOf(5))
  BY <1>1 DEF KernelPanicError
<1> QED BY <1>2, ClosedCalls

\* The panic of a CPU that another one has told.
LEMMA PanicHandleClosed ==
  ASSUME NEW p \in PanicHandle
  PROVE  Closed(p, 3)
<1>1. "panic" \in Locks /\ Lock("panic") = 3 /\ 3 + 1 = 4
  BY LockRanks
<1>2. <<Call("logf"), Call("log")>> \in Seq(CallsOf(4))
  BY CallsRanked
<1>3. \E q \in Seq(CallsOf(4)) : p = Under("panic", q)
  BY <1>2 DEF PanicHandle
<1> QED BY <1>1, <1>3, ClosedAround

\* A CPU is listed.
LEMMA CpuInitClosed ==
  ASSUME NEW p \in CpuInit
  PROVE  Closed(p, 4)
<1>1. "cpu_list" \in Locks /\ Lock("cpu_list") = 4 /\ 4 + 1 = 5
  BY LockRanks
<1>2. <<Call("kmalloc")>> \in Seq(CallsOf(5))
  BY CallsRanked
<1>3. <<Call("logf")>> \in Seq(CallsOf(4))
  BY CallsRanked
<1>4. Closed(<<Call("logf")>>, 4)
  BY <1>3, ClosedCalls
<1>5. \E q \in Seq(CallsOf(5)) : p = Under("cpu_list", q) \o <<Call("logf")>>
  BY <1>2 DEF CpuInit
<1>6. PICK q \in Seq(CallsOf(5)) : p = Under("cpu_list", q) \o <<Call("logf")>>
  BY <1>5
<1>7. Closed(Under("cpu_list", q), 4)
  BY <1>1, ClosedAround
<1> QED BY <1>4, <1>6, <1>7, ClosedJoin

\* A CPU is looked for.
LEMMA CpuGetRandomCpuClosed ==
  ASSUME NEW p \in CpuGetRandomCpu
  PROVE  Closed(p, 4)
<1>1. "cpu_list" \in Locks /\ Lock("cpu_list") = 4 /\ 4 + 1 = 5
  BY LockRanks
<1>2. <<>> \in Seq(CallsOf(5))
  OBVIOUS
<1>3. <<Call("logf")>> \in Seq(CallsOf(4))
  BY CallsRanked
<1>4. Closed(<<Call("logf")>>, 4)
  BY <1>3, ClosedCalls
<1>5. \E q \in Seq(CallsOf(5)) : p = Under("cpu_list", q) \o <<Call("logf")>>
  BY <1>2 DEF CpuGetRandomCpu
<1>6. PICK q \in Seq(CallsOf(5)) : p = Under("cpu_list", q) \o <<Call("logf")>>
  BY <1>5
<1>7. Closed(Under("cpu_list", q), 4)
  BY <1>1, ClosedAround
<1> QED BY <1>4, <1>6, <1>7, ClosedJoin

\* A device finds its driver.
LEMMA DevmanHandlePcieDeviceClosed ==
  ASSUME NEW p \in DevmanHandlePcieDevice
  PROVE  Closed(p, 1)
<1>1. "driver" \in Locks /\ Lock("driver") = 1 /\ 1 + 1 = 2
  BY LockRanks
<1>2. /\ <<Call("logf")>> \in Seq(CallsOf(2))
      /\ <<Call("logf"), Call("devman_add_storage")>> \in Seq(CallsOf(2))
  BY CallsRanked
<1>3. \E q \in Seq(CallsOf(2)) : p = Under("driver", q)
  BY <1>2 DEF DevmanHandlePcieDevice
<1> QED BY <1>1, <1>3, ClosedAround

\* A storage device is listed, and its partitions looked for.
LEMMA DevmanAddStorageClosed ==
  ASSUME NEW p \in DevmanAddStorage
  PROVE  Closed(p, 2)
<1>1. "storage" \in Locks /\ Lock("storage") = 2 /\ 2 + 1 = 3
  BY LockRanks
<1>2. <<Call("kmalloc"), Call("krealloc"), Call("log")>> \in Seq(CallsOf(3))
  BY CallsRanked
<1>3. <<Call("gpt_init")>> \in Seq(CallsOf(2))
  BY CallsRanked
<1>4. Closed(<<Call("gpt_init")>>, 2)
  BY <1>3, ClosedCalls
<1>5. \E q \in Seq(CallsOf(3)) : p = Under("storage", q) \o <<Call("gpt_init")>>
  BY <1>2 DEF DevmanAddStorage
<1>6. PICK q \in Seq(CallsOf(3)) : p = Under("storage", q) \o <<Call("gpt_init")>>
  BY <1>5
<1>7. Closed(Under("storage", q), 2)
  BY <1>1, ClosedAround
<1> QED BY <1>4, <1>6, <1>7, ClosedJoin

\* A partition is listed.
LEMMA DevmanAddPartitionClosed ==
  ASSUME NEW p \in DevmanAddPartition
  PROVE  Closed(p, 2)
<1>1. "storage" \in Locks /\ Lock("storage") = 2 /\ 2 + 1 = 3
  BY LockRanks
<1>2. <<Call("kmalloc"), Call("krealloc"), Call("log")>> \in Seq(CallsOf(3))
  BY CallsRanked
<1>3. \E q \in Seq(CallsOf(3)) : p = Under("storage", q)
  BY <1>2 DEF DevmanAddPartition
<1> QED BY <1>1, <1>3, ClosedAround

\* With a port, serial_writes gives its lock back.
LEMMA SerialWritesClosed ==
  ASSUME SerialAvailable, NEW p \in SerialWrites
  PROVE  Closed(p, 7)
<1>1. "serial" \in Locks /\ Lock("serial") = 7 /\ 7 + 1 = 8
  BY LockRanks
<1>2. <<>> \in Seq(CallsOf(8))
  OBVIOUS
<1>3. \E q \in Seq(CallsOf(8)) : p = Under("serial", q)
  BY <1>2 DEF SerialWrites
<1> QED BY <1>1, <1>3, ClosedAround

\* While the heap is in order, kmalloc gives its lock back.
LEMMA KmallocClosed ==
  ASSUME ~HeapBroken, NEW p \in Kmalloc
  PROVE  Closed(p, 6)
<1>1. "heap" \in Locks /\ Lock("heap") = 6 /\ 6 + 1 = 7
  BY LockRanks
<1>2. <<>> \in Seq(CallsOf(7))
  OBVIOUS
<1>3. Closed(Under("heap", <<>>), 6)
  BY <1>1, <1>2, ClosedAround
<1>4. p = Under("heap", <<>>) \/ p = Under("heap", <<>>) \o Under("heap", <<>>)
  BY DEF Kmalloc
<1> QED BY <1>3, <1>4, ClosedJoin

\* krealloc leaves the block alone or moves it.
LEMMA KreallocClosed ==
  ASSUME NEW p \in Krealloc
  PROVE  Closed(p, 6)
<1>1. <<Call("kmalloc"), Call("kfree")>> \in Seq(CallsOf(6)) /\ <<>> \in Seq(CallsOf(6))
  BY CallsRanked
<1>2. p \in Seq(CallsOf(6))
  BY <1>1 DEF Krealloc
<1> QED BY <1>2, ClosedCalls

\* A panic, which halts with no lock of its own.
LEMMA KernelPanicClosed ==
  ASSUME NEW p \in KernelPanic
  PROVE  Closed(p, 5)
<1> DEFINE tell == <<Call("serial_writes"), Call("log"), Call("stack_trace")>>
           halt == <<Halt>>
<1>1. tell \in Seq(CallsOf(5))
  BY CallsRanked
<1>2. Closed(tell, 5)
  BY <1>1, ClosedCalls
<1>3. Closed(halt, 5)
  BY ClosedLast
<1>4. p = tell \o halt
  BY DEF KernelPanic
<1> HIDE DEF tell, halt
<1> QED BY <1>2, <1>3, <1>4, ClosedJoin

\* A pixel, under the lock of the drm and that of the framebuffer.
LEMMA DrmPlotClosed ==
  ASSUME NEW p \in DrmPlot
  PROVE  Closed(p, 9)
<1>1. /\ "drm" \in Locks /\ Lock("drm") = 9 /\ 9 + 1 = 10
      /\ "drm_sys" \in Locks /\ Lock("drm_sys") = 10 /\ 10 + 1 = 11
  BY LockRanks
<1>2. <<>> \in Seq(CallsOf(11))
  OBVIOUS
<1>3. Closed(Under("drm_sys", <<>>), 10)
  BY <1>1, <1>2, ClosedAround
<1>4. Closed(Under("drm", Under("drm_sys", <<>>)), 9)
  BY <1>1, <1>3, ClosedUnder
<1> QED BY <1>4 DEF DrmPlot

\* A driver is listed.
LEMMA DevmanRegisterDriverClosed ==
  ASSUME NEW p \in DevmanRegisterDriver
  PROVE  Closed(p, 1)
<1> DEFINE alloc == <<Call("kmalloc")>>
           list == Under("driver", <<>>)
<1>1. "driver" \in Locks /\ Lock("driver") = 1 /\ 1 + 1 = 2
  BY LockRanks
<1>2. <<>> \in Seq(CallsOf(2))
  OBVIOUS
<1>3. Closed(list, 1)
  BY <1>1, <1>2, ClosedAround
<1>4. alloc \in Seq(CallsOf(1))
  BY CallsRanked
<1>5. Closed(alloc, 1)
  BY <1>4, ClosedCalls
<1>6. p = alloc \o list
  BY DEF DevmanRegisterDriver
<1> HIDE DEF alloc, list
<1> QED BY <1>3, <1>5, <1>6, ClosedJoin

\* The three ways to print.
LEMMA KprintsClosed ==
  ASSUME NEW p \in KprintColour \cup KprintLine \cup KprintPlain
  PROVE  Closed(p, 8)
BY KprintClosed DEF KprintColour, KprintLine, KprintPlain

\* Every path through every function drops what it takes, in turn, and takes
\* no lock of lower rank than the function has.
LEMMA PathsClosed ==
  ASSUME SerialAvailable, ~HeapBroken, NEW f \in DOMAIN Paths, NEW p \in Paths[f]
  PROVE  Closed(p, Function(f))
<1>1. CASE f \in {"serial_writes", "kmalloc", "kfree", "krealloc", "kvfprintf", "kvprintf"}
  <2>1. Function("serial_writes") = 7 /\ Function("kmalloc") = 6 /\ Function("kfree") = 6
        /\ Function("krealloc") = 6 /\ Function("kvfprintf") = 6 /\ Function("kvprintf") = 6
    BY DEF Function
  <2>2. /\ Paths["serial_writes"] = SerialWrites /\ Paths["kmalloc"] = Kmalloc
        /\ Paths["kfree"] = Kfree /\ Paths["krealloc"] = Krealloc
        /\ Paths["kvfprintf"] = Kvfprintf /\ Paths["kvprintf"] = Kvprintf
    BY DEF Paths
  <2> QED BY <1>1, <2>1, <2>2, SerialWritesClosed, KmallocClosed, KfreeClosed, KreallocClosed,
             KvfprintfClosed, KvprintfClosed
<1>2. CASE f \in {"drm_plot", "drm_sync", "drm_clear", "drm_switch", "vt_flush", "vt_redraw"}
  <2>1. Function("drm_plot") = 9 /\ Function("drm_sync") = 10 /\ Function("drm_clear") = 10
        /\ Function("drm_switch") = 10 /\ Function("vt_flush") = 9 /\ Function("vt_redraw") = 9
    BY DEF Function
  <2>2. /\ Paths["drm_plot"] = DrmPlot /\ Paths["drm_sync"] = DrmSync
        /\ Paths["drm_clear"] = DrmClear /\ Paths["drm_switch"] = DrmSwitch
        /\ Paths["vt_flush"] = VtFlush /\ Paths["vt_redraw"] = VtRedraw
    BY DEF Paths
  <2> QED BY <1>2, <2>1, <2>2, DrmPlotClosed, DrmSyncClosed, DrmClearClosed, DrmSwitchClosed,
             VtFlushClosed, VtRedrawClosed
<1>3. CASE f \in {"kprint_colour", "kprint_line", "kprint_plain"}
  <2>1. Function(f) = 8
    BY <1>3 DEF Function
  <2>2. Paths[f] \subseteq KprintColour \cup KprintLine \cup KprintPlain
    BY <1>3 DEF Paths
  <2> QED BY <2>1, <2>2, KprintsClosed
<1>4. CASE f \in {"log", "logf", "stack_trace", "kernel_panic", "kernel_panic_error",
                  "fault_handler"}
  <2>1. Function(f) = 5
    BY <1>4 DEF Function
  <2>2. /\ Paths["log"] = Log /\ Paths["logf"] = Logf /\ Paths["stack_trace"] = StackTrace
        /\ Paths["kernel_panic"] = KernelPanic /\ Paths["kernel_panic_error"] = KernelPanicError
        /\ Paths["fault_handler"] = FaultHandler
    BY DEF Paths
  <2> QED BY <1>4, <2>1, <2>2, LogClosed, LogfClosed, StackTraceClosed, KernelPanicClosed,
             KernelPanicErrorClosed, FaultHandlerClosed
<1>5. CASE f \in {"panic_handle", "cpu_init", "cpu_get_random_cpu", "devman_register_driver",
                  "devman_handle_pcie_device"}
  <2>1. Function("panic_handle") = 3 /\ Function("cpu_init") = 4
        /\ Function("cpu_get_random_cpu") = 4 /\ Function("devman_register_driver") = 1
        /\ Function("devman_handle_pcie_device") = 1
    BY DEF Function
  <2>2. /\ Paths["panic_handle"] = PanicHandle /\ Paths["cpu_init"] = CpuInit
        /\ Paths["cpu_get_random_cpu"] = CpuGetRandomCpu
        /\ Paths["devman_register_driver"] = DevmanRegisterDriver
        /\ Paths["devman_handle_pcie_device"] = DevmanHandlePcieDevice
    BY DEF Paths
  <2> QED BY <1>5, <2>1, <2>2, PanicHandleClosed, CpuInitClosed, CpuGetRandomCpuClosed,
             DevmanRegisterDriverClosed, DevmanHandlePcieDeviceClosed
<1>6. CASE f \in {"devman_add_storage", "gpt_init", "devman_add_partition"}
  <2>1. Function(f) = 2
    BY <1>6 DEF Function
  <2>2. /\ Paths["devman_add_storage"] = DevmanAddStorage /\ Paths["gpt_init"] = GptInit
        /\ Paths["devman_add_partition"] = DevmanAddPartition
    BY DEF Paths
  <2> QED BY <1>6, <2>1, <2>2, DevmanAddStorageClosed, GptInitClosed, DevmanAddPartitionClosed
<1> QED BY <1>1, <1>2, <1>3, <1>4, <1>5, <1>6, PathsDomain

-----------------------------------------------------------------------------
(***************************************************************************)
(* The CPUs.  What a CPU has still to do says which locks it has taken.    *)
(***************************************************************************)

\* A step that leaves the lock l alone leaves the CPU inside of it, or outside.
LEMMA OtherStep ==
  ASSUME NEW s \in Seq(Work), s # <<>>, NEW l \in Locks, s[1] # Take(l), s[1] # Drop(l)
  PROVE  InsideOf(Tail(s), l) <=> InsideOf(s, l)
<1> DEFINE t == Tail(s)
<1>1. /\ t \in Seq(Work) /\ Len(s) \in Nat \ {0} /\ DOMAIN s = 1 .. Len(s)
      /\ DOMAIN t = 1 .. Len(s) - 1
      /\ \A i \in DOMAIN t : t[i] = s[i + 1] /\ i + 1 \in DOMAIN s
  OBVIOUS
<1> HIDE DEF t
<1>2. ASSUME InsideOf(t, l)
      PROVE  InsideOf(s, l)
  <2>1. PICK i \in DOMAIN t : t[i] = Drop(l) /\ \A j \in 1 .. i - 1 : t[j] # Take(l)
    BY <1>2 DEF InsideOf
  <2>2. ASSUME NEW j \in 1 .. (i + 1) - 1
        PROVE  s[j] # Take(l)
    <3>1. j = 1 \/ (j - 1 \in 1 .. i - 1 /\ j - 1 \in DOMAIN t /\ j = (j - 1) + 1)
      BY <1>1, <2>1
    <3> QED BY <1>1, <2>1, <3>1
  <2> QED BY <1>1, <2>1, <2>2 DEF InsideOf
<1>3. ASSUME InsideOf(s, l)
      PROVE  InsideOf(t, l)
  <2>1. PICK i \in DOMAIN s : s[i] = Drop(l) /\ \A j \in 1 .. i - 1 : s[j] # Take(l)
    BY <1>3 DEF InsideOf
  <2>2. i - 1 \in DOMAIN t /\ i = (i - 1) + 1
    BY <1>1, <2>1
  <2>3. ASSUME NEW j \in 1 .. (i - 1) - 1
        PROVE  t[j] # Take(l)
    <3>1. j + 1 \in 1 .. i - 1 /\ j \in DOMAIN t
      BY <1>1, <2>2
    <3> QED BY <1>1, <2>1, <3>1
  <2> QED BY <1>1, <2>1, <2>2, <2>3 DEF InsideOf
<1> QED BY <1>2, <1>3 DEF t

\* Before it takes a lock the CPU is outside of it, and after that inside.
LEMMA TakeStep ==
  ASSUME NEW s, Nested(s), s # <<>>, NEW l \in Locks, s[1] = Take(l)
  PROVE  ~InsideOf(s, l) /\ InsideOf(Tail(s), l)
<1> DEFINE t == Tail(s)
<1>1. s \in Seq(Work) /\ TakesPaired(s)
  BY DEF Nested
<1>2. /\ t \in Seq(Work) /\ Len(s) \in Nat \ {0} /\ DOMAIN s = 1 .. Len(s)
      /\ DOMAIN t = 1 .. Len(s) - 1
      /\ \A i \in DOMAIN t : t[i] = s[i + 1] /\ i + 1 \in DOMAIN s
  BY <1>1
<1> HIDE DEF t
<1>3. ~InsideOf(s, l)
  BY <1>2, StepsDiffer DEF InsideOf
<1>4. PICK j \in DOMAIN s : Pair(s, 1, j, l)
  BY <1>1, <1>2 DEF TakesPaired
<1>5. j - 1 \in DOMAIN t /\ j = (j - 1) + 1 /\ t[j - 1] = Drop(l)
  BY <1>2, <1>4 DEF Pair
<1>6. ASSUME NEW k \in 1 .. (j - 1) - 1
      PROVE  t[k] # Take(l)
  <2>1. k + 1 \in 1 + 1 .. j - 1 /\ k \in DOMAIN t
    BY <1>2, <1>5
  <2>2. Rank(s[k + 1]) > Lock(l) /\ t[k] = s[k + 1]
    BY <1>2, <1>4, <2>1 DEF Pair
  <2> QED BY <2>2, Ranks
<1>7. InsideOf(t, l)
  BY <1>5, <1>6 DEF InsideOf
<1> QED BY <1>3, <1>7 DEF t

\* Before it drops a lock the CPU is inside of it, and after that outside.
LEMMA DropStep ==
  ASSUME NEW s, Nested(s), s # <<>>, NEW l \in Locks, s[1] = Drop(l)
  PROVE  InsideOf(s, l) /\ ~InsideOf(Tail(s), l)
<1> DEFINE t == Tail(s)
<1>1. s \in Seq(Work) /\ TakesPaired(s)
  BY DEF Nested
<1>2. /\ t \in Seq(Work) /\ Len(s) \in Nat \ {0} /\ DOMAIN s = 1 .. Len(s)
      /\ DOMAIN t = 1 .. Len(s) - 1
      /\ \A i \in DOMAIN t : t[i] = s[i + 1] /\ i + 1 \in DOMAIN s
  BY <1>1
<1> HIDE DEF t
<1>3. InsideOf(s, l)
  BY <1>2 DEF InsideOf
<1>4. ASSUME NEW i \in DOMAIN t, t[i] = Drop(l), \A j \in 1 .. i - 1 : t[j] # Take(l)
      PROVE  FALSE
  <2>1. i + 1 \in DOMAIN s /\ s[i + 1] = Drop(l)
    BY <1>2, <1>4
  <2>2. ~Open(s, i + 1, l)
    <3>1. 1 \in 1 .. (i + 1) - 1
      BY <1>2
    <3>2. ~(Rank(s[1]) > Lock(l))
      BY Ranks
    <3> QED BY <3>1, <3>2 DEF Open
  <2>3. PICK k \in DOMAIN s : Pair(s, k, i + 1, l)
    BY <2>1, <2>2 DEF Nested
  <2>4. k # 1
    BY <2>3, StepsDiffer DEF Pair
  <2>5. k - 1 \in 1 .. i - 1 /\ k - 1 \in DOMAIN t /\ k = (k - 1) + 1
    BY <1>2, <2>3, <2>4 DEF Pair
  <2> QED BY <1>2, <1>4, <2>3, <2>5 DEF Pair
<1>5. ~InsideOf(t, l)
  BY <1>4 DEF InsideOf
<1> QED BY <1>3, <1>5 DEF t

\* A CPU takes locks of higher rank than those it is inside of.
LEMMA TakesUpwards ==
  ASSUME NEW s, Nested(s), s # <<>>, NEW l \in Locks, s[1] = Take(l),
         NEW m \in Locks, InsideOf(s, m)
  PROVE  Lock(m) < Lock(l)
<1>1. s \in Seq(Work) /\ DOMAIN s = 1 .. Len(s) /\ Len(s) \in Nat
  BY DEF Nested
<1>2. PICK i \in DOMAIN s : s[i] = Drop(m) /\ \A j \in 1 .. i - 1 : s[j] # Take(m)
  BY DEF InsideOf
<1>3. \A k \in DOMAIN s : ~Pair(s, k, i, m)
  BY <1>1, <1>2 DEF Pair
<1>4. Open(s, i, m)
  BY <1>2, <1>3 DEF Nested
<1>5. i # 1
  BY <1>2, StepsDiffer
<1>6. 1 \in 1 .. i - 1
  BY <1>1, <1>5
<1>7. Rank(s[1]) > Lock(m)
  BY <1>4, <1>6 DEF Open
<1> QED BY <1>7, Ranks

\* The ten ranks have a highest among them.
LEMMA HighestRank ==
  ASSUME NEW T \in SUBSET (1 .. 10), T # {}
  PROVE  \E x \in T : \A y \in T : y <= x
<1> SUFFICES ASSUME \A x \in T : \E y \in T : y > x
             PROVE  FALSE
  OBVIOUS
<1>1. 10 \notin T
  OBVIOUS
<1>2. 9 \notin T /\ 8 \notin T
  BY <1>1
<1>3. 7 \notin T /\ 6 \notin T
  BY <1>1, <1>2
<1>4. 5 \notin T /\ 4 \notin T
  BY <1>1, <1>2, <1>3
<1>5. 3 \notin T /\ 2 \notin T /\ 1 \notin T
  BY <1>1, <1>2, <1>3, <1>4
<1>6. PICK x \in T : TRUE
  OBVIOUS
<1> QED BY <1>1, <1>2, <1>3, <1>4, <1>5, <1>6

LocksInv == /\ todo \in [Cpus -> Seq(Work)]
            /\ owner \in [Locks -> Cpus \cup {NoOne}]
            /\ \A c \in Cpus : Nested(todo[c])
            /\ \A c \in Cpus, l \in Locks : owner[l] = c <=> InsideOf(todo[c], l)

\* What a step is, by its kind.
LEMMA StepKinds ==
  ASSUME NEW x \in Work
  PROVE  /\ x.op = "take" => x.arg \in Locks /\ x = Take(x.arg)
         /\ x.op = "drop" => x.arg \in Locks /\ x = Drop(x.arg)
         /\ x.op = "call" => x.arg \in DOMAIN Paths /\ x = Call(x.arg)
         /\ x.op = "print" => \A l \in Locks : x # Take(l) /\ x # Drop(l)
<1>1. CASE x \in {Take(l) : l \in Locks}
  BY <1>1 DEF Take
<1>2. CASE x \in {Drop(l) : l \in Locks}
  BY <1>2 DEF Drop
<1>3. CASE x \in {Call(f) : f \in DOMAIN Paths}
  BY <1>3 DEF Call
<1>4. CASE x \in {Put(w) : w \in {"colour", "line", "plain"}}
  BY <1>4, StepsDiffer DEF Put
<1>5. CASE x = Halt
  BY <1>5 DEF Halt
<1> QED BY <1>1, <1>2, <1>3, <1>4, <1>5 DEF Work

\* The next step of a CPU.
LEMMA NextStep ==
  ASSUME LocksInv, NEW c \in Cpus, NEW op, At(c, op)
  PROVE  /\ todo[c] \in Seq(Work) /\ todo[c] # <<>> /\ Nested(todo[c])
         /\ Head(todo[c]) = todo[c][1] /\ todo[c][1] \in Work /\ todo[c][1].op = op
BY DEF LocksInv, At

\* Nobody has anything to do, and all locks are free.
LEMMA InitLocks == Init => LocksInv
<1> SUFFICES ASSUME Init PROVE LocksInv
  OBVIOUS
<1>1. <<>> \in Seq(Work) /\ DOMAIN <<>> = {}
  OBVIOUS
<1>2. Nested(<<>>) /\ \A l \in Locks : ~InsideOf(<<>>, l)
  BY <1>1 DEF Nested, TakesPaired, InsideOf
<1> QED BY <1>1, <1>2, CpusAssumption DEF Init, LocksInv

\* A CPU begins with a function.
LEMMA BeginLocks ==
  ASSUME LocksInv, NEW c \in Cpus, Begin(c)
  PROVE  LocksInv'
<1>1. PICK f \in Entries : todo' = [todo EXCEPT ![c] = <<Call(f)>>]
  BY DEF Begin
<1>2. todo[c] = <<>> /\ owner' = owner /\ f \in DOMAIN Paths
  BY EntriesAssumption DEF Begin
<1> DEFINE s == <<Call(f)>>
<1>3. s \in Seq(Work) /\ DOMAIN s = {1} /\ s[1] = Call(f)
  BY <1>2 DEF Work
<1>4. todo' = [todo EXCEPT ![c] = s]
  BY <1>1
<1> HIDE DEF s
<1>5. Nested(s) /\ \A l \in Locks : ~InsideOf(s, l)
  BY <1>3, StepsDiffer DEF Nested, TakesPaired, InsideOf
<1>6. \A l \in Locks : ~InsideOf(todo[c], l)
  BY <1>2 DEF InsideOf
<1> QED BY <1>2, <1>3, <1>4, <1>5, <1>6 DEF LocksInv

\* A function is entered.
LEMMA EnterLocks ==
  ASSUME SerialAvailable, ~HeapBroken, LocksInv, NEW c \in Cpus, Enter(c)
  PROVE  LocksInv'
<1> DEFINE s == todo[c]
           f == Head(todo[c]).arg
<1>1. PICK p \in Paths[f] : todo' = [todo EXCEPT ![c] = p \o Tail(s)]
  BY DEF Enter
<1>2. /\ s \in Seq(Work) /\ s # <<>> /\ Nested(s) /\ f = s[1].arg
      /\ s[1] \in Work /\ s[1].op = "call"
  BY NextStep DEF Enter
<1> HIDE DEF s, f
<1>3. f \in DOMAIN Paths /\ s[1] = Call(f)
  BY <1>2, StepKinds
<1>4. Closed(p, Function(f))
  BY <1>1, <1>3, PathsClosed
<1> DEFINE e == p \o Tail(s)
<1>5. Nested(e) /\ \A l \in Locks : InsideOf(e, l) <=> InsideOf(s, l)
  BY <1>2, <1>3, <1>4, EnterNested
<1>6. todo' = [todo EXCEPT ![c] = e] /\ owner' = owner
  BY <1>1 DEF Enter
<1> HIDE DEF e
<1>7. e \in Seq(Work)
  BY <1>5 DEF Nested
<1> QED BY <1>5, <1>6, <1>7 DEF LocksInv, s

\* A lock is taken.
LEMMA SpinlockLocks ==
  ASSUME LocksInv, NEW c \in Cpus, Spinlock(c)
  PROVE  LocksInv'
<1> DEFINE s == todo[c]
           l == Head(todo[c]).arg
           t == Tail(s)
<1>1. /\ s \in Seq(Work) /\ s # <<>> /\ Nested(s) /\ l = s[1].arg
      /\ s[1] \in Work /\ s[1].op = "take"
  BY NextStep DEF Spinlock
<1>2. /\ owner[l] = NoOne /\ owner' = [owner EXCEPT ![l] = c]
      /\ todo' = [todo EXCEPT ![c] = t]
  BY DEF Spinlock
<1> HIDE DEF s, l
<1>3. l \in Locks /\ s[1] = Take(l)
  BY <1>1, StepKinds
<1>4. Nested(t) /\ InsideOf(t, l)
  BY <1>1, <1>3, TailNested, TakeStep
<1>5. \A m \in Locks \ {l} : InsideOf(t, m) <=> InsideOf(s, m)
  BY <1>1, <1>3, StepsDiffer, OtherStep
<1> HIDE DEF t
<1>6. t \in Seq(Work)
  BY <1>4 DEF Nested
<1>7. \A d \in Cpus : ~InsideOf(todo[d], l)
  BY <1>2, <1>3, CpusAssumption DEF LocksInv
<1>8. /\ todo' \in [Cpus -> Seq(Work)] /\ owner' \in [Locks -> Cpus \cup {NoOne}]
      /\ \A d \in Cpus : Nested(todo'[d])
  BY <1>2, <1>4, <1>6 DEF LocksInv
<1>9. ASSUME NEW d \in Cpus, NEW m \in Locks
      PROVE  owner'[m] = d <=> InsideOf(todo'[d], m)
  <2>1. CASE m = l
    BY <1>2, <1>3, <1>4, <1>7, <2>1 DEF LocksInv
  <2>2. CASE m # l
    BY <1>2, <1>3, <1>5, <2>2 DEF LocksInv, s
  <2> QED BY <2>1, <2>2
<1> QED BY <1>8, <1>9 DEF LocksInv

\* A lock is dropped: by the CPU that owns it.
LEMMA SpinunlockLocks ==
  ASSUME LocksInv, NEW c \in Cpus, Spinunlock(c)
  PROVE  LocksInv'
<1> DEFINE s == todo[c]
           l == Head(todo[c]).arg
           t == Tail(s)
<1>1. /\ s \in Seq(Work) /\ s # <<>> /\ Nested(s) /\ l = s[1].arg
      /\ s[1] \in Work /\ s[1].op = "drop"
  BY NextStep DEF Spinunlock
<1>2. owner' = [owner EXCEPT ![l] = NoOne] /\ todo' = [todo EXCEPT ![c] = t]
  BY DEF Spinunlock
<1> HIDE DEF s, l
<1>3. l \in Locks /\ s[1] = Drop(l)
  BY <1>1, StepKinds
<1>4. Nested(t) /\ InsideOf(s, l) /\ ~InsideOf(t, l)
  BY <1>1, <1>3, TailNested, DropStep
<1>5. \A m \in Locks \ {l} : InsideOf(t, m) <=> InsideOf(s, m)
  BY <1>1, <1>3, StepsDiffer, OtherStep
<1> HIDE DEF t
<1>6. t \in Seq(Work)
  BY <1>4 DEF Nested
<1>7. owner[l] = c
  BY <1>3, <1>4 DEF LocksInv, s
<1>8. /\ todo' \in [Cpus -> Seq(Work)] /\ owner' \in [Locks -> Cpus \cup {NoOne}]
      /\ \A d \in Cpus : Nested(todo'[d])
  BY <1>2, <1>4, <1>6 DEF LocksInv
<1>9. ASSUME NEW d \in Cpus, NEW m \in Locks
      PROVE  owner'[m] = d <=> InsideOf(todo'[d], m)
  <2>1. CASE m = l
    BY <1>2, <1>3, <1>4, <1>7, <2>1, CpusAssumption DEF LocksInv
  <2>2. CASE m # l
    BY <1>2, <1>3, <1>5, <2>2 DEF LocksInv, s
  <2> QED BY <2>1, <2>2
<1> QED BY <1>8, <1>9 DEF LocksInv

\* A print takes and drops nothing.
LEMMA PrintOutLocks ==
  ASSUME LocksInv, NEW c \in Cpus, PrintOut(c)
  PROVE  LocksInv'
<1> DEFINE s == todo[c]
           t == Tail(s)
<1>1. /\ s \in Seq(Work) /\ s # <<>> /\ Nested(s)
      /\ s[1] \in Work /\ s[1].op = "print"
  BY NextStep DEF PrintOut
<1>2. owner' = owner /\ todo' = [todo EXCEPT ![c] = t]
  BY DEF PrintOut
<1> HIDE DEF s
<1>3. \A l \in Locks : InsideOf(t, l) <=> InsideOf(s, l)
  BY <1>1, StepKinds, OtherStep
<1>4. Nested(t)
  BY <1>1, TailNested
<1> HIDE DEF t
<1>5. t \in Seq(Work)
  BY <1>4 DEF Nested
<1> QED BY <1>2, <1>3, <1>4, <1>5 DEF LocksInv, s

\* Every CPU's steps nest, and say which locks it owns, for ever.
THEOREM LocksInvariant ==
  ASSUME SerialAvailable, ~HeapBroken
  PROVE  Spec => []LocksInv
<1>1. LocksInv /\ [Next]_vars => LocksInv'
  <2> SUFFICES ASSUME LocksInv, [Next]_vars PROVE LocksInv'
    OBVIOUS
  <2>1. CASE UNCHANGED vars
    BY <2>1 DEF vars, LocksInv
  <2>2. ASSUME NEW c \in Cpus, Begin(c) \/ Step(c)
        PROVE  LocksInv'
    BY <2>2, BeginLocks, EnterLocks, SpinlockLocks, SpinunlockLocks, PrintOutLocks DEF Step
  <2> QED BY <2>1, <2>2 DEF Next
<1> QED BY <1>1, InitLocks, PTL DEF Spec

\* The locks exclude each other's holders, and none is forgotten or dropped for
\* somebody else, for any CPUs and any functions that they begin with.
THEOREM LocksMatchHolds ==
  ASSUME SerialAvailable, ~HeapBroken
  PROVE  Spec => []LocksMatch
<1>1. LocksInv => LocksMatch
  BY DEF LocksInv, LocksMatch, Inside, InsideOf
<1> QED BY <1>1, LocksInvariant, PTL

\* No CPUs wait for each other in a circle, however many: who waits, waits for
\* a lock of higher rank than all those that it owns.
THEOREM NoWaitCycleHolds ==
  ASSUME SerialAvailable, ~HeapBroken
  PROVE  Spec => []NoWaitCycle
<1> DEFINE Wanted(c) == Lock(Head(todo[c]).arg)
<1>1. ASSUME LocksInv, NEW c \in Cpus, NEW d \in Cpus, WaitsFor(c, d), At(d, "take")
      PROVE  Wanted(c) < Wanted(d)
  <2>1. /\ todo[c] \in Seq(Work) /\ todo[c] # <<>> /\ Head(todo[c]) = todo[c][1]
        /\ todo[c][1] \in Work /\ todo[c][1].op = "take"
    BY <1>1, NextStep DEF WaitsFor
  <2>2. /\ todo[d] \in Seq(Work) /\ todo[d] # <<>> /\ Head(todo[d]) = todo[d][1]
        /\ Nested(todo[d]) /\ todo[d][1] \in Work /\ todo[d][1].op = "take"
    BY <1>1, NextStep
  <2>3. Head(todo[c]).arg \in Locks
    BY <2>1, StepKinds
  <2>4. Head(todo[d]).arg \in Locks /\ todo[d][1] = Take(Head(todo[d]).arg)
    BY <2>2, StepKinds
  <2>5. InsideOf(todo[d], Head(todo[c]).arg)
    BY <1>1, <2>3 DEF WaitsFor, LocksInv
  <2> QED BY <2>2, <2>3, <2>4, <2>5, TakesUpwards
<1>2. LocksInv => NoWaitCycle
  <2> SUFFICES ASSUME LocksInv, NEW S \in SUBSET Cpus, S # {},
                      \A c \in S : \E d \in S : WaitsFor(c, d)
               PROVE  FALSE
    BY DEF NoWaitCycle
  <2> DEFINE T == {Wanted(c) : c \in S}
  <2>1. T \in SUBSET (1 .. 10) /\ T # {}
    BY Ranks
  <2> HIDE DEF T
  <2>2. PICK x \in T : \A y \in T : y <= x
    BY <2>1, HighestRank
  <2>3. PICK c \in S : x = Wanted(c)
    BY <2>2 DEF T
  <2>4. PICK d \in S : WaitsFor(c, d)
    BY <2>3
  <2>5. At(d, "take")
    BY <2>4 DEF WaitsFor
  <2>6. \E y \in T : x < y
    <3>1. Wanted(c) < Wanted(d)
      BY <1>1, <2>3, <2>4, <2>5
    <3> QED BY <2>3, <3>1 DEF T
  <2> QED BY <2>1, <2>2, <2>3, <2>6
<1> QED BY <1>2, LocksInvariant, PTL

-----------------------------------------------------------------------------
(***************************************************************************)
(* The lines of the log.  A line follows the colour that was set for it,   *)
(* with the log locked from the one to the other.                          *)
(***************************************************************************)

\* The steps that set a colour, and those that print the line; each is a call
\* before its function is entered.
Colours == {Call("kprint_colour"), Put("colour")}
Lines == {Call("kprint_line"), Put("line")}
Marked == Colours \cup Lines

Quiet(x) == x \notin Marked /\ x # Take("log")

\* The log is locked at k.
Held(s, k) == \E j \in DOMAIN s : /\ k < j /\ s[j] = Drop("log")
                                  /\ \A m \in k + 1 .. j - 1 : s[m] # Take("log")

QuietTo(s, i, k) == \A m \in i + 1 .. k - 1 : Quiet(s[m])

\* The colour of the line at k is set at i.
ColouredAt(s, i, k) == s[i] \in Colours /\ QuietTo(s, i, k)

Coloured(s, k) == \E i \in 1 .. k - 1 : ColouredAt(s, i, k)

\* Each line has its colour before it, or has had it set.
Ordered(s) == \A k \in DOMAIN s :
                /\ s[k] \in Marked => Held(s, k)
                /\ s[k] \in Lines => Coloured(s, k) \/ QuietTo(s, 0, k)

\* The colour of a line is set, and the line still to be printed.
DueAt(s, k) == s[k] \in Lines /\ QuietTo(s, 0, k)
Due(s) == \E k \in DOMAIN s : DueAt(s, k)

\* A colour is no line, and neither is quiet.
LEMMA MarksDiffer ==
  /\ \A x \in Colours : x \notin Lines /\ x \in Marked
  /\ \A x \in Lines : x \notin Colours /\ x \in Marked
  /\ \A x : Quiet(x) => x \notin Colours /\ x \notin Lines
  /\ \A l : ~(Take(l) \in Marked) /\ ~(Drop(l) \in Marked)
  /\ \A x \in Marked : x # Take("log")
  /\ \A f : Call(f) \in Colours => f = "kprint_colour"
  /\ \A f : Call(f) \in Lines => f = "kprint_line"
  /\ ~Quiet(Take("log"))
<1>1. /\ Call("kprint_colour") # Call("kprint_line") /\ Put("colour") # Put("line")
      /\ Call("kprint_colour") # Put("line") /\ Put("colour") # Call("kprint_line")
  BY DEF Call, Put
<1>2. \A f : Call(f) # Put("colour") /\ Call(f) # Put("line")
  BY DEF Call, Put
<1>3. \A f, g : Call(f) = Call(g) => f = g
  BY DEF Call
<1> QED BY <1>1, <1>2, <1>3, StepsDiffer DEF Colours, Lines, Marked, Quiet

\* What is left after a step keeps the order; a line becomes due by its colour.
LEMMA TailOrdered ==
  ASSUME NEW s \in Seq(Work), s # <<>>, Ordered(s)
  PROVE  /\ Ordered(Tail(s))
         /\ Due(Tail(s)) => s[1] \in Colours \/ (Quiet(s[1]) /\ Due(s))
<1> DEFINE t == Tail(s)
<1>1. /\ Len(s) \in Nat \ {0} /\ DOMAIN s = 1 .. Len(s) /\ DOMAIN t = 1 .. Len(s) - 1
      /\ \A i \in DOMAIN t : t[i] = s[i + 1] /\ i + 1 \in DOMAIN s
  OBVIOUS
<1> HIDE DEF t
<1>2. ASSUME NEW k \in DOMAIN t, Held(s, k + 1)
      PROVE  Held(t, k)
  <2>1. PICK j \in DOMAIN s : /\ k + 1 < j /\ s[j] = Drop("log")
                              /\ \A m \in (k + 1) + 1 .. j - 1 : s[m] # Take("log")
    BY <1>2 DEF Held
  <2>2. j - 1 \in DOMAIN t /\ k < j - 1 /\ t[j - 1] = s[(j - 1) + 1] /\ (j - 1) + 1 = j
    BY <1>1, <2>1
  <2>3. ASSUME NEW m \in k + 1 .. (j - 1) - 1
        PROVE  t[m] # Take("log")
    <3>1. m \in DOMAIN t /\ m + 1 \in (k + 1) + 1 .. j - 1
      BY <1>1, <2>1
    <3> QED BY <1>1, <2>1, <3>1
  <2> QED BY <2>1, <2>2, <2>3 DEF Held
<1>3. ASSUME NEW k \in DOMAIN t, NEW i \in 0 .. k, QuietTo(s, i + 1, k + 1)
      PROVE  QuietTo(t, i, k)
  <2>1. ASSUME NEW m \in i + 1 .. k - 1
        PROVE  Quiet(t[m])
    <3>1. m \in DOMAIN t /\ m + 1 \in (i + 1) + 1 .. (k + 1) - 1
      BY <1>1
    <3> QED BY <1>1, <1>3, <3>1 DEF QuietTo
  <2> QED BY <2>1 DEF QuietTo
<1>4. ASSUME NEW k \in DOMAIN t, Coloured(s, k + 1)
      PROVE  (Coloured(t, k) \/ QuietTo(t, 0, k))
             /\ (QuietTo(t, 0, k) => s[1] \in Colours)
  <2>1. PICK i \in 1 .. (k + 1) - 1 : ColouredAt(s, i, k + 1)
    BY <1>4 DEF Coloured
  <2>2. i - 1 \in 0 .. k /\ (i - 1) + 1 = i /\ 0 \in 0 .. k
    BY <1>1, <2>1
  <2>3. s[i] \in Colours /\ QuietTo(t, i - 1, k)
    BY <1>3, <2>1, <2>2 DEF ColouredAt
  <2>4. CASE i = 1
    BY <2>3, <2>4
  <2>5. CASE i # 1
    <3>1. i - 1 \in 1 .. k - 1 /\ i - 1 \in DOMAIN t /\ t[i - 1] = s[i] /\ i - 1 \in 0 + 1 .. k - 1
      BY <1>1, <2>1, <2>2, <2>5
    <3>2. Coloured(t, k)
      BY <2>3, <3>1 DEF Coloured, ColouredAt
    <3>3. ~QuietTo(t, 0, k)
      BY <2>3, <3>1, MarksDiffer DEF QuietTo
    <3> QED BY <3>2, <3>3
  <2> QED BY <2>4, <2>5
<1>5. ASSUME NEW k \in DOMAIN t, QuietTo(s, 0, k + 1)
      PROVE  QuietTo(t, 0, k) /\ Quiet(s[1])
  <2>1. \A m \in 0 + 1 .. (k + 1) - 1 : Quiet(s[m])
    BY <1>5 DEF QuietTo
  <2>2. 1 \in 0 + 1 .. (k + 1) - 1
    BY <1>1
  <2>3. ASSUME NEW m \in 0 + 1 .. k - 1
        PROVE  Quiet(t[m])
    <3>1. m \in DOMAIN t /\ m + 1 \in 0 + 1 .. (k + 1) - 1
      BY <1>1
    <3> QED BY <1>1, <2>1, <3>1
  <2> QED BY <2>1, <2>2, <2>3 DEF QuietTo
<1>6. Ordered(t)
  <2> SUFFICES ASSUME NEW k \in DOMAIN t
               PROVE  /\ t[k] \in Marked => Held(t, k)
                      /\ t[k] \in Lines => Coloured(t, k) \/ QuietTo(t, 0, k)
    BY DEF Ordered
  <2>1. k + 1 \in DOMAIN s /\ t[k] = s[k + 1]
    BY <1>1
  <2> QED BY <2>1, <1>2, <1>4, <1>5 DEF Ordered
<1>7. ASSUME Due(t)
      PROVE  s[1] \in Colours \/ (Quiet(s[1]) /\ Due(s))
  <2>1. PICK k \in DOMAIN t : t[k] \in Lines /\ QuietTo(t, 0, k)
    BY <1>7 DEF Due, DueAt
  <2>2. k + 1 \in DOMAIN s /\ s[k + 1] \in Lines
    BY <1>1, <2>1
  <2>3. Coloured(s, k + 1) \/ QuietTo(s, 0, k + 1)
    BY <2>2 DEF Ordered
  <2>4. CASE Coloured(s, k + 1)
    BY <1>4, <2>1, <2>4
  <2>5. CASE QuietTo(s, 0, k + 1)
    BY <1>5, <2>2, <2>5 DEF Due, DueAt
  <2> QED BY <2>3, <2>4, <2>5
<1> QED BY <1>6, <1>7 DEF t


\* What the path of a function does with the lines of the log.
Only(p, marks) == \E i \in DOMAIN p : /\ p[i] \in marks
                                      /\ \A m \in DOMAIN p \ {i} : Quiet(p[m])

Unmarked(p) == \A m \in DOMAIN p : p[m] \notin Marked

Shape(f, p) ==
  CASE f = "kprint_colour"    -> Only(p, Colours)
    [] f = "kprint_line"      -> Only(p, Lines)
    [] f \in {"log", "logf"}  -> Ordered(p) /\ ~Due(p)
    [] OTHER                  -> Unmarked(p)

\* The steps of a section.
LEMMA UnderSteps ==
  ASSUME NEW l \in Locks, NEW p \in Seq(Work), NEW s, s = Under(l, p), NEW n, n = Len(p)
  PROVE  /\ s \in Seq(Work) /\ n \in Nat /\ DOMAIN p = 1 .. n /\ DOMAIN s = 1 .. n + 2
         /\ s[1] = Take(l) /\ s[n + 2] = Drop(l)
         /\ \A i \in 1 .. n : s[i + 1] = p[i]
<1> DEFINE t == <<Take(l)>>
           d == <<Drop(l)>>
           tp == t \o p
<1>1. t \in Seq(Work) /\ Len(t) = 1 /\ t[1] = Take(l) /\ d \in Seq(Work) /\ Len(d) = 1 /\ d[1] = Drop(l)
  BY DEF Work
<1>2. s = tp \o d
  BY DEF Under
<1> HIDE DEF t, d
<1>3. /\ tp \in Seq(Work) /\ Len(tp) = n + 1 /\ n \in Nat /\ DOMAIN p = 1 .. n
      /\ tp[1] = Take(l) /\ \A i \in 1 .. n : tp[1 + i] = p[i]
  <2>1. /\ t \o p \in Seq(Work) /\ DOMAIN (t \o p) = 1 .. Len(t) + Len(p)
        /\ \A i \in 1 .. Len(t) : (t \o p)[i] = t[i]
        /\ \A i \in 1 .. Len(p) : (t \o p)[Len(t) + i] = p[i]
        /\ DOMAIN p = 1 .. Len(p) /\ Len(p) \in Nat
    BY <1>1, Joining
  <2>2. tp = t \o p
    OBVIOUS
  <2> HIDE DEF tp
  <2>3. tp \in Seq(Work) /\ DOMAIN tp = 1 .. 1 + n /\ n \in Nat
    BY <1>1, <2>1, <2>2
  <2>4. Len(tp) = n + 1
    BY <2>3
  <2>5. tp[1] = Take(l) /\ \A i \in 1 .. n : tp[1 + i] = p[i]
    BY <1>1, <2>1, <2>2
  <2> QED BY <2>1, <2>3, <2>4, <2>5
<1> HIDE DEF tp
<1>4. /\ s \in Seq(Work) /\ DOMAIN s = 1 .. (n + 1) + 1
      /\ \A i \in 1 .. n + 1 : s[i] = tp[i]
      /\ s[(n + 1) + 1] = d[1]
  <2>1. /\ tp \o d \in Seq(Work) /\ DOMAIN (tp \o d) = 1 .. Len(tp) + Len(d)
        /\ \A i \in 1 .. Len(tp) : (tp \o d)[i] = tp[i]
        /\ \A i \in 1 .. Len(d) : (tp \o d)[Len(tp) + i] = d[i]
    BY <1>1, <1>3, Joining
  <2> QED BY <1>1, <1>2, <1>3, <2>1
<1> QED BY <1>1, <1>3, <1>4

\* A section of the log with a colour and then its line, or with neither.
LogBody(q) == \/ Unmarked(q)
              \/ \E i \in 1 .. Len(q) - 1 :
                   /\ q[i] \in Colours /\ q[i + 1] \in Lines
                   /\ \A m \in DOMAIN q \ {i, i + 1} : q[m] \notin Marked

\* Such a section keeps the order of colour and line.
LEMMA LogOrdered ==
  ASSUME NEW q \in Seq(Work), \A m \in DOMAIN q : q[m] # Take("log"), LogBody(q),
         NEW s, s = Under("log", q)
  PROVE  Ordered(s) /\ ~Due(s)
<1> DEFINE n == Len(q)
<1>1. "log" \in Locks /\ n = Len(q)
  BY LockRanks
<1> HIDE DEF n
<1>2. /\ s \in Seq(Work) /\ n \in Nat /\ DOMAIN q = 1 .. n /\ DOMAIN s = 1 .. n + 2
      /\ s[1] = Take("log") /\ s[n + 2] = Drop("log")
      /\ \A i \in 1 .. n : s[i + 1] = q[i]
  BY <1>1, UnderSteps
<1>3. ASSUME NEW k \in DOMAIN s, s[k] \in Marked
      PROVE  k - 1 \in DOMAIN q /\ s[k] = q[k - 1] /\ Held(s, k)
  <2>1. k # 1 /\ k # n + 2
    BY <1>2, <1>3, MarksDiffer
  <2>2. k - 1 \in DOMAIN q /\ (k - 1) + 1 = k
    BY <1>2, <2>1
  <2>3. ASSUME NEW m \in k + 1 .. (n + 2) - 1
        PROVE  s[m] # Take("log")
    <3>1. m - 1 \in 1 .. n /\ (m - 1) + 1 = m
      <4>1. k \in 1 .. n + 2 /\ n \in Nat
        BY <1>2
      <4> QED BY <4>1
    <3>2. s[(m - 1) + 1] = q[m - 1] /\ q[m - 1] # Take("log")
      BY <1>2, <3>1
    <3> QED BY <3>1, <3>2
  <2>4. n + 2 \in DOMAIN s /\ k < n + 2
    BY <1>2, <2>1
  <2> QED BY <1>2, <2>2, <2>3, <2>4 DEF Held
<1>4. ~Due(s)
  <2> SUFFICES ASSUME NEW k \in DOMAIN s, DueAt(s, k)
               PROVE  FALSE
    BY DEF Due
  <2>1. k # 1
    BY <1>2, MarksDiffer DEF DueAt
  <2>2. 1 \in 0 + 1 .. k - 1
    BY <1>2, <2>1
  <2> QED BY <1>2, <2>2, MarksDiffer DEF DueAt, QuietTo
<1>5. ASSUME NEW k \in DOMAIN s, s[k] \in Lines
      PROVE  Coloured(s, k)
  <2>1. k - 1 \in DOMAIN q /\ q[k - 1] \in Lines /\ q[k - 1] \in Marked /\ (k - 1) + 1 = k
    BY <1>2, <1>3, <1>5, MarksDiffer
  <2>2. PICK i \in 1 .. n - 1 :
               /\ q[i] \in Colours /\ q[i + 1] \in Lines
               /\ \A m \in DOMAIN q \ {i, i + 1} : q[m] \notin Marked
    BY <1>1, <2>1 DEF LogBody, Unmarked
  <2>3. k - 1 = i + 1
    BY <2>1, <2>2, MarksDiffer
  <2>4. i + 1 \in 1 .. k - 1 /\ i \in 1 .. n /\ s[i + 1] = q[i]
    BY <1>2, <2>2, <2>3
  <2>5. QuietTo(s, i + 1, k)
    BY <1>2, <2>1, <2>3 DEF QuietTo
  <2> QED BY <2>2, <2>4, <2>5 DEF Coloured, ColouredAt
<1> QED BY <1>3, <1>4, <1>5 DEF Ordered

\* log and logf set the colour right before the line.
LEMMA LogShape ==
  ASSUME NEW p \in Log \cup Logf
  PROVE  Ordered(p) /\ ~Due(p)
<1> DEFINE shade == Call("kprint_colour")
           text == Call("kprint_line")
<1>1. /\ \A f \in {"serial_writes", "kvfprintf", "kfree"} : Call(f) \in Work \ Marked
      /\ shade \in Work /\ shade \in Colours /\ text \in Work /\ text \in Lines
      /\ \A f : Call(f) # Take("log")
      /\ shade # Take("log") /\ text # Take("log")
  <2>1. \A f \in {"serial_writes", "kvfprintf", "kfree"} : Call(f) \notin Marked
    BY MarksDiffer DEF Marked
  <2>2. /\ \A f \in {"serial_writes", "kvfprintf", "kfree"} : Call(f) \in Work
        /\ shade \in Work /\ text \in Work
    BY PathsDomain DEF Work
  <2> QED BY <2>1, <2>2, StepsDiffer DEF Colours, Lines
<1> DEFINE Calls == {Call(f) : f \in {"serial_writes", "kvfprintf", "kfree"}}
<1>2. ASSUME NEW q \in Seq(Calls)
      PROVE  q \in Seq(Work) /\ LogBody(q) /\ \A m \in DOMAIN q : q[m] # Take("log")
  <2>1. \A x \in Calls : x \in Work /\ x \notin Marked /\ x # Take("log")
    BY <1>1, StepsDiffer
  <2> HIDE DEF Calls
  <2>2. \A m \in DOMAIN q : q[m] \in Calls
    OBVIOUS
  <2>3. q \in Seq(Work)
    BY <2>1
  <2> QED BY <2>1, <2>2, <2>3 DEF LogBody, Unmarked
<1>3. /\ <<Call("serial_writes")>> \in Seq(Calls)
      /\ <<>> \in Seq(Calls)
      /\ <<Call("kvfprintf"), Call("serial_writes"), Call("kfree")>> \in Seq(Calls)
      /\ <<Call("kvfprintf"), Call("kfree")>> \in Seq(Calls)
  OBVIOUS
<1> HIDE DEF Calls
<1> HIDE DEF shade, text
<1>4. LET q == <<Call("serial_writes"), shade, text>>
      IN  q \in Seq(Work) /\ LogBody(q) /\ \A m \in DOMAIN q : q[m] # Take("log")
  <2> DEFINE q == <<Call("serial_writes"), shade, text>>
  <2>1. /\ q \in Seq(Work) /\ DOMAIN q = 1 .. 3 /\ Len(q) = 3 /\ q[2] = shade /\ q[3] = text
        /\ q[1] \notin Marked /\ \A m \in 1 .. 3 : q[m] # Take("log")
    BY <1>1
  <2> HIDE DEF q
  <2>2. 2 \in 1 .. 3 - 1 /\ 2 + 1 = 3 /\ DOMAIN q \ {2, 3} = {1}
    BY <2>1
  <2>3. LogBody(q)
    BY <1>1, <2>1, <2>2 DEF LogBody
  <2> QED BY <2>1, <2>3 DEF q
<1>5. LET q == <<Call("kvfprintf"), Call("serial_writes"), shade, text, Call("kfree")>>
      IN  q \in Seq(Work) /\ LogBody(q) /\ \A m \in DOMAIN q : q[m] # Take("log")
  <2> DEFINE q == <<Call("kvfprintf"), Call("serial_writes"), shade, text, Call("kfree")>>
  <2>1. /\ q \in Seq(Work) /\ DOMAIN q = 1 .. 5 /\ Len(q) = 5 /\ q[3] = shade /\ q[4] = text
        /\ q[1] \notin Marked /\ q[2] \notin Marked /\ q[5] \notin Marked
        /\ \A m \in 1 .. 5 : q[m] # Take("log")
    BY <1>1
  <2> HIDE DEF q
  <2>2. 3 \in 1 .. 5 - 1 /\ 3 + 1 = 4 /\ DOMAIN q \ {3, 4} = {1, 2, 5}
    BY <2>1
  <2>3. LogBody(q)
    BY <1>1, <2>1, <2>2 DEF LogBody
  <2> QED BY <2>1, <2>3 DEF q
<1>6. \E q \in Seq(Work) : /\ LogBody(q) /\ p = Under("log", q)
                           /\ \A m \in DOMAIN q : q[m] # Take("log")
  BY <1>2, <1>3, <1>4, <1>5 DEF Log, Logf, shade, text
<1>7. PICK q \in Seq(Work) : /\ LogBody(q) /\ p = Under("log", q)
                            /\ \A m \in DOMAIN q : q[m] # Take("log")
  BY <1>6
<1> QED BY <1>7, LogOrdered

\* What has nothing to do with the lines of the log.
Plain == Work \ Marked

\* Steps that have nothing to do with the lines, and sequences of them.
LEMMA PlainSteps ==
  /\ \A l \in Locks : Take(l) \in Plain /\ Drop(l) \in Plain
  /\ \A f \in DOMAIN Paths \ {"kprint_colour", "kprint_line"} : Call(f) \in Plain
  /\ Put("plain") \in Plain /\ Halt \in Plain
<1>1. /\ \A l \in Locks : Take(l) \in Work /\ Drop(l) \in Work
      /\ \A f \in DOMAIN Paths : Call(f) \in Work
      /\ Put("plain") \in Work /\ Halt \in Work
  BY DEF Work
<1>2. Put("plain") \notin Marked /\ Halt \notin Marked
  BY DEF Marked, Colours, Lines, Put, Call, Halt
<1>3. \A f \in DOMAIN Paths \ {"kprint_colour", "kprint_line"} : Call(f) \notin Marked
  BY MarksDiffer DEF Marked
<1> QED BY <1>1, <1>2, <1>3, MarksDiffer DEF Plain

\* A lock around such steps.
LEMMA PlainUnder ==
  ASSUME NEW l \in Locks, NEW p \in Seq(Plain)
  PROVE  Under(l, p) \in Seq(Plain)
<1>1. <<Take(l)>> \in Seq(Plain) /\ <<Drop(l)>> \in Seq(Plain)
  BY PlainSteps
<1>2. <<Take(l)>> \o p \in Seq(Plain)
  BY <1>1
<1> QED BY <1>1, <1>2 DEF Under

\* The names of the functions that print no line of the log themselves.
LEMMA PlainCalls ==
  /\ Call("serial_writes") \in Plain /\ Call("kmalloc") \in Plain /\ Call("kfree") \in Plain
  /\ Call("krealloc") \in Plain /\ Call("kvfprintf") \in Plain /\ Call("kvprintf") \in Plain
  /\ Call("drm_plot") \in Plain /\ Call("drm_sync") \in Plain /\ Call("drm_clear") \in Plain
  /\ Call("vt_flush") \in Plain /\ Call("kprint_plain") \in Plain
  /\ Call("log") \in Plain /\ Call("logf") \in Plain /\ Call("stack_trace") \in Plain
  /\ Call("kernel_panic") \in Plain /\ Call("kernel_panic_error") \in Plain
  /\ Call("gpt_init") \in Plain /\ Call("devman_add_storage") \in Plain
  /\ Call("devman_add_partition") \in Plain
BY PlainSteps, PathsDomain

\* No such step belongs to a line.
LEMMA PlainUnmarked ==
  ASSUME NEW p \in Seq(Plain)
  PROVE  Unmarked(p)
<1>1. \A m \in DOMAIN p : p[m] \in Plain
  OBVIOUS
<1> QED BY <1>1 DEF Unmarked, Plain

\* The functions that print no line of the log themselves.
LEMMA PlainPaths ==
  ASSUME SerialAvailable, ~HeapBroken,
         NEW f \in DOMAIN Paths \ {"kprint_colour", "kprint_line", "log", "logf"},
         NEW p \in Paths[f]
  PROVE  Unmarked(p)
<1>1. /\ "heap" \in Locks /\ "serial" \in Locks /\ "vt" \in Locks /\ "drm" \in Locks
      /\ "drm_sys" \in Locks /\ "panic" \in Locks /\ "cpu_list" \in Locks /\ "driver" \in Locks
      /\ "storage" \in Locks
  BY DEF Locks
<1>2. <<>> \in Seq(Plain) /\ \A l \in Locks : Under(l, <<>>) \in Seq(Plain)
  <2>1. <<>> \in Seq(Plain)
    OBVIOUS
  <2> QED BY <2>1, PlainUnder
<1>3. CASE f \in {"serial_writes", "kmalloc", "kfree", "krealloc", "kvfprintf", "kvprintf"}
  <2>1. /\ Under("heap", <<>>) \o Under("heap", <<>>) \in Seq(Plain)
        /\ <<Call("kmalloc"), Call("kfree")>> \in Seq(Plain)
        /\ <<Call("kmalloc"), Call("krealloc")>> \in Seq(Plain)
        /\ <<Call("kvfprintf"), Call("kprint_plain"), Call("kfree")>> \in Seq(Plain)
    BY <1>1, <1>2, PlainCalls
  <2>2. p \in SerialWrites \cup Kmalloc \cup Kfree \cup Krealloc \cup Kvfprintf \cup Kvprintf
    BY <1>3 DEF Paths
  <2>3. p \in Seq(Plain)
    BY <1>1, <1>2, <2>1, <2>2 DEF SerialWrites, Kmalloc, Kfree, Krealloc, Kvfprintf, Kvprintf
  <2> QED BY <2>3, PlainUnmarked
<1>4. CASE f \in {"drm_plot", "drm_sync", "drm_clear", "drm_switch", "vt_flush", "vt_redraw"}
  <2>1. /\ <<Call("drm_sync")>> \in Seq(Plain) /\ <<Call("vt_flush")>> \in Seq(Plain)
        /\ <<Call("drm_clear"), Call("drm_plot"), Call("drm_sync")>> \in Seq(Plain)
        /\ <<Call("drm_plot"), Call("drm_sync")>> \in Seq(Plain)
    BY PlainCalls
  <2>2. /\ Under("drm", Under("drm_sys", <<>>)) \in Seq(Plain)
        /\ Under("drm_sys", <<>>) \o <<Call("drm_sync")>> \in Seq(Plain)
    BY <1>1, <1>2, <2>1, PlainUnder
  <2>3. p \in DrmPlot \cup DrmSync \cup DrmClear \cup DrmSwitch \cup VtFlush \cup VtRedraw
    BY <1>4 DEF Paths
  <2>4. p \in Seq(Plain)
    BY <1>1, <1>2, <2>1, <2>2, <2>3
       DEF DrmPlot, DrmSync, DrmClear, DrmSwitch, VtFlush, VtRedraw
  <2> QED BY <2>4, PlainUnmarked
<1>5. CASE f \in {"kprint_plain", "stack_trace", "kernel_panic", "kernel_panic_error",
                  "fault_handler"}
  <2>1. /\ <<Call("vt_flush")>> \in Seq(Plain)
        /\ <<Put("plain"), Call("vt_flush")>> \in Seq(Plain)
        /\ <<Call("logf"), Call("log")>> \in Seq(Plain)
        /\ <<Call("serial_writes"), Call("log"), Call("stack_trace"), Halt>> \in Seq(Plain)
        /\ <<Call("serial_writes"), Call("serial_writes"), Call("serial_writes"),
             Call("logf"), Call("kernel_panic")>> \in Seq(Plain)
        /\ <<Call("serial_writes"), Call("kernel_panic_error")>> \in Seq(Plain)
    BY PlainSteps, PlainCalls
  <2>2. Under("vt", <<Put("plain"), Call("vt_flush")>>) \in Seq(Plain)
    BY <1>1, <2>1, PlainUnder
  <2>3. Kprint("plain") \in Seq(Plain)
    BY <2>1, <2>2 DEF Kprint
  <2>4. p \in KprintPlain \cup StackTrace \cup KernelPanic \cup KernelPanicError \cup FaultHandler
    BY <1>5 DEF Paths
  <2>5. p \in Seq(Plain)
    BY <2>1, <2>3, <2>4
       DEF KprintPlain, StackTrace, KernelPanic, KernelPanicError, FaultHandler
  <2> QED BY <2>5, PlainUnmarked
<1>6. CASE f \in {"panic_handle", "cpu_init", "cpu_get_random_cpu", "devman_register_driver",
                  "devman_handle_pcie_device"}
  <2>1. /\ <<Call("logf"), Call("log")>> \in Seq(Plain) /\ <<Call("kmalloc")>> \in Seq(Plain)
        /\ <<Call("logf")>> \in Seq(Plain)
        /\ <<Call("logf"), Call("devman_add_storage")>> \in Seq(Plain)
    BY PlainCalls
  <2>2. /\ Under("panic", <<Call("logf"), Call("log")>>) \in Seq(Plain)
        /\ Under("cpu_list", <<Call("kmalloc")>>) \in Seq(Plain)
        /\ Under("driver", <<Call("logf")>>) \in Seq(Plain)
        /\ Under("driver", <<Call("logf"), Call("devman_add_storage")>>) \in Seq(Plain)
    BY <1>1, <2>1, PlainUnder
  <2>3. /\ Under("cpu_list", <<Call("kmalloc")>>) \o <<Call("logf")>> \in Seq(Plain)
        /\ Under("cpu_list", <<>>) \o <<Call("logf")>> \in Seq(Plain)
        /\ <<Call("kmalloc")>> \o Under("driver", <<>>) \in Seq(Plain)
    BY <1>1, <1>2, <2>1, <2>2
  <2>4. p \in PanicHandle \cup CpuInit \cup CpuGetRandomCpu \cup DevmanRegisterDriver
               \cup DevmanHandlePcieDevice
    BY <1>6 DEF Paths
  <2>5. p \in Seq(Plain)
    BY <2>2, <2>3, <2>4
       DEF PanicHandle, CpuInit, CpuGetRandomCpu, DevmanRegisterDriver, DevmanHandlePcieDevice
  <2> QED BY <2>5, PlainUnmarked
<1>7. CASE f \in {"devman_add_storage", "gpt_init", "devman_add_partition"}
  <2>1. /\ <<Call("kmalloc"), Call("krealloc"), Call("log")>> \in Seq(Plain)
        /\ <<Call("gpt_init")>> \in Seq(Plain)
        /\ <<Call("kernel_panic_error")>> \in Seq(Plain)
        /\ <<Call("kprint_plain"), Call("kvprintf"), Call("logf"),
             Call("devman_add_partition")>> \in Seq(Plain)
    <3>1. /\ Call("kmalloc") \in Plain /\ Call("krealloc") \in Plain /\ Call("log") \in Plain
          /\ Call("gpt_init") \in Plain /\ Call("kernel_panic_error") \in Plain
          /\ Call("kprint_plain") \in Plain /\ Call("kvprintf") \in Plain
          /\ Call("logf") \in Plain /\ Call("devman_add_partition") \in Plain
      BY PlainCalls
    <3>2. <<Call("kmalloc"), Call("krealloc"), Call("log")>> \in Seq(Plain)
      BY <3>1
    <3>3. <<Call("kprint_plain"), Call("kvprintf"), Call("logf"),
            Call("devman_add_partition")>> \in Seq(Plain)
      BY <3>1
    <3> QED BY <3>1, <3>2, <3>3
  <2>2. Under("storage", <<Call("kmalloc"), Call("krealloc"), Call("log")>>) \in Seq(Plain)
    BY <1>1, <2>1, PlainUnder
  <2>3. Under("storage", <<Call("kmalloc"), Call("krealloc"), Call("log")>>)
          \o <<Call("gpt_init")>> \in Seq(Plain)
    BY <2>1, <2>2
  <2>4. p \in DevmanAddStorage \cup GptInit \cup DevmanAddPartition
    BY <1>7 DEF Paths
  <2>5. p \in Seq(Plain)
    BY <2>1, <2>2, <2>3, <2>4 DEF DevmanAddStorage, GptInit, DevmanAddPartition
  <2> QED BY <2>5, PlainUnmarked
<1> QED BY <1>3, <1>4, <1>5, <1>6, <1>7, PathsDomain

\* kprint prints once, with the terminal locked.
LEMMA KprintShape ==
  /\ \A p \in KprintColour : Only(p, Colours)
  /\ \A p \in KprintLine : Only(p, Lines)
<1>1. /\ \A l, w : Put(w) # Take(l) /\ Drop("vt") # Take(l)
      /\ Take("vt") # Take("log") /\ Call("vt_flush") # Take("log")
  BY StepsDiffer
<1>2. "vt" \in Locks
  BY DEF Locks
<1>3. /\ Quiet(Take("vt")) /\ Quiet(Drop("vt")) /\ Quiet(Call("vt_flush"))
  BY <1>1, <1>2, PlainSteps, PlainCalls DEF Quiet, Plain
<1>4. Put("colour") \in Colours /\ Put("line") \in Lines
  BY DEF Colours, Lines
<1>5. Only(Kprint("colour"), Colours)
  <2> DEFINE b == <<Put("colour")>>
             u == Under("vt", b)
             d == <<Call("vt_flush")>>
             p == u \o d
  <2>1. b \in Seq(Work) /\ Len(b) = 1 /\ b[1] = Put("colour")
    BY DEF Work
  <2>2. d \in Seq(Work) /\ Len(d) = 1 /\ d[1] = Call("vt_flush")
    BY PathsDomain DEF Work
  <2>3. Kprint("colour") = p
    BY DEF Kprint
  <2> HIDE DEF b, d
  <2>4. /\ u \in Seq(Work) /\ DOMAIN u = 1 .. 1 + 2
        /\ u[1] = Take("vt") /\ u[1 + 2] = Drop("vt") /\ \A i \in 1 .. 1 : u[i + 1] = b[i]
    <3>1. u = Under("vt", b) /\ b \in Seq(Work)
      BY <2>1
    <3>2. PICK n : n = Len(b)
      OBVIOUS
    <3> HIDE DEF u
    <3>3. /\ u \in Seq(Work) /\ DOMAIN u = 1 .. n + 2 /\ u[1] = Take("vt") /\ u[n + 2] = Drop("vt")
          /\ \A i \in 1 .. n : u[i + 1] = b[i]
      BY <1>2, <3>1, <3>2, UnderSteps
    <3> QED BY <2>1, <3>2, <3>3
  <2> HIDE DEF u
  <2>5. /\ DOMAIN p = 1 .. Len(u) + Len(d)
        /\ \A i \in 1 .. Len(u) : p[i] = u[i]
        /\ \A i \in 1 .. Len(d) : p[Len(u) + i] = d[i]
    BY <2>2, <2>4, Joining
  <2>6. Len(u) = 3 /\ u[2] = b[1]
    BY <2>4
  <2> HIDE DEF p
  <2>7. /\ DOMAIN p = 1 .. 4 /\ p[2] \in Colours /\ Quiet(p[1]) /\ Quiet(p[3]) /\ Quiet(p[4])
    <3>1. u[1] = Take("vt") /\ u[2] = Put("colour") /\ u[3] = Drop("vt")
      BY <2>1, <2>4, <2>6
    <3>2. /\ DOMAIN p = 1 .. 4 /\ p[1] = u[1] /\ p[2] = u[2] /\ p[3] = u[3] /\ p[3 + 1] = d[1]
      BY <2>2, <2>5, <2>6
    <3> QED BY <1>3, <1>4, <2>2, <3>1, <3>2
  <2>8. 2 \in 1 .. 4 /\ (1 .. 4) \ {2} = {1, 3, 4}
    OBVIOUS
  <2>9. Only(p, Colours)
    BY <2>7, <2>8 DEF Only
  <2> QED BY <2>3, <2>9
<1>6. Only(Kprint("line"), Lines)
  <2> DEFINE b == <<Put("line"), Call("vt_flush")>>
             u == Under("vt", b)
             d == <<Call("vt_flush")>>
             p == u \o d
  <2>1. b \in Seq(Work) /\ Len(b) = 2 /\ b[1] = Put("line") /\ b[2] = Call("vt_flush")
    BY PathsDomain DEF Work
  <2>2. d \in Seq(Work) /\ Len(d) = 1 /\ d[1] = Call("vt_flush")
    BY PathsDomain DEF Work
  <2>3. Kprint("line") = p
    BY DEF Kprint
  <2> HIDE DEF b, d
  <2>4. /\ u \in Seq(Work) /\ DOMAIN u = 1 .. 2 + 2
        /\ u[1] = Take("vt") /\ u[2 + 2] = Drop("vt") /\ \A i \in 1 .. 2 : u[i + 1] = b[i]
    <3>1. u = Under("vt", b) /\ b \in Seq(Work)
      BY <2>1
    <3>2. PICK n : n = Len(b)
      OBVIOUS
    <3> HIDE DEF u
    <3>3. /\ u \in Seq(Work) /\ DOMAIN u = 1 .. n + 2 /\ u[1] = Take("vt") /\ u[n + 2] = Drop("vt")
          /\ \A i \in 1 .. n : u[i + 1] = b[i]
      BY <1>2, <3>1, <3>2, UnderSteps
    <3> QED BY <2>1, <3>2, <3>3
  <2> HIDE DEF u
  <2>5. /\ DOMAIN p = 1 .. Len(u) + Len(d)
        /\ \A i \in 1 .. Len(u) : p[i] = u[i]
        /\ \A i \in 1 .. Len(d) : p[Len(u) + i] = d[i]
    BY <2>2, <2>4, Joining
  <2>6. Len(u) = 4 /\ u[2] = b[1] /\ u[3] = b[2]
    BY <2>4
  <2> HIDE DEF p
  <2>7. /\ DOMAIN p = 1 .. 5 /\ p[2] \in Lines /\ Quiet(p[1]) /\ Quiet(p[3]) /\ Quiet(p[4])
        /\ Quiet(p[5])
    <3>1. u[1] = Take("vt") /\ u[4] = Drop("vt") /\ u[2] = Put("line") /\ u[3] = Call("vt_flush")
      BY <2>1, <2>4, <2>6
    <3>2. /\ DOMAIN p = 1 .. 5 /\ p[1] = u[1] /\ p[2] = u[2] /\ p[3] = u[3] /\ p[4] = u[4]
          /\ p[4 + 1] = d[1]
      BY <2>2, <2>5, <2>6
    <3> QED BY <1>3, <1>4, <2>2, <3>1, <3>2
  <2>8. 2 \in 1 .. 5 /\ (1 .. 5) \ {2} = {1, 3, 4, 5}
    OBVIOUS
  <2>9. Only(p, Lines)
    BY <2>7, <2>8 DEF Only
  <2> QED BY <2>3, <2>9
<1> QED BY <1>5, <1>6 DEF KprintColour, KprintLine

\* What each path of each function does with the lines of the log.
LEMMA PathShapes ==
  ASSUME SerialAvailable, ~HeapBroken, NEW f \in DOMAIN Paths, NEW p \in Paths[f]
  PROVE  Shape(f, p)
<1>1. CASE f = "kprint_colour"
  BY <1>1, KprintShape DEF Paths, Shape
<1>2. CASE f = "kprint_line"
  BY <1>2, KprintShape DEF Paths, Shape
<1>3. CASE f \in {"log", "logf"}
  <2>1. p \in Log \cup Logf
    BY <1>3 DEF Paths
  <2> QED BY <1>3, <2>1, LogShape DEF Shape
<1>4. CASE f \notin {"kprint_colour", "kprint_line", "log", "logf"}
  BY <1>4, PlainPaths DEF Shape
<1> QED BY <1>1, <1>2, <1>3, <1>4

\* Before a line whose colour is set, no function is called that takes the log.
LEMMA LineInsideLog ==
  ASSUME NEW s, Nested(s), Ordered(s), NEW k \in DOMAIN s, k # 1, DueAt(s, k)
  PROVE  Rank(s[1]) > 5
<1>1. s \in Seq(Work) /\ DOMAIN s = 1 .. Len(s) /\ Len(s) \in Nat
  BY DEF Nested
<1>2. s[k] \in Lines /\ s[k] \in Marked /\ s[k] # Take("log") /\ Held(s, k)
  BY MarksDiffer DEF DueAt, Ordered
<1>3. PICK j \in DOMAIN s : /\ k < j /\ s[j] = Drop("log")
                            /\ \A m \in k + 1 .. j - 1 : s[m] # Take("log")
  BY <1>2 DEF Held
<1>4. ASSUME NEW m \in 1 .. j - 1
      PROVE  s[m] # Take("log")
  <2>1. CASE m < k
    <3>1. m \in 0 + 1 .. k - 1
      BY <1>1, <2>1
    <3> QED BY <3>1 DEF DueAt, QuietTo, Quiet
  <2>2. CASE m = k
    BY <1>2, <2>2
  <2>3. CASE m > k
    <3>1. m \in k + 1 .. j - 1
      BY <1>1, <2>3
    <3> QED BY <1>3, <3>1
  <2> QED BY <1>1, <1>3, <2>1, <2>2, <2>3
<1>5. ASSUME NEW i \in DOMAIN s
      PROVE  ~Pair(s, i, j, "log")
  <2> SUFFICES ASSUME Pair(s, i, j, "log")
               PROVE  FALSE
    OBVIOUS
  <2>1. i \in 1 .. j - 1 /\ s[i] = Take("log")
    BY <1>1, <1>3 DEF Pair
  <2> QED BY <1>4, <2>1
<1>6. "log" \in Locks /\ Lock("log") = 5
  BY LockRanks
<1>7. Open(s, j, "log")
  BY <1>3, <1>5, <1>6 DEF Nested
<1>8. 1 \in 1 .. j - 1
  BY <1>1, <1>3
<1> QED BY <1>6, <1>7, <1>8 DEF Open

\* A call is replaced by the steps of the function, and the lines stay in order.
LEMMA EnterOrdered ==
  ASSUME NEW s, Nested(s), s # <<>>, Ordered(s), NEW f \in DOMAIN Paths, s[1] = Call(f),
         NEW p, Closed(p, Function(f)), Shape(f, p), NEW e, e = p \o Tail(s)
  PROVE  Ordered(e) /\ (Due(e) => Due(s))
<1> DEFINE t == Tail(s)
           n == Len(p)
           z == Len(s)
           d == n - 1
<1>1. /\ p \in Seq(Work) /\ \A k \in DOMAIN p : Rank(p[k]) >= Function(f)
      /\ s \in Seq(Work) /\ z \in Nat /\ z >= 1 /\ DOMAIN s = 1 .. z
      /\ t \in Seq(Work) /\ Len(t) = z - 1 /\ \A i \in 1 .. z - 1 : t[i] = s[i + 1]
  BY DEF Nested, Closed
<1>2. e = p \o t
  OBVIOUS
<1> HIDE DEF t, z
<1>3. /\ n \in Nat /\ DOMAIN p = 1 .. n /\ DOMAIN e = 1 .. n + (z - 1)
      /\ \A i \in 1 .. n : e[i] = p[i]
      /\ \A i \in 1 .. z - 1 : e[n + i] = t[i]
  <2>1. /\ Len(p) \in Nat /\ DOMAIN p = 1 .. Len(p) /\ DOMAIN (p \o t) = 1 .. Len(p) + Len(t)
        /\ \A i \in 1 .. Len(p) : (p \o t)[i] = p[i]
        /\ \A i \in 1 .. Len(t) : (p \o t)[Len(p) + i] = t[i]
    BY <1>1, Joining
  <2>2. n = Len(p)
    OBVIOUS
  <2> HIDE DEF n
  <2> QED BY <1>1, <1>2, <2>1, <2>2
<1> HIDE DEF n
<1>4. d \in Int /\ 1 + d = n /\ d >= 0 - 1
  BY <1>3
<1>5. ASSUME NEW k \in 2 .. z
      PROVE  k + d \in DOMAIN e /\ k + d > n /\ e[k + d] = s[k]
  <2>1. k - 1 \in 1 .. z - 1 /\ n + (k - 1) = k + d /\ (k - 1) + 1 = k
    BY <1>1, <1>3
  <2>2. e[n + (k - 1)] = t[k - 1] /\ t[k - 1] = s[(k - 1) + 1]
    BY <1>1, <1>3, <2>1
  <2> QED BY <1>1, <1>3, <2>1, <2>2
<1>6. ASSUME NEW x \in DOMAIN e, x > n
      PROVE  x - d \in 2 .. z /\ (x - d) + d = x /\ e[x] = s[x - d]
  <2>1. x - d \in 2 .. z /\ (x - d) + d = x
    BY <1>1, <1>3, <1>6
  <2> QED BY <2>1, <1>5
<1> HIDE DEF d
<1>7. ASSUME NEW k \in 1 .. z, Held(s, k), NEW x \in 1 .. k + d,
             \A m \in x + 1 .. k + d : e[m] # Take("log")
      PROVE  Held(e, x)
  <2>1. PICK j \in DOMAIN s : /\ k < j /\ s[j] = Drop("log")
                              /\ \A m \in k + 1 .. j - 1 : s[m] # Take("log")
    BY <1>7 DEF Held
  <2>2. j \in 2 .. z
    BY <1>1, <2>1
  <2>3. j + d \in DOMAIN e /\ e[j + d] = Drop("log") /\ x < j + d
    <3>1. j + d \in DOMAIN e /\ e[j + d] = s[j]
      BY <1>5, <2>2
    <3>2. j \in Int /\ k \in Int /\ x \in Int /\ d \in Int /\ x <= k + d
      BY <1>1, <1>4, <2>2
    <3>3. x < j + d
      BY <2>1, <3>2
    <3> QED BY <2>1, <3>1, <3>3
  <2>4. ASSUME NEW m \in x + 1 .. (j + d) - 1
        PROVE  e[m] # Take("log")
    <3>1. CASE m \in x + 1 .. k + d
      BY <1>7, <3>1
    <3>2. CASE m \notin x + 1 .. k + d
      <4>1. m - d \in 2 .. z /\ m - d \in k + 1 .. j - 1 /\ (m - d) + d = m
        BY <1>1, <1>4, <2>1, <2>2, <3>2
      <4> QED BY <1>5, <2>1, <4>1
    <3> QED BY <3>1, <3>2
  <2> QED BY <2>3, <2>4 DEF Held
<1>8. ASSUME NEW k \in 2 .. z, NEW i \in 1 .. z, QuietTo(s, i, k)
      PROVE  QuietTo(e, i + d, k + d)
  <2>1. ASSUME NEW m \in (i + d) + 1 .. (k + d) - 1
        PROVE  Quiet(e[m])
    <3>1. m - d \in 2 .. z /\ m - d \in i + 1 .. k - 1 /\ (m - d) + d = m
      BY <1>1, <1>4
    <3> QED BY <1>5, <1>8, <3>1 DEF QuietTo
  <2> QED BY <2>1 DEF QuietTo
<1>9. ASSUME NEW k \in 2 .. z, QuietTo(s, 1, k), NEW x \in 0 .. n,
             \A m \in x + 1 .. n : Quiet(p[m])
      PROVE  QuietTo(e, x, k + d)
  <2>1. 1 \in 1 .. z /\ QuietTo(e, n, k + d)
    BY <1>1, <1>4, <1>8, <1>9
  <2>2. ASSUME NEW m \in x + 1 .. (k + d) - 1
        PROVE  Quiet(e[m])
    <3>1. CASE m <= n
      <4>1. m \in x + 1 .. n /\ m \in 1 .. n
        BY <1>3, <3>1
      <4> QED BY <1>3, <1>9, <4>1
    <3>2. CASE m > n
      <4>1. m \in n + 1 .. (k + d) - 1
        BY <1>3, <1>4, <3>2
      <4> QED BY <2>1, <4>1 DEF QuietTo
    <3>3. m \in Int /\ n \in Int
      BY <1>1, <1>3, <1>4
    <3>4. m <= n \/ m > n
      BY <3>3
    <3> QED BY <3>1, <3>2, <3>4
  <2> QED BY <2>2 DEF QuietTo
<1>10. ASSUME NEW k \in 2 .. z, s[k] \in Lines
       PROVE  /\ Coloured(e, k + d) \/ QuietTo(e, 0, k + d)
              /\ QuietTo(e, 0, k + d) => Due(s)
  <2>1. k \in DOMAIN s /\ k + d \in DOMAIN e
    BY <1>1, <1>5
  <2>2. CASE Coloured(s, k)
    <3>1. PICK i \in 1 .. k - 1 : s[i] \in Colours /\ QuietTo(s, i, k)
      BY <2>2 DEF Coloured, ColouredAt
    <3>2. CASE i # 1
      <4>1. i \in 2 .. z /\ i \in 1 .. z
        BY <1>1, <3>1, <3>2
      <4>2. e[i + d] \in Colours /\ QuietTo(e, i + d, k + d)
        BY <1>5, <1>8, <3>1, <4>1
      <4>3. i + d \in 1 .. (k + d) - 1 /\ i + d \in 0 + 1 .. (k + d) - 1
        BY <1>4, <3>1, <4>1
      <4>4. ~QuietTo(e, 0, k + d)
        BY <4>2, <4>3, MarksDiffer DEF QuietTo
      <4> QED BY <4>2, <4>3, <4>4 DEF Coloured, ColouredAt
    <3>3. CASE i = 1
      <4>1. f = "kprint_colour"
        BY <3>1, <3>3, MarksDiffer
      <4>2. PICK x \in DOMAIN p : p[x] \in Colours /\ \A m \in DOMAIN p \ {x} : Quiet(p[m])
        BY <4>1 DEF Shape, Only
      <4>3. x \in 1 .. n /\ x \in 0 .. n /\ \A m \in x + 1 .. n : Quiet(p[m])
        <5>1. x \in 1 .. n /\ x \in 0 .. n
          BY <1>3, <4>2
        <5>2. \A m \in x + 1 .. n : m \in DOMAIN p \ {x}
          BY <1>3, <5>1
        <5> QED BY <4>2, <5>1, <5>2
      <4>4. QuietTo(e, x, k + d)
        BY <1>9, <3>1, <3>3, <4>3
      <4>5. x \in 1 .. (k + d) - 1 /\ x \in 0 + 1 .. (k + d) - 1 /\ e[x] \in Colours
        BY <1>3, <1>4, <1>5, <4>2, <4>3
      <4>6. ~QuietTo(e, 0, k + d)
        BY <4>5, MarksDiffer DEF QuietTo
      <4> QED BY <4>4, <4>5, <4>6 DEF Coloured, ColouredAt
    <3> QED BY <3>2, <3>3
  <2>3. CASE QuietTo(s, 0, k)
    <3>1. DueAt(s, k) /\ Due(s)
      BY <1>10, <2>1, <2>3 DEF DueAt, Due
    <3>2. 1 \in 0 + 1 .. k - 1 /\ k # 1
      OBVIOUS
    <3>3. Quiet(s[1])
      BY <2>3, <3>2 DEF QuietTo
    <3>4. Rank(s[1]) > 5
      BY <2>1, <3>1, <3>2, LineInsideLog
    <3>5. Function(f) > 5
      BY <3>4, Ranks
    <3>6. f \notin {"kprint_colour", "kprint_line"}
      BY <3>3 DEF Quiet, Marked, Colours, Lines
    <3>7. f \notin {"log", "logf"}
      BY <3>5 DEF Function
    <3>8. Unmarked(p)
      BY <3>6, <3>7 DEF Shape
    <3>9. ASSUME NEW m \in 1 .. n
          PROVE  Quiet(p[m])
      <4>1. m \in DOMAIN p /\ p[m] \notin Marked /\ Rank(p[m]) >= Function(f)
        BY <1>1, <1>3, <3>8 DEF Unmarked
      <4>2. Rank(Take("log")) = 5 /\ Function(f) \in 1 .. 10
        BY Ranks, LockRanks
      <4>3. p[m] # Take("log")
        <5> SUFFICES ASSUME p[m] = Take("log") PROVE FALSE
          OBVIOUS
        <5> QED BY <3>5, <4>1, <4>2
      <4> QED BY <4>1, <4>3 DEF Quiet
    <3>10. QuietTo(s, 1, k)
      <4>1. \A m \in 1 + 1 .. k - 1 : m \in 0 + 1 .. k - 1
        OBVIOUS
      <4> QED BY <2>3, <4>1 DEF QuietTo
    <3>11. 0 \in 0 .. n /\ \A m \in 0 + 1 .. n : Quiet(p[m])
      BY <1>3, <3>9
    <3>12. QuietTo(e, 0, k + d)
      BY <1>9, <3>10, <3>11
    <3> QED BY <3>1, <3>12
  <2> QED BY <1>10, <2>1, <2>2, <2>3 DEF Ordered
<1>11. ASSUME NEW k \in 1 .. n, p[k] \in Marked
       PROVE  /\ Held(e, k)
              /\ p[k] \in Lines => (Coloured(e, k) \/ QuietTo(e, 0, k))
              /\ DueAt(e, k) => Due(s)
  <2>1. k \in DOMAIN p /\ k \in DOMAIN e /\ e[k] = p[k] /\ 1 \in DOMAIN s /\ 1 \in 1 .. z
    BY <1>1, <1>3
  <2>2. ~Quiet(p[k])
    BY <1>11 DEF Quiet
  <2>3. ASSUME NEW marks, Only(p, marks), s[1] \in Marked
        PROVE  p[k] \in marks /\ Held(e, k) /\ QuietTo(e, 0, k)
    <3>1. p[k] \in marks /\ \A m \in DOMAIN p \ {k} : Quiet(p[m])
      BY <2>1, <2>2, <2>3 DEF Only
    <3>2. Held(s, 1)
      BY <2>1, <2>3 DEF Ordered
    <3>3. k \in 1 .. 1 + d
      BY <1>4
    <3>4. ASSUME NEW m \in k + 1 .. 1 + d
          PROVE  e[m] # Take("log")
      <4>1. m \in 1 .. n /\ m \in DOMAIN p \ {k}
        BY <1>3, <1>4
      <4> QED BY <1>3, <3>1, <4>1 DEF Quiet
    <3>5. Held(e, k)
      BY <1>7, <2>1, <3>2, <3>3, <3>4
    <3>6. ASSUME NEW m \in 0 + 1 .. k - 1
          PROVE  Quiet(e[m])
      <4>1. m \in 1 .. n /\ m \in DOMAIN p \ {k}
        BY <1>3
      <4> QED BY <1>3, <3>1, <4>1
    <3> QED BY <3>1, <3>5, <3>6 DEF QuietTo
  <2>4. CASE f = "kprint_colour"
    <3>1. s[1] \in Marked /\ Only(p, Colours)
      BY <2>4 DEF Marked, Colours, Shape
    <3>2. p[k] \in Colours /\ Held(e, k)
      BY <2>3, <3>1
    <3>3. p[k] \notin Lines /\ ~DueAt(e, k)
      BY <2>1, <3>2, MarksDiffer DEF DueAt
    <3> QED BY <3>2, <3>3
  <2>5. CASE f = "kprint_line"
    <3>1. s[1] \in Marked /\ s[1] \in Lines /\ Only(p, Lines)
      BY <2>5 DEF Marked, Lines, Shape
    <3>2. Held(e, k) /\ QuietTo(e, 0, k)
      BY <2>3, <3>1
    <3>3. QuietTo(s, 0, 1)
      BY DEF QuietTo
    <3> QED BY <2>1, <3>1, <3>2, <3>3 DEF Due, DueAt
  <2>6. CASE f \in {"log", "logf"}
    <3>1. Ordered(p) /\ ~Due(p)
      BY <2>6 DEF Shape
    <3>2. ASSUME NEW i \in 0 .. n
          PROVE  QuietTo(p, i, k) <=> QuietTo(e, i, k)
      <4>1. \A m \in i + 1 .. k - 1 : p[m] = e[m]
        BY <1>3
      <4> QED BY <4>1 DEF QuietTo
    <3>3. Held(e, k)
      <4>1. PICK j \in DOMAIN p : /\ k < j /\ p[j] = Drop("log")
                                  /\ \A m \in k + 1 .. j - 1 : p[m] # Take("log")
        BY <1>11, <2>1, <3>1 DEF Ordered, Held
      <4>2. j \in DOMAIN e /\ e[j] = Drop("log") /\ \A m \in k + 1 .. j - 1 : e[m] = p[m]
        BY <1>1, <1>3, <4>1
      <4>3. \A m \in k + 1 .. j - 1 : e[m] # Take("log")
        BY <4>1, <4>2
      <4> QED BY <4>1, <4>2, <4>3 DEF Held
    <3>4. ~DueAt(e, k)
      <4>1. 0 \in 0 .. n
        BY <1>3
      <4> QED BY <2>1, <3>1, <3>2, <4>1 DEF Due, DueAt
    <3>5. ASSUME p[k] \in Lines
          PROVE  Coloured(e, k)
      <4>1. ~QuietTo(p, 0, k)
        BY <2>1, <3>1, <3>5 DEF Due, DueAt
      <4>2. PICK i \in 1 .. k - 1 : p[i] \in Colours /\ QuietTo(p, i, k)
        BY <2>1, <3>1, <3>5, <4>1 DEF Ordered, Coloured, ColouredAt
      <4>3. i \in 0 .. n /\ i \in 1 .. n
        BY <1>3
      <4>4. e[i] \in Colours /\ QuietTo(e, i, k)
        BY <1>3, <3>2, <4>2, <4>3
      <4> QED BY <4>4 DEF Coloured, ColouredAt
    <3> QED BY <3>3, <3>4, <3>5
  <2>7. CASE f \notin {"kprint_colour", "kprint_line", "log", "logf"}
    BY <1>11, <2>1, <2>7 DEF Shape, Unmarked
  <2> QED BY <2>4, <2>5, <2>6, <2>7
<1>12. ASSUME NEW x \in DOMAIN e
       PROVE  /\ e[x] \in Marked => Held(e, x)
              /\ e[x] \in Lines => Coloured(e, x) \/ QuietTo(e, 0, x)
              /\ DueAt(e, x) => Due(s)
  <2>1. CASE x <= n
    <3>1. x \in 1 .. n /\ e[x] = p[x]
      BY <1>3, <2>1
    <3>2. e[x] \in Lines => e[x] \in Marked
      BY MarksDiffer
    <3> QED BY <1>11, <3>1, <3>2 DEF DueAt
  <2>2. CASE x > n
    <3> DEFINE k == x - d
    <3>1. k \in 2 .. z /\ k + d = x /\ e[x] = s[k]
      BY <1>6, <2>2
    <3> HIDE DEF k
    <3>2. k \in DOMAIN s /\ k \in 1 .. z /\ x \in 1 .. k + d
      BY <1>1, <1>3, <3>1
    <3>3. \A m \in x + 1 .. k + d : e[m] # Take("log")
      BY <1>3, <3>1
    <3>4. e[x] \in Marked => Held(e, x)
      BY <1>7, <3>1, <3>2, <3>3 DEF Ordered
    <3> QED BY <1>10, <3>1, <3>4 DEF DueAt
  <2> QED BY <1>3, <2>1, <2>2
<1> QED BY <1>12 DEF Ordered, Due

\* Every CPU's lines are in order, and the one whose colour is set has its own.
LineInv == /\ LocksInv
           /\ \A c \in Cpus : /\ Ordered(todo[c])
                              /\ Due(todo[c]) => colour = c

\* Steps after which the log is held to its end have it locked.
LEMMA HeldInside ==
  ASSUME NEW s \in Seq(Work), Held(s, 1), s[1] # Take("log")
  PROVE  InsideOf(s, "log")
<1>1. PICK j \in DOMAIN s : /\ 1 < j /\ s[j] = Drop("log")
                            /\ \A m \in 1 + 1 .. j - 1 : s[m] # Take("log")
  BY DEF Held
<1>2. j \in Nat
  OBVIOUS
<1>3. ASSUME NEW m \in 1 .. j - 1
      PROVE  s[m] # Take("log")
  <2>1. m = 1 \/ m \in 1 + 1 .. j - 1
    BY <1>2
  <2> QED BY <1>1, <2>1
<1> QED BY <1>1, <1>3 DEF InsideOf

\* A CPU whose line has its colour owns the log.
LEMMA DueInside ==
  ASSUME NEW s \in Seq(Work), Ordered(s), Due(s)
  PROVE  InsideOf(s, "log")
<1>1. PICK k \in DOMAIN s : s[k] \in Lines /\ QuietTo(s, 0, k)
  BY DEF Due, DueAt
<1>2. s[k] \in Marked /\ s[k] # Take("log") /\ Held(s, k)
  BY <1>1, MarksDiffer DEF Ordered
<1>3. PICK j \in DOMAIN s : /\ k < j /\ s[j] = Drop("log")
                            /\ \A m \in k + 1 .. j - 1 : s[m] # Take("log")
  BY <1>2 DEF Held
<1>4. j \in Nat /\ k \in Nat
  OBVIOUS
<1>5. ASSUME NEW m \in 1 .. j - 1
      PROVE  s[m] # Take("log")
  <2>1. m \in 0 + 1 .. k - 1 \/ m = k \/ m \in k + 1 .. j - 1
    BY <1>4
  <2>2. CASE m \in 0 + 1 .. k - 1
    BY <1>1, <2>2 DEF QuietTo, Quiet
  <2> QED BY <1>2, <1>3, <2>1, <2>2
<1> QED BY <1>3, <1>5 DEF InsideOf

\* Nobody has a line to print.
LEMMA InitLine == Init => LineInv
<1> SUFFICES ASSUME Init PROVE LineInv
  OBVIOUS
<1>1. \A c \in Cpus : todo[c] = <<>>
  BY DEF Init
<1>2. Ordered(<<>>) /\ ~Due(<<>>)
  BY DEF Ordered, Due
<1> QED BY <1>1, <1>2, InitLocks DEF LineInv

\* A CPU begins with no line of its own.
LEMMA BeginLine ==
  ASSUME LineInv, NEW c \in Cpus, Begin(c)
  PROVE  LineInv'
<1>1. PICK f \in Entries : todo' = [todo EXCEPT ![c] = <<Call(f)>>]
  BY DEF Begin
<1>2. f \notin {"kprint_colour", "kprint_line"} /\ colour' = colour /\ LocksInv'
  BY EntriesAssumption, BeginLocks DEF Begin, LineInv
<1> DEFINE s == <<Call(f)>>
<1>3. DOMAIN s = {1} /\ s[1] = Call(f)
  OBVIOUS
<1>4. todo' = [todo EXCEPT ![c] = s] /\ todo \in [Cpus -> Seq(Work)]
  BY <1>1 DEF LineInv, LocksInv
<1> HIDE DEF s
<1>5. s[1] \notin Marked /\ s[1] \notin Lines
  BY <1>2, <1>3, MarksDiffer DEF Marked
<1>6. Ordered(s) /\ ~Due(s)
  BY <1>3, <1>5 DEF Ordered, Due, DueAt
<1> QED BY <1>2, <1>4, <1>6 DEF LineInv

\* A function is entered, with its lines in order.
LEMMA EnterLine ==
  ASSUME SerialAvailable, ~HeapBroken, LineInv, NEW c \in Cpus, Enter(c)
  PROVE  LineInv'
<1> DEFINE s == todo[c]
           f == Head(todo[c]).arg
<1>1. PICK p \in Paths[f] : todo' = [todo EXCEPT ![c] = p \o Tail(s)]
  BY DEF Enter
<1>2. /\ s \in Seq(Work) /\ s # <<>> /\ Nested(s) /\ f = s[1].arg
      /\ s[1] \in Work /\ s[1].op = "call"
  BY NextStep DEF Enter, LineInv
<1>3. LocksInv' /\ colour' = colour /\ Ordered(s) /\ (Due(s) => colour = c)
      /\ todo \in [Cpus -> Seq(Work)]
  BY EnterLocks DEF LineInv, Enter, LocksInv
<1> HIDE DEF s, f
<1>4. f \in DOMAIN Paths /\ s[1] = Call(f)
  BY <1>2, StepKinds
<1>5. Closed(p, Function(f)) /\ Shape(f, p)
  BY <1>1, <1>4, PathsClosed, PathShapes
<1>6. PICK e : e = p \o Tail(s)
  OBVIOUS
<1>7. Ordered(e) /\ (Due(e) => Due(s))
  BY <1>2, <1>3, <1>4, <1>5, <1>6, EnterOrdered
<1>8. todo' = [todo EXCEPT ![c] = e]
  BY <1>1, <1>6
<1> QED BY <1>3, <1>7, <1>8 DEF LineInv

\* A lock is taken or dropped between the colour and the line.
LEMMA SpinLine ==
  ASSUME LineInv, NEW c \in Cpus, Spinlock(c) \/ Spinunlock(c)
  PROVE  LineInv'
<1> DEFINE s == todo[c]
           t == Tail(s)
<1>1. s \in Seq(Work) /\ s # <<>> /\ (s[1].op = "take" \/ s[1].op = "drop")
      /\ s[1] \in Work
  BY NextStep DEF Spinlock, Spinunlock, LineInv
<1>2. LocksInv' /\ colour' = colour /\ Ordered(s) /\ (Due(s) => colour = c)
      /\ todo \in [Cpus -> Seq(Work)] /\ todo' = [todo EXCEPT ![c] = t]
  BY SpinlockLocks, SpinunlockLocks DEF LineInv, Spinlock, Spinunlock, LocksInv
<1> HIDE DEF s
<1>3. s[1] \notin Colours
  BY <1>1, StepKinds, MarksDiffer
<1>4. Ordered(t) /\ (Due(t) => Due(s))
  BY <1>1, <1>2, <1>3, TailOrdered
<1> HIDE DEF t
<1> QED BY <1>2, <1>4 DEF LineInv

\* A print: a CPU that prints a colour or a line owns the log, so that no other
\* CPU has set a colour for a line of its own.
LEMMA PrintLine ==
  ASSUME LineInv, NEW c \in Cpus, PrintOut(c)
  PROVE  LineInv' /\ (Head(todo[c]).arg = "line" => colour = c)
<1> DEFINE s == todo[c]
           t == Tail(s)
           w == Head(todo[c]).arg
<1>1. s \in Seq(Work) /\ s # <<>> /\ s[1].op = "print" /\ s[1] \in Work /\ w = s[1].arg
  BY NextStep DEF PrintOut, LineInv
<1>2. LocksInv' /\ Ordered(s) /\ (Due(s) => colour = c)
      /\ todo \in [Cpus -> Seq(Work)] /\ todo' = [todo EXCEPT ![c] = t]
  BY PrintOutLocks DEF LineInv, PrintOut, LocksInv
<1>3. colour' = CASE w = "colour" -> c [] w = "line" -> NoOne [] w = "plain" -> colour
  BY DEF PrintOut
<1>4. \A d \in Cpus : /\ todo[d] \in Seq(Work) /\ Ordered(todo[d])
                      /\ Due(todo[d]) => colour = d
                      /\ owner["log"] = d <=> InsideOf(todo[d], "log")
  BY LockRanks DEF LineInv, LocksInv
<1>5. s = todo[c]
  OBVIOUS
<1> HIDE DEF s, w
<1>6. s[1] = Put(w) /\ w \in {"colour", "line", "plain"}
  <2>1. s[1] \in {Put(v) : v \in {"colour", "line", "plain"}}
    BY <1>1 DEF Work, Take, Drop, Call, Halt
  <2> QED BY <1>1, <2>1 DEF Put
<1>7. 1 \in DOMAIN s
  BY <1>1
<1>8. Ordered(t) /\ (Due(t) => s[1] \in Colours \/ Due(s))
  BY <1>1, <1>2, TailOrdered
<1> HIDE DEF t
<1>9. \A d \in Cpus : Ordered(todo'[d])
  BY <1>2, <1>4, <1>8
<1>10. CASE w = "plain"
  <2>1. s[1] \notin Colours /\ "plain" # "line"
    BY <1>6, <1>10 DEF Colours, Put, Call
  <2>2. colour' = colour
    BY <1>3, <1>10
  <2>3. \A d \in Cpus : Due(todo'[d]) => colour' = d
    BY <1>2, <1>4, <1>8, <2>1, <2>2
  <2> QED BY <1>2, <1>9, <1>10, <2>1, <2>3 DEF LineInv, w
<1>11. CASE w # "plain"
  <2>1. s[1] \in Marked /\ s[1] # Take("log")
    BY <1>6, <1>11, StepsDiffer DEF Marked, Colours, Lines
  <2>2. owner["log"] = c
    BY <1>1, <1>2, <1>4, <1>5, <1>7, <2>1, HeldInside DEF Ordered
  <2>3. \A d \in Cpus : Due(todo[d]) => d = c
    BY <1>4, <2>2, DueInside
  <2>4. CASE w = "colour"
    <3>1. colour' = c /\ "colour" # "line"
      BY <1>3, <2>4
    <3>2. \A d \in Cpus : Due(todo'[d]) => d = c
      BY <1>2, <2>3
    <3> QED BY <1>2, <1>9, <2>4, <3>1, <3>2 DEF LineInv, w
  <2>5. CASE w = "line"
    <3>1. s[1] \in Lines /\ ~Quiet(s[1]) /\ s[1] \notin Colours
      BY <1>6, <2>5, MarksDiffer DEF Lines
    <3>2. QuietTo(s, 0, 1) /\ Due(s)
      BY <1>7, <3>1 DEF QuietTo, Due, DueAt
    <3>3. colour = c
      BY <1>2, <3>2
    <3>4. ~Due(t)
      BY <1>1, <1>2, <3>1, TailOrdered DEF t
    <3>5. \A d \in Cpus : ~Due(todo'[d])
      BY <1>2, <2>3, <3>4
    <3> QED BY <1>2, <1>9, <3>3, <3>5 DEF LineInv
  <2> QED BY <1>6, <1>11, <2>4, <2>5
<1> QED BY <1>10, <1>11

\* Every line of log and logf appears in the colour that the same call has set,
\* for any CPUs and any functions that they begin with: from the colour to the
\* line the log is locked, and whoever prints either of them has it locked.
THEOREM LineInOwnColourHolds ==
  ASSUME SerialAvailable, ~HeapBroken
  PROVE  Spec => LineInOwnColour
<1>1. LineInv /\ [Next]_vars => LineInv'
  <2> SUFFICES ASSUME LineInv, [Next]_vars PROVE LineInv'
    OBVIOUS
  <2>1. CASE UNCHANGED vars
    BY <2>1 DEF vars, LineInv, LocksInv
  <2>2. ASSUME NEW c \in Cpus, Begin(c) \/ Step(c)
        PROVE  LineInv'
    BY <2>2, BeginLine, EnterLine, SpinLine, PrintLine DEF Step
  <2> QED BY <2>1, <2>2 DEF Next
<1>2. LineInv /\ [Next]_vars
        => [\A c \in Cpus : PrintOut(c) /\ Head(todo[c]).arg = "line" => colour = c]_vars
  BY PrintLine
<1> QED BY <1>1, <1>2, InitLine, PTL DEF Spec, LineInOwnColour
=============================================================================
