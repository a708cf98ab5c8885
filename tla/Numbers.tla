------------------------------ MODULE Numbers -------------------------------
(***************************************************************************)
(* Facts about natural numbers that the proofs share.  Induction is stated *)
(* with sets, and a recursive function by its sequence of values.          *)
(***************************************************************************)
EXTENDS Integers, WellFoundedInduction, TLAPS

\* A set of numbers has a least one.
LEMMA LeastNumber ==
  ASSUME NEW T \in SUBSET Nat, T # {}
  PROVE  \E x \in T : \A y \in T : x <= y
<1> DEFINE R == OpToRel(<, Nat)
<1>1. IsWellFoundedOn(R, Nat)
  BY NatLessThanWellFounded
<1>2. \A x, y \in Nat : x < y => <<x, y>> \in R
  BY DEF OpToRel
<1> HIDE DEF R
<1>3. \E x \in T : \A y \in T : ~(<<y, x>> \in R)
  BY <1>1, WFMin
<1>4. PICK x \in T : \A y \in T : ~(<<y, x>> \in R)
  BY <1>3
<1>5. \A y \in T : ~(y < x)
  BY <1>2, <1>4
<1> QED BY <1>4, <1>5

\* A set with 0 and the successor of each of its numbers up to n has them all.
LEMMA InductionTo ==
  ASSUME NEW n \in Nat, NEW T, 0 \in T, \A k \in 0 .. n - 1 : k \in T => k + 1 \in T
  PROVE  0 .. n \subseteq T
<1> SUFFICES ASSUME (0 .. n) \ T # {} PROVE FALSE
  OBVIOUS
<1>1. PICK k \in (0 .. n) \ T : \A y \in (0 .. n) \ T : k <= y
  <2> DEFINE U == (0 .. n) \ T
  <2>1. U \in SUBSET Nat /\ U # {}
    OBVIOUS
  <2> HIDE DEF U
  <2>2. \E k \in U : \A y \in U : k <= y
    BY <2>1, LeastNumber
  <2> QED BY <2>2 DEF U
<1>2. k - 1 \in 0 .. n - 1
  BY <1>1
<1>3. k - 1 \in T
  BY <1>1, <1>2
<1> QED BY <1>1, <1>2, <1>3

\* From s, F on the number of the step and the value gives a sequence in S.
Iterates(n, S, s, F) ==
  \E g \in [0 .. n -> S] : g[0] = s /\ \A k \in 1 .. n : g[k] = F[<<k, g[k - 1]>>]

\* A function can be defined by its value at 0 and its step on a set S.
LEMMA Iteration ==
  ASSUME NEW n \in Nat, NEW S, NEW s \in S, NEW F \in [(1 .. n) \X S -> S]
  PROVE  Iterates(n, S, s, F)
<1> DEFINE Good(g, j) == g[0] = s /\ \A k \in 1 .. j : g[k] = F[<<k, g[k - 1]>>]
           T == {j \in 0 .. n : \E g \in [0 .. n -> S] : Good(g, j)}
<1>1. 0 \in T
  <2> DEFINE g == [k \in 0 .. n |-> s]
  <2>1. g \in [0 .. n -> S] /\ Good(g, 0)
    OBVIOUS
  <2>2. 0 \in 0 .. n
    OBVIOUS
  <2> HIDE DEF g, Good
  <2> QED BY <2>1, <2>2
<1>2. ASSUME NEW j \in 0 .. n - 1, j \in T
      PROVE  j + 1 \in T
  <2>1. PICK g \in [0 .. n -> S] : Good(g, j)
    BY <1>2
  <2> DEFINE h == [g EXCEPT ![j + 1] = F[<<j + 1, g[j]>>]]
  <2>2. j \in 0 .. n /\ j + 1 \in 1 .. n /\ g[j] \in S
    BY <1>2, <2>1
  <2>3. F[<<j + 1, g[j]>>] \in S
    BY <2>2
  <2>4. h \in [0 .. n -> S] /\ h[j + 1] = F[<<j + 1, g[j]>>]
        /\ \A k \in 0 .. j : h[k] = g[k]
    BY <2>1, <2>2, <2>3
  <2>5. ASSUME NEW k \in 1 .. j + 1
        PROVE  h[k] = F[<<k, h[k - 1]>>]
    <3>1. CASE k = j + 1
      <4>1. j \in 0 .. j /\ k - 1 = j
        BY <2>2, <3>1
      <4>2. h[k - 1] = g[j]
        BY <2>4, <4>1
      <4> QED BY <2>4, <3>1, <4>2
    <3>2. CASE k # j + 1
      <4>1. k \in 1 .. j /\ k \in 0 .. j /\ k - 1 \in 0 .. j
        BY <2>2, <3>2
      <4> QED BY <2>1, <2>4, <4>1
    <3> QED BY <3>1, <3>2
  <2>6. h[0] = s
    BY <2>1, <2>2, <2>4
  <2>7. Good(h, j + 1) /\ j + 1 \in 0 .. n
    BY <2>2, <2>5, <2>6
  <2> HIDE DEF h, Good
  <2> QED BY <2>4, <2>7
<1> HIDE DEF T
<1>3. n \in T
  BY <1>1, <1>2, InductionTo
<1> QED BY <1>3 DEF T, Iterates

\* Digits: a number is known from its quotient and its remainder.
LEMMA DivMod ==
  ASSUME NEW x \in Nat, NEW r \in Nat, r > 0
  PROVE  x = r * (x \div r) + (x % r) /\ x \div r \in Nat /\ x % r \in 0 .. r - 1
OBVIOUS

\* A quotient is below what the number is below of in multiples.
LEMMA DivBound ==
  ASSUME NEW x \in Nat, NEW r \in Nat, r > 0, NEW q \in Nat, x < r * q
  PROVE  x \div r < q
OBVIOUS
=============================================================================
