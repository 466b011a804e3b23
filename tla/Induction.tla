----------------------------- MODULE Induction -----------------------------
(***************************************************************************)
(* What the proofs about recursive functions need.  The theorems of the    *)
(* library about induction take an operator as a parameter, which the      *)
(* provers cannot instantiate, so induction is stated over sets: to prove  *)
(* P(k) for all k up to n, show it of T == {k \in 0 .. n : P(k)}.          *)
(***************************************************************************)
EXTENDS Integers, Sequences, WellFoundedInduction, TLAPS

\* A set of numbers has a least one.
LEMMA LeastNumber ==
    ASSUME NEW T, T \subseteq Nat, T # {}
    PROVE  \E n \in T : \A m \in T : n <= m
<1>1. \E n \in T : \A m \in T : ~(<<m, n>> \in OpToRel(<, Nat))
  BY NatLessThanWellFounded, WFMin, Zenon
<1>2. \A m, n \in Nat : m < n => <<m, n>> \in OpToRel(<, Nat)
  BY Zenon DEF OpToRel
<1>3. \E n \in T : \A m \in T : ~(m < n)
  BY <1>1, <1>2, Zenon
<1> QED BY <1>3

\* A set that holds zero and, with a number below n, the next one, holds all up to n.
LEMMA ReachesAll ==
    ASSUME NEW n \in Nat, NEW T, 0 \in T, \A k \in 0 .. n - 1 : k \in T => k + 1 \in T
    PROVE  0 .. n \subseteq T
<1> SUFFICES ASSUME (0 .. n) \ T # {} PROVE FALSE
  OBVIOUS
<1> DEFINE Missing == (0 .. n) \ T
<1>1. PICK k \in Missing : \A j \in Missing : k <= j
  BY LeastNumber, Missing \subseteq Nat
<1>2. k # 0 /\ k \in 0 .. n
  OBVIOUS
<1>3. k - 1 \in 0 .. n - 1 /\ k - 1 \notin Missing
  BY <1>1, <1>2
<1>4. (k - 1) + 1 \in T
  BY <1>3
<1> QED BY <1>4, <1>2

\* A function over 1 .. n is a sequence of length n.
LEMMA FunctionIsSeq ==
    ASSUME NEW S, NEW n \in Nat, NEW f \in [1 .. n -> S]
    PROVE  f \in Seq(S) /\ Len(f) = n
OBVIOUS

LEMMA Concatenation ==
    ASSUME NEW S, NEW p \in Seq(S), NEW q \in Seq(S)
    PROVE  /\ p \o q \in Seq(S) /\ Len(p \o q) = Len(p) + Len(q)
           /\ \A n \in 1 .. Len(p) : (p \o q)[n] = p[n]
           /\ \A n \in 1 .. Len(p) + Len(q) : n > Len(p) => (p \o q)[n] = q[n - Len(p)]
OBVIOUS

\* f starts with z and goes on with what G says of its last value and of the next number.
Iterates(f, z, G, n) == f[0] = z /\ \A k \in 1 .. n : f[k] = G[<<f[k - 1], k>>]

\* A value that is computed step by step exists for every number of steps.
LEMMA Recursion ==
    ASSUME NEW S, NEW n \in Nat, NEW z \in S, NEW G \in [S \X (1 .. n) -> S]
    PROVE  \E f \in [0 .. n -> S] : Iterates(f, z, G, n)
<1> DEFINE Computes(f, j) == f[0] = z /\ \A k \in 1 .. j : f[k] = G[<<f[k - 1], k>>]
           T == {j \in 0 .. n : \E f \in [0 .. j -> S] : Computes(f, j)}
<1>1. 0 \in T
  <2> DEFINE g == [k \in 0 .. 0 |-> z]
  <2>1. g \in [0 .. 0 -> S] /\ g[0] = z
    OBVIOUS
  <2>2. \A k \in 1 .. 0 : g[k] = G[<<g[k - 1], k>>]
    OBVIOUS
  <2> HIDE DEF g
  <2> QED BY <2>1, <2>2
<1>2. ASSUME NEW j \in 0 .. n - 1, j \in T PROVE j + 1 \in T
  <2>1. PICK f \in [0 .. j -> S] : Computes(f, j)
    BY <1>2
  <2> DEFINE next == G[<<f[j], j + 1>>]
             g == [k \in 0 .. j + 1 |-> IF k = j + 1 THEN next ELSE f[k]]
  <2>2. next \in S
    OBVIOUS
  <2> HIDE DEF next
  <2>3. g \in [0 .. j + 1 -> S] /\ g[j + 1] = next /\ \A k \in 0 .. j : g[k] = f[k]
    BY <2>2
  <2> HIDE DEF g
  <2>4. g[0] = z
    BY <2>1, <2>3
  <2>5. ASSUME NEW k \in 1 .. j + 1 PROVE g[k] = G[<<g[k - 1], k>>]
    <3>1. CASE k = j + 1
      BY <2>3, <3>1 DEF next
    <3>2. CASE k # j + 1
      <4>1. k \in 1 .. j /\ k \in 0 .. j /\ k - 1 \in 0 .. j
        BY <3>2
      <4> QED BY <2>1, <2>3, <4>1
    <3> QED BY <3>1, <3>2
  <2> QED BY <2>3, <2>4, <2>5
<1> HIDE DEF T
<1>3. 0 .. n \subseteq T
  BY <1>1, <1>2, ReachesAll
<1>4. n \in T
  BY <1>3
<1> QED BY <1>4, Zenon DEF T, Iterates
============================================================================
