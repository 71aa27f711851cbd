----------------------------- MODULE ListTheorems -----------------------------
(***************************************************************************)
(* What the proofs need of numbers, recursive functions and lists: data of *)
(* any length need an induction, which is done here over sets of numbers,  *)
(* by the least counterexample.                                            *)
(***************************************************************************)
EXTENDS Integers, Sequences, SequenceTheorems, WellFoundedInduction, TLAPS

\* A set with 0 and with the successor of each of its numbers has all of them.
LEMMA SetInduction ==
    ASSUME NEW S, 0 \in S, \A n \in Nat : n \in S => n + 1 \in S
    PROVE  Nat \subseteq S
<1>. DEFINE T == Nat \ S
            R == OpToRel(<, Nat)
<1>1. SUFFICES ASSUME T # {} PROVE FALSE
  OBVIOUS
<1>2. PICK x \in T : \A y \in T : ~(<<y, x>> \in R)
  <2>1. IsWellFoundedOn(R, Nat)
    BY NatLessThanWellFounded
  <2>. HIDE DEF R
  <2>. QED  BY <1>1, <2>1, WFMin
<1>3. \A y \in T : ~(y < x)
  BY <1>2 DEF OpToRel
<1>4. x # 0 /\ x - 1 \in Nat /\ x - 1 < x /\ (x - 1) + 1 = x
  OBVIOUS
<1>5. x - 1 \in S
  BY <1>3, <1>4
<1>. QED  BY <1>4, <1>5

\* f begins with b and goes on from each value to the next as G says.
Unfolds(f, n, V, b, G) ==
    /\ f \in [0..n -> V]
    /\ f[0] = b
    /\ \A i \in 1..n : f[i] = G[<<f[i - 1], i>>]

\* There is a function on 0..n for every first value and every way to go on from
\* one value to the next: what a recursive definition needs to define anything.
LEMMA Recursion ==
    ASSUME NEW n \in Nat, NEW V, NEW b \in V, NEW G \in [V \X (1..n) -> V]
    PROVE  \E f : Unfolds(f, n, V, b, G)
<1>. DEFINE S == {k \in Nat : \E f \in [0..k -> V] : f[0] = b /\ \A i \in 1..k : i <= n => f[i] = G[<<f[i-1], i>>]}
<1>1. 0 \in S
  <2>. DEFINE f == [i \in 0..0 |-> b]
  <2>1. f \in [0..0 -> V] /\ f[0] = b
    OBVIOUS
  <2>. HIDE DEF f
  <2>. QED  BY <2>1
<1>2. ASSUME NEW k \in Nat, k \in S
      PROVE  k + 1 \in S
  <2>1. PICK f \in [0..k -> V] : f[0] = b /\ \A i \in 1..k : i <= n => f[i] = G[<<f[i-1], i>>]
    BY <1>2
  <2>. DEFINE v == IF k + 1 <= n THEN G[<<f[k], k + 1>>] ELSE b
              g == [i \in 0..(k + 1) |-> IF i = k + 1 THEN v ELSE f[i]]
  <2>2. v \in V
    BY <2>1
  <2>. HIDE DEF v
  <2>3. g \in [0..(k+1) -> V]
    BY <2>1, <2>2
  <2>4. g[0] = b
    BY <2>1
  <2>5. ASSUME NEW i \in 1..(k+1), i <= n
        PROVE  g[i] = G[<<g[i-1], i>>]
    <3>1. g[i - 1] = f[i - 1]
      OBVIOUS
    <3>2. CASE i = k + 1
      <4>1. g[i] = v /\ v = G[<<f[k], k + 1>>] /\ f[i - 1] = f[k]
        BY <3>2, <2>5 DEF v
      <4>. HIDE DEF g
      <4>. QED  BY <3>1, <3>2, <4>1
    <3>3. CASE i \in 1..k
      BY <3>1, <3>3, <2>1, <2>5
    <3>. QED  BY <3>2, <3>3
  <2>. HIDE DEF g
  <2>. QED  BY <2>3, <2>4, <2>5
<1>3. n \in S
  <2>. HIDE DEF S
  <2>. QED  BY <1>1, <1>2, SetInduction
<1>4. PICK f \in [0..n -> V] : f[0] = b /\ \A i \in 1..n : i <= n => f[i] = G[<<f[i-1], i>>]
  BY <1>3
<1>5. Unfolds(f, n, V, b, G)
  BY <1>4 DEF Unfolds
<1>. QED  BY <1>5

\* A function on an initial segment of the positions is a list.
LEMMA FunctionIsSeq ==
    ASSUME NEW S, NEW n \in Nat, NEW f \in [1..n -> S]
    PROVE  f \in Seq(S) /\ Len(f) = n
<1>1. f \in Seq(S)
  BY SeqDef
<1>. QED  BY <1>1, LenProperties

\* A set of numbers has a least one.
LEMMA LeastNumber ==
    ASSUME NEW S, S \subseteq Nat, S # {}
    PROVE  \E x \in S : \A y \in S : x <= y
<1>. DEFINE R == OpToRel(<, Nat)
<1>1. PICK x \in S : \A y \in S : ~(<<y, x>> \in R)
  <2>1. IsWellFoundedOn(R, Nat)
    BY NatLessThanWellFounded
  <2>. HIDE DEF R
  <2>. QED  BY <2>1, WFMin
<1>2. \A y \in S : ~(y < x)
  BY <1>1 DEF OpToRel
<1>. QED  BY <1>2

===============================================================================
