--------------------------- MODULE InductionLemmas ---------------------------
(***************************************************************************)
(* Induction over the numbers, and functions defined by recursion on them. *)
(* The library states its induction theorems of a predicate P(_); here the *)
(* induction is over the members of a set, which the provers can           *)
(* instantiate: a claim about n is the set of the numbers it holds for.    *)
(***************************************************************************)
EXTENDS Integers, WellFoundedInduction, TLAPS

Less == {pair \in Nat \X Nat : pair[1] < pair[2]}

LEMMA LessIsWellFounded == IsWellFoundedOn(Less, Nat)
BY NatLessThanWellFounded DEF OpToRel, Less

LEMMA SmallestNumber ==
    ASSUME NEW T \in SUBSET Nat, T # {}
    PROVE  \E n \in T : \A m \in T : n <= m
<1>1. PICK n \in T : \A m \in T : ~ (<<m, n>> \in Less)
  BY LessIsWellFounded, WFMin, Zenon
<1>2. ASSUME NEW m \in T PROVE n <= m
  <2>1. n \in Nat /\ m \in Nat
    OBVIOUS
  <2>2. m < n => <<m, n>> \in Less
    BY <2>1 DEF Less
  <2> QED  BY <2>1, <2>2, <1>1
<1> QED  BY <1>2

\* What holds of 0, and of n + 1 when it holds of n, holds of every number.
LEMMA SetInduction ==
    ASSUME NEW S, 0 \in S, \A n \in Nat : n \in S => n + 1 \in S
    PROVE  Nat \subseteq S
<1> DEFINE out == {n \in Nat : n \notin S}
<1> SUFFICES ASSUME out # {} PROVE FALSE
  OBVIOUS
<1>1. PICK n \in out : \A m \in out : n <= m
  BY SmallestNumber
<1>2. n # 0 /\ n - 1 \in Nat /\ n - 1 \notin out
  BY <1>1
<1>3. n - 1 \in S
  BY <1>2
<1>4. (n - 1) + 1 \in S
  BY <1>2, <1>3
<1> QED  BY <1>2, <1>4

\* The same up to a bound.
LEMMA BoundedInduction ==
    ASSUME NEW N \in Nat, NEW S, 0 \in S, \A n \in 1 .. N : n - 1 \in S => n \in S
    PROVE  0 .. N \subseteq S
<1> DEFINE upTo == {n \in Nat : n <= N => n \in S}
<1>1. 0 \in upTo
  OBVIOUS
<1>2. ASSUME NEW n \in Nat, n \in upTo PROVE n + 1 \in upTo
  <2> SUFFICES ASSUME n + 1 <= N PROVE n + 1 \in S
    OBVIOUS
  <2>1. n + 1 \in 1 .. N /\ (n + 1) - 1 = n /\ n \in S
    BY <1>2
  <2> QED  BY <2>1
<1>3. Nat \subseteq upTo
  <2> HIDE DEF upTo
  <2> QED  BY <1>1, <1>2, SetInduction
<1> QED  BY <1>3

\* A function of 0 .. N is defined by its first value and each one from the one
\* before.
LEMMA Iteration ==
    ASSUME NEW S, NEW first \in S, NEW N \in Nat, NEW step \in [1 .. N -> [S -> S]]
    PROVE  \E f \in [0 .. N -> S] : f[0] = first /\ \A n \in 1 .. N : f[n] = step[n][f[n - 1]]
<1> DEFINE Defines(f, n) == f[0] = first /\ \A k \in 1 .. n : f[k] = step[k][f[k - 1]]
           done == {n \in 0 .. N : \E f \in [0 .. n -> S] : Defines(f, n)}
<1>1. 0 \in done
  <2> DEFINE f == [k \in 0 .. 0 |-> first]
  <2>1. f \in [0 .. 0 -> S] /\ Defines(f, 0)
    OBVIOUS
  <2> HIDE DEF f
  <2> QED  BY <2>1
<1>2. ASSUME NEW n \in 1 .. N, n - 1 \in done PROVE n \in done
  <2>1. PICK f \in [0 .. n - 1 -> S] : Defines(f, n - 1)
    BY <1>2
  <2> DEFINE g == [k \in 0 .. n |-> IF k = n THEN step[n][f[n - 1]] ELSE f[k]]
  <2>2. f[n - 1] \in S /\ step[n][f[n - 1]] \in S
    OBVIOUS
  <2>3. g \in [0 .. n -> S] /\ g[n] = step[n][f[n - 1]] /\ \A k \in 0 .. n - 1 : g[k] = f[k]
    BY <2>2
  <2> HIDE DEF g
  <2>4. \A k \in 1 .. n : g[k] = step[k][g[k - 1]]
    <3> TAKE k \in 1 .. n
    <3>1. CASE k = n
      <4>1. g[n - 1] = f[n - 1]
        BY <2>3
      <4> QED  BY <2>3, <3>1, <4>1
    <3>2. CASE k # n
      <4>1. k \in 1 .. n - 1 /\ k \in 0 .. n - 1 /\ k - 1 \in 0 .. n - 1
        BY <3>2
      <4>2. f[k] = step[k][f[k - 1]]
        BY <2>1, <4>1
      <4> QED  BY <2>3, <4>1, <4>2
    <3> QED  BY <3>1, <3>2
  <2>5. g[0] = first
    BY <2>1, <2>3
  <2>6. Defines(g, n)
    BY <2>4, <2>5
  <2> HIDE DEF Defines
  <2> QED  BY <2>3, <2>6
<1>3. N \in done
  <2> HIDE DEF done
  <2>1. 0 .. N \subseteq done
    BY <1>1, <1>2, BoundedInduction
  <2> QED  BY <2>1
<1> QED  BY <1>3

=============================================================================
