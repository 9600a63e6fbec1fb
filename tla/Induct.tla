------------------------------- MODULE Induct -------------------------------
(***************************************************************************)
(* Induction over the natural numbers without an operator as a parameter:  *)
(* what is to be proved is a set of numbers, {n \in Nat : P(n)}.  The      *)
(* other proofs use it for what a recursive definition computes.           *)
(***************************************************************************)
EXTENDS Integers, FiniteSetTheorems, TLAPS

\* A set of natural numbers that is not empty has a least element.
LEMMA Least ==
  ASSUME NEW T \in SUBSET Nat, T # {}
  PROVE  \E x \in T : \A y \in T : x <= y
  <1> DEFINE R == OpToRel(<, Nat)
  <1>1. IsWellFoundedOn(R, Nat)
    BY NatLessThanWellFounded
  <1>2. \A x, y \in Nat : <<y, x>> \in R <=> y < x
    BY DEF OpToRel
  <1> HIDE DEF R
  <1>3. \E x \in T : \A y \in T : ~ (<<y, x>> \in R)
    BY <1>1, WFMin
  <1>4. \A x, y \in Nat : ~ (y < x) => x <= y
    OBVIOUS
  <1> QED
    BY <1>2, <1>3, <1>4

\* A set that holds 0, and with a number its successor, holds them all.
LEMMA Induction ==
  ASSUME NEW S, 0 \in S, \A n \in Nat : n \in S => n + 1 \in S
  PROVE  \A n \in Nat : n \in S
  <1> SUFFICES ASSUME {n \in Nat : n \notin S} # {} PROVE FALSE
    OBVIOUS
  <1>1. PICK x \in {n \in Nat : n \notin S} : \A y \in {n \in Nat : n \notin S} : x <= y
    BY Least
  <1>2. x # 0 /\ x - 1 \in Nat
    BY <1>1
  <1>3. x - 1 \in S
    BY <1>1, <1>2
  <1> QED
    BY <1>1, <1>2, <1>3

\* Counting messages from 0 instead of from 1 leaves their number.
LEMMA Shifted ==
  ASSUME NEW T \in SUBSET Int, IsFiniteSet(T)
  PROVE  /\ IsFiniteSet({k - 1 : k \in T})
         /\ Cardinality({k - 1 : k \in T}) = Cardinality(T)
  <1> DEFINE U == {k - 1 : k \in T}
             f == [k \in T |-> k - 1]
  <1>1. f \in Bijection(T, U)
    BY DEF Bijection, Injection, Surjection, IsInjective
  <1>2. ExistsBijection(T, U)
    BY <1>1 DEF ExistsBijection
  <1> QED
    BY <1>2, FS_Bijection

\* h holds what the operation G makes of x when it is repeated, up to N times.
Iterates(D, G, x, N, h) ==
  /\ h \in [0 .. N -> D]
  /\ \A n \in 0 .. N : h[n] = IF n = 0 THEN x ELSE G[h[n - 1]]

\* An operation on D can be repeated N times.
LEMMA Iterated ==
  ASSUME NEW D, NEW G \in [D -> D], NEW x \in D, NEW N \in Nat
  PROVE  \E h : Iterates(D, G, x, N, h)
  <1> DEFINE Turns(m, h) == Iterates(D, G, x, m, h)
             S == {m \in Nat : \E h : Turns(m, h)}
  <1>1. 0 \in S
    <2>1. Turns(0, [n \in 0 .. 0 |-> x])
      BY DEF Iterates
    <2> QED
      BY <2>1
  <1>2. ASSUME NEW m \in Nat, NEW h, Turns(m, h)
        PROVE  \E g : Turns(m + 1, g)
    <2> DEFINE g == [n \in 0 .. m + 1 |-> IF n <= m THEN h[n] ELSE G[h[m]]]
    <2>1. m \in 0 .. m /\ h[m] \in D /\ G[h[m]] \in D
      BY <1>2 DEF Iterates
    <2>2. \A n \in 0 .. m + 1 : g[n] = (IF n <= m THEN h[n] ELSE G[h[m]]) /\ g[n] \in D
      BY <1>2, <2>1 DEF Iterates
    <2>3. g \in [0 .. m + 1 -> D]
      BY <2>2
    <2>4. ASSUME NEW n \in 0 .. m + 1
          PROVE  g[n] = IF n = 0 THEN x ELSE G[g[n - 1]]
      <3>1. n # 0 => n - 1 \in 0 .. m + 1 /\ n - 1 <= m
        OBVIOUS
      <3>2. CASE n <= m
        <4>1. n \in 0 .. m
          BY <3>2
        <4> QED
          BY <1>2, <2>2, <3>1, <3>2, <4>1 DEF Iterates
      <3>3. CASE ~ (n <= m)
        <4>1. n # 0 /\ n - 1 = m
          BY <3>3
        <4> QED
          BY <2>2, <3>1, <3>3, <4>1
      <3> QED
        BY <3>2, <3>3
    <2> QED
      BY <2>3, <2>4 DEF Iterates
  <1> HIDE DEF Turns
  <1>3. \A m \in Nat : m \in S => m + 1 \in S
    BY <1>2
  <1> HIDE DEF S
  <1>4. \A m \in Nat : m \in S
    BY <1>1, <1>3, Induction
  <1> QED
    BY <1>4 DEF S, Turns
=============================================================================
