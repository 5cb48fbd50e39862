------------------------------ MODULE Induction ------------------------------
(***************************************************************************)
(* Induction on the natural numbers, stated for sets, so that a proof can  *)
(* cite it by name and give the set of the numbers for which its claim     *)
(* holds; and what it gives for recursive definitions: a function defined  *)
(* by recursion on an initial segment exists.                              *)
(***************************************************************************)
EXTENDS Integers, Sequences, WellFoundedInduction, TLAPS

\* A set of natural numbers that is not empty has a least element.
LEMMA LeastNatural ==
  ASSUME NEW T, T \subseteq Nat, T # {}
  PROVE  \E x \in T : \A y \in T : x <= y
<1> DEFINE R == OpToRel(<, Nat)
<1>1. IsWellFoundedOn(R, Nat)
  BY NatLessThanWellFounded
<1>2. PICK x \in T : \A y \in T : ~(<<y, x>> \in R)
  <2> HIDE DEF R
  <2> QED  BY <1>1, WFMin
<1>3. \A y \in T : ~(y < x)
  BY <1>2 DEF OpToRel
<1> QED  BY <1>3

\* A set of indices that is not empty has a greatest element.
LEMMA GreatestIndex ==
  ASSUME NEW n \in Nat, NEW I, I \subseteq 0 .. n, I # {}
  PROVE  \E x \in I : \A y \in I : y <= x
<1> DEFINE T == {k \in Nat : n - k \in I}
<1>1. T # {}
  <2>1. PICK y \in I : TRUE
    OBVIOUS
  <2>2. n - y \in Nat /\ n - (n - y) = y
    OBVIOUS
  <2> QED  BY <2>1, <2>2
<1>2. PICK k \in T : \A l \in T : k <= l
  <2>1. T \subseteq Nat
    OBVIOUS
  <2> HIDE DEF T
  <2> QED  BY <1>1, <2>1, LeastNatural
<1>3. \A y \in I : n - y \in T
  OBVIOUS
<1>4. ASSUME NEW y \in I PROVE y <= n - k
  <2>1. n - y \in T /\ k <= n - y /\ k \in Int /\ y \in Int
    BY <1>2, <1>3
  <2> QED  BY <2>1
<1> QED  BY <1>2, <1>4

\* What holds of 0, and of n + 1 when it holds of n, holds of every number.
LEMMA NaturalInduction ==
  ASSUME NEW S, 0 \in S, \A n \in Nat : n \in S => n + 1 \in S
  PROVE  Nat \subseteq S
<1> SUFFICES ASSUME Nat \ S # {} PROVE FALSE
  OBVIOUS
<1>1. PICK x \in Nat \ S : \A y \in Nat \ S : x <= y
  BY LeastNatural
<1>2. x # 0 /\ x - 1 \in Nat /\ x - 1 \notin Nat \ S
  BY <1>1
<1> QED  BY <1>2

\* The same up to a bound.
LEMMA BoundedInduction ==
  ASSUME NEW n \in Nat, NEW S, 0 \in S, \A i \in 1 .. n : i - 1 \in S => i \in S
  PROVE  0 .. n \subseteq S
<1> SUFFICES ASSUME (0 .. n) \ S # {} PROVE FALSE
  OBVIOUS
<1>1. (0 .. n) \ S \subseteq Nat
  OBVIOUS
<1>2. PICK x \in (0 .. n) \ S : \A y \in (0 .. n) \ S : x <= y
  BY <1>1, LeastNatural
<1>3. x \in 1 .. n /\ x - 1 \notin (0 .. n) \ S
  BY <1>2
<1> QED  BY <1>3

\* step takes each value in S to the next one, in n steps.
IsStep(step, n, S) == step \in [1 .. n -> [S -> S]]

\* f is defined by recursion on 0 .. n: it starts with c and takes the step i
\* from its value at i - 1.
IsRecursive(f, n, S, c, step) ==
  /\ f \in [0 .. n -> S]
  /\ f[0] = c
  /\ \A i \in 1 .. n : f[i] = step[i][f[i - 1]]

\* Such a function exists.
LEMMA Recursion ==
  ASSUME NEW n \in Nat, NEW S, NEW c \in S, NEW step, IsStep(step, n, S)
  PROVE  \E f : IsRecursive(f, n, S, c, step)
<1> DEFINE Follows(f, m) == f[0] = c /\ \A i \in 1 .. m : f[i] = step[i][f[i - 1]]
           Done == {m \in 0 .. n : \E f \in [0 .. m -> S] : Follows(f, m)}
<1>1. 0 \in Done
  <2>1. [i \in 0 .. 0 |-> c] \in [0 .. 0 -> S] /\ Follows([i \in 0 .. 0 |-> c], 0)
    OBVIOUS
  <2> HIDE DEF Follows
  <2>2. \E f \in [0 .. 0 -> S] : Follows(f, 0)
    BY <2>1
  <2> QED  BY <2>2
<1>2. ASSUME NEW m \in 1 .. n, m - 1 \in Done
      PROVE  m \in Done
  <2>1. PICK f \in [0 .. m - 1 -> S] : Follows(f, m - 1)
    BY <1>2
  <2> DEFINE g == [i \in 0 .. m |-> IF i = m THEN step[m][f[m - 1]] ELSE f[i]]
  <2>2. step[m] \in [S -> S] /\ m - 1 \in 0 .. m - 1
    BY DEF IsStep
  <2>3. f[m - 1] \in S
    BY <2>2
  <2>4. step[m][f[m - 1]] \in S
    BY <2>2, <2>3
  <2>5. \A i \in 0 .. m : i # m => i \in 0 .. m - 1
    OBVIOUS
  <2>6. g \in [0 .. m -> S]
    BY <2>4, <2>5
  <2>7. g[0] = c
    BY <2>1
  <2>8. ASSUME NEW i \in 1 .. m PROVE g[i] = step[i][g[i - 1]]
    <3>1. i - 1 \in 0 .. m /\ i - 1 # m /\ i \in 0 .. m /\ (i # m => i \in 1 .. m - 1)
      OBVIOUS
    <3>2. g[i - 1] = f[i - 1]
      BY <3>1
    <3>3. CASE i = m
      BY <3>1, <3>2, <3>3
    <3>4. CASE i # m
      <4>1. g[i] = f[i] /\ f[i] = step[i][f[i - 1]]
        BY <2>1, <3>1, <3>4
      <4> QED  BY <3>2, <4>1
    <3> QED  BY <3>3, <3>4
  <2> HIDE DEF g
  <2>9. Follows(g, m)
    BY <2>7, <2>8
  <2> HIDE DEF Follows
  <2>10. \E h \in [0 .. m -> S] : Follows(h, m)
    BY <2>6, <2>9
  <2> QED  BY <2>10
<1>3. n \in Done
  <2> HIDE DEF Done
  <2>1. 0 .. n \subseteq Done
    BY <1>1, <1>2, BoundedInduction
  <2> QED  BY <2>1
<1> QED  BY <1>3 DEF IsRecursive
==============================================================================
