------------------------------- MODULE Recursion -------------------------------
(***************************************************************************)
(* Induction over the naturals, and functions defined by recursion, from   *)
(* the fact that < is well-founded on them.  Sets take the place of the    *)
(* predicates of the library's NatInduction, and a function of the step    *)
(* that of the operator of its NatInductiveDef.                            *)
(***************************************************************************)
EXTENDS Integers, WellFoundedInduction, TLAPS

\* A set of naturals has a least element.
LEMMA LeastNatural ==
  ASSUME NEW T, T \subseteq Nat, T # {}
  PROVE  \E x \in T : \A y \in T : x <= y
<1>. DEFINE R == OpToRel(<, Nat)
<1>1. IsWellFoundedOn(R, Nat)
  BY NatLessThanWellFounded
<1>2. \A x, y \in Nat : y < x => <<y, x>> \in R
  BY DEF OpToRel
<1>. HIDE DEF R
<1>3. \E x \in T : \A y \in T : ~ (<<y, x>> \in R)
  BY <1>1, WFMin
<1>. PICK x \in T : \A y \in T : ~ (<<y, x>> \in R)
  BY <1>3
<1>4. ASSUME NEW y \in T PROVE x <= y
  <2>1. x \in Nat /\ y \in Nat /\ <<y, x>> \notin R
    OBVIOUS
  <2>2. ~(y < x)
    BY <1>2, <2>1
  <2>. QED BY <2>1, <2>2
<1>. QED BY <1>4

\* A set that has 0 and with n also n + 1 has every natural.
LEMMA Induction ==
  ASSUME NEW S, 0 \in S, \A n \in Nat : n \in S => n + 1 \in S
  PROVE  Nat \subseteq S
<1>. SUFFICES ASSUME Nat \ S # {} PROVE FALSE
  OBVIOUS
<1>. PICK m \in Nat \ S : \A n \in Nat \ S : m <= n
  BY LeastNatural
<1>1. m # 0 /\ m - 1 \in Nat /\ m - 1 \in S
  OBVIOUS
<1>2. (m - 1) + 1 \in S
  BY <1>1
<1>. QED BY <1>2

\* f is a function on 0..n, given by its first value and how each follows from
\* the one before it.
Recurs(V, n, base, step, f) ==
  /\ f \in [0..n -> V]
  /\ f[0] = base
  /\ \A i \in 1..n : f[i] = step[i][f[i - 1]]

\* It can be continued.
LEMMA RecursionStep ==
  ASSUME NEW V, NEW N \in Nat, NEW base \in V, NEW step \in [1..N -> [V -> V]],
         NEW n \in Nat, n + 1 <= N, NEW f, Recurs(V, n, base, step, f)
  PROVE  \E g : Recurs(V, n + 1, base, step, g)
<1>. DEFINE v == step[n + 1][f[n]]
            g == [i \in 0..(n + 1) |-> IF i = n + 1 THEN v ELSE f[i]]
<1>1. v \in V
  <2>1. n + 1 \in 1..N /\ n \in 0..n
    OBVIOUS
  <2>2. f[n] \in V
    BY <2>1 DEF Recurs
  <2>. QED BY <2>1, <2>2
<1>2. \A i \in 0..n : f[i] \in V
  BY DEF Recurs
<1>3. g \in [0..(n + 1) -> V]
  <2>. HIDE DEF v
  <2>. QED BY <1>1, <1>2
<1>4. g[0] = base
  <2>. HIDE DEF v
  <2>. QED BY DEF Recurs
<1>5. ASSUME NEW i \in 1..(n + 1) PROVE g[i] = step[i][g[i - 1]]
  <2>1. g[i - 1] = f[i - 1]
    <3>. HIDE DEF v
    <3>. QED OBVIOUS
  <2>2. CASE i = n + 1
    <3>1. g[i] = v
      <4>. HIDE DEF v
      <4>. QED BY <2>2
    <3>. QED BY <2>1, <2>2, <3>1
  <2>3. CASE i # n + 1
    <3>1. g[i] = f[i] /\ i \in 1..n
      <4>. HIDE DEF v
      <4>. QED BY <2>3
    <3>. QED BY <2>1, <3>1 DEF Recurs
  <2>. QED BY <2>2, <2>3
<1>. HIDE DEF g
<1>. QED BY <1>3, <1>4, <1>5 DEF Recurs

\* There is one for every bound.
LEMMA Recursion ==
  ASSUME NEW V, NEW N \in Nat, NEW base \in V, NEW step \in [1..N -> [V -> V]]
  PROVE  \E f : Recurs(V, N, base, step, f)
<1>. DEFINE S == {n \in Nat : n <= N => \E f : Recurs(V, n, base, step, f)}
<1>1. 0 \in S
  <2>1. Recurs(V, 0, base, step, [i \in 0..0 |-> base])
    BY DEF Recurs
  <2>. QED BY <2>1
<1>2. ASSUME NEW n \in Nat, n \in S PROVE n + 1 \in S
  <2>. SUFFICES ASSUME n + 1 <= N PROVE \E g : Recurs(V, n + 1, base, step, g)
    OBVIOUS
  <2>. PICK f : Recurs(V, n, base, step, f)
    BY <1>2
  <2>. QED BY RecursionStep
<1>3. N \in S
  <2>. HIDE DEF S
  <2>. QED BY <1>1, <1>2, Induction
<1>. QED BY <1>3
================================================================================
