--------------------------- MODULE NaturalRecursion ---------------------------
(***************************************************************************)
(* Induction and recursion over the natural numbers, for the proofs about  *)
(* operators that walk along a sequence or go round a bounded number of    *)
(* times.  The library's induction theorems take an operator; these take a *)
(* set of numbers and a function.                                          *)
(***************************************************************************)
EXTENDS Naturals, WellFoundedInduction, TLAPS

\* A nonempty set of natural numbers has a least element.
LEMMA LeastNat ==
    ASSUME NEW T \in SUBSET Nat, T # {}
    PROVE  \E x \in T : \A y \in T : x <= y
<1>0. PICK R : R = OpToRel(<, Nat)
  OBVIOUS
<1>1. IsWellFoundedOn(R, Nat)
  BY <1>0, NatLessThanWellFounded
<1>2. PICK x \in T : \A y \in T : ~(<<y, x>> \in R)
  BY <1>1, WFMin
<1>3. ASSUME NEW y \in T, y < x
      PROVE  FALSE
  <2>1. <<y, x>> \in R
    BY <1>0, <1>3 DEF OpToRel
  <2> QED
    BY <1>2, <2>1
<1> HIDE <1>0
<1>4. \A y \in T : x <= y
  BY <1>3
<1> QED
  BY <1>4

\* A set with 0 and the successors of its numbers has every number.
LEMMA NatInduct ==
    ASSUME NEW S, 0 \in S, \A n \in Nat : n \in S => n + 1 \in S
    PROVE  Nat \subseteq S
<1> DEFINE T == Nat \ S
<1>1. SUFFICES ASSUME T # {} PROVE FALSE
  OBVIOUS
<1>2. PICK x \in T : \A y \in T : x <= y
  <2>1. T \in SUBSET Nat
    OBVIOUS
  <2> HIDE DEF T
  <2> QED
    BY <1>1, <2>1, LeastNat
<1>3. x \in Nat \ {0} /\ x - 1 \in Nat
  OBVIOUS
<1>4. x - 1 \in S
  BY <1>2, <1>3
<1> QED
  BY <1>3, <1>4

\* f is defined from v0 by n steps.
Recursive(f, n, v0, step) ==
    f[0] = v0 /\ \A i \in 1..n : f[i] = step[<<i, f[i - 1]>>]

\* A recursive definition over 0..n has a value: the function it describes.
LEMMA Recursion ==
    ASSUME NEW V, NEW n \in Nat, NEW v0 \in V, NEW step \in [(1..n) \X V -> V]
    PROVE  \E f \in [0..n -> V] : Recursive(f, n, v0, step)
<1> DEFINE Upto(m, f) ==
        f \in [0..m -> V] /\ f[0] = v0 /\ \A i \in 1..m : f[i] = step[<<i, f[i - 1]>>]
    P(m) == m <= n => \E f : Upto(m, f)
    S == {m \in Nat : P(m)}
<1>1. P(0)
  <2>1. Upto(0, [i \in 0..0 |-> v0])
    OBVIOUS
  <2> QED
    BY <2>1
<1>2. ASSUME NEW m \in Nat, P(m)
      PROVE  P(m + 1)
  <2>1. SUFFICES ASSUME m + 1 <= n
                 PROVE  \E f : Upto(m + 1, f)
    OBVIOUS
  <2>2. PICK f : Upto(m, f)
    BY <1>2, <2>1
  <2>3. f[m] \in V /\ step[<<m + 1, f[m]>>] \in V
    BY <2>1, <2>2
  <2>4. DEFINE g == [i \in 0..(m + 1) |-> IF i = m + 1 THEN step[<<m + 1, f[m]>>] ELSE f[i]]
  <2>5. g \in [0..(m + 1) -> V]
    BY <2>2, <2>3
  <2>6. g[0] = v0
    BY <2>2
  <2>7. \A i \in 1..(m + 1) : g[i] = step[<<i, g[i - 1]>>]
    <3>1. ASSUME NEW i \in 1..m
          PROVE  g[i] = step[<<i, g[i - 1]>>]
      BY <2>2
    <3>2. g[m + 1] = step[<<m + 1, g[m]>>]
      <4>1. m \in 0..(m + 1) /\ m # m + 1 /\ m + 1 \in 0..(m + 1)
        OBVIOUS
      <4>2. g[m] = f[m]
        BY <4>1
      <4>3. g[m + 1] = step[<<m + 1, f[m]>>]
        BY <4>1
      <4> QED
        BY <4>2, <4>3
    <3>3. \A i \in 1..(m + 1) : i \in 1..m \/ i = m + 1
      OBVIOUS
    <3> HIDE DEF g
    <3> QED
      BY <3>1, <3>2, <3>3
  <2> QED
    BY <2>5, <2>6, <2>7
<1>3. \A m \in Nat : P(m)
  <2>1. 0 \in S /\ \A m \in Nat : m \in S => m + 1 \in S
    <3> HIDE DEF P
    <3> QED
      BY <1>1, <1>2
  <2>2. Nat \subseteq S
    <3> HIDE DEF S
    <3> QED
      BY <2>1, NatInduct
  <2> HIDE DEF P
  <2> QED
    BY <2>2
<1>4. \E f : Upto(n, f)
  <2> HIDE DEF Upto
  <2> QED
    BY <1>3
<1> QED
  BY <1>4 DEF Recursive
=============================================================================
