------------------------- MODULE CatalogBuildProofs -------------------------
(***************************************************************************)
(* The walks of the builder and of pup, and one run on a whole catalogue,  *)
(* for every graph: what a walk returns is a plan of what its names lead   *)
(* to, it fails exactly on an unknown name or a cycle, and a failed build  *)
(* costs what is built on it and nothing else.                             *)
(*                                                                         *)
(* First the reference, which is a recursion over the graph; then the      *)
(* walks, one turn of a loop at a time; then the run.                      *)
(***************************************************************************)
EXTENDS CatalogBuild, NaturalRecursion, FiniteSetTheorems, SequenceTheorems

-----------------------------------------------------------------------------
(* The reference.                                                          *)

\* T leads nowhere else.
IsClosed(h, T) == \A n \in T \cap DOMAIN h : h[n] \subseteq T

\* One round adds nothing exactly to a set that leads nowhere else.
LEMMA GrownIsClosed ==
    ASSUME NEW h, NEW T
    PROVE  T \subseteq Grown(h, T) /\ (Grown(h, T) = T <=> IsClosed(h, T))
  BY DEF Grown, Children, IsClosed

Reaches(reach, h, S) ==
    reach[0] = S /\ \A i \in 1..(Cardinality(DOMAIN h) + 1) :
                       reach[i] = Grown(h, reach[i - 1])

\* The recursion of Closure, as a function that exists.
LEMMA ClosureRecursion ==
    ASSUME NEW h, IsFiniteSet(DOMAIN h), NEW S
    PROVE  \E reach : /\ Reaches(reach, h, S)
                      /\ Closure(h, S) = reach[Cardinality(DOMAIN h) + 1]
<1> DEFINE n == Cardinality(DOMAIN h) + 1
    U == S \cup UNION {h[m] : m \in DOMAIN h}
    V == SUBSET U
    step == [p \in (1..n) \X V |-> Grown(h, p[2])]
    Is(f) == f = [i \in 0..n |-> IF i = 0 THEN S ELSE Grown(h, f[i - 1])]
<1>1. n \in Nat
  BY FS_CardinalityType
<1>2. S \in V /\ step \in [(1..n) \X V -> V]
  <2>1. ASSUME NEW v \in V PROVE Grown(h, v) \in V
    BY DEF Grown, Children
  <2> HIDE DEF V, n
  <2>2. step \in [(1..n) \X V -> V]
    BY <2>1
  <2> QED
    BY <2>2 DEF V
<1>3. PICK f \in [0..n -> V] : Recursive(f, n, S, step)
  <2> HIDE DEF step, n, V
  <2> QED
    BY <1>1, <1>2, Recursion
<1>4. f[0] = S /\ \A i \in 1..n : f[i] = Grown(h, f[i - 1])
  <2>0. f[0] = S
    BY <1>3 DEF Recursive
  <2> SUFFICES \A i \in 1..n : f[i] = Grown(h, f[i - 1])
    BY <2>0
  <2> TAKE i \in 1..n
  <2> HIDE DEF n, V
  <2>1. i - 1 \in 0..n
    BY <1>1
  <2>2. f[i - 1] \in V
    BY <1>3, <2>1
  <2> QED
    BY <1>3, <2>2 DEF Recursive
<1>5. Is(f)
  <2> HIDE DEF n, V
  <2> QED
    BY <1>1, <1>3, <1>4
<1>6. PICK reach : Is(reach) /\ reach = CHOOSE g : Is(g)
  BY <1>5
<1>7. Closure(h, S) = reach[n]
  BY <1>6 DEF Closure
<1>8. reach[0] = S /\ \A i \in 1..n : reach[i] = Grown(h, reach[i - 1])
  <2> HIDE DEF n
  <2>1. ASSUME NEW i \in 0..n
        PROVE  reach[i] = IF i = 0 THEN S ELSE Grown(h, reach[i - 1])
    BY <1>6
  <2>2. 0 \in 0..n /\ \A i \in 1..n : i \in 0..n /\ i # 0
    BY <1>1
  <2> HIDE DEF Is
  <2> QED
    BY <2>1, <2>2
<1> QED
  BY <1>7, <1>8 DEF Reaches

\* What S leads to holds S, leads nowhere else, and is the least such set.
LEMMA ClosureIsLeast ==
    ASSUME NEW h, IsFiniteSet(DOMAIN h), NEW S
    PROVE  /\ S \subseteq Closure(h, S)
           /\ IsClosed(h, Closure(h, S))
           /\ \A T : S \subseteq T /\ IsClosed(h, T) => Closure(h, S) \subseteq T
<1> DEFINE D == DOMAIN h
           n == Cardinality(D)
<1>1. n \in Nat
  BY FS_CardinalityType
<1>2. PICK reach : Reaches(reach, h, S) /\ Closure(h, S) = reach[n + 1]
  BY ClosureRecursion
<1>3. reach[0] = S /\ \A i \in 0..n : reach[i + 1] = Grown(h, reach[i])
  <2>1. reach[0] = S /\ \A i \in 1..(n + 1) : reach[i] = Grown(h, reach[i - 1])
    BY <1>2 DEF Reaches
  <2> HIDE DEF n
  <2>2. \A i \in 0..n : i + 1 \in 1..(n + 1) /\ (i + 1) - 1 = i
    BY <1>1
  <2> QED
    BY <2>1, <2>2
<1> HIDE DEF n
<1>4. S \subseteq Closure(h, S)
  <2> DEFINE P == {i \in Nat : i <= n + 1 => S \subseteq reach[i]}
  <2>1. 0 \in P
    BY <1>3
  <2>2. ASSUME NEW i \in Nat, i \in P
        PROVE  i + 1 \in P
    <3>1. SUFFICES ASSUME i + 1 <= n + 1 PROVE S \subseteq reach[i + 1]
      OBVIOUS
    <3>2. i \in 0..n /\ S \subseteq reach[i]
      BY <1>1, <2>2, <3>1
    <3> QED
      BY <1>3, <3>2, GrownIsClosed
  <2>3. Nat \subseteq P
    <3> HIDE DEF P
    <3> QED
      BY <2>1, <2>2, NatInduct
  <2> QED
    BY <1>1, <1>2, <2>3
<1>5. ASSUME NEW T, S \subseteq T, IsClosed(h, T)
      PROVE  Closure(h, S) \subseteq T
  <2> DEFINE P == {i \in Nat : i <= n + 1 => reach[i] \subseteq T}
  <2>1. 0 \in P
    BY <1>3, <1>5
  <2>2. ASSUME NEW i \in Nat, i \in P
        PROVE  i + 1 \in P
    <3>1. SUFFICES ASSUME i + 1 <= n + 1 PROVE reach[i + 1] \subseteq T
      OBVIOUS
    <3>2. i \in 0..n /\ reach[i] \subseteq T
      BY <1>1, <2>2, <3>1
    <3>3. Grown(h, reach[i]) \subseteq T
      BY <1>5, <3>2 DEF Grown, Children, IsClosed
    <3> QED
      BY <1>3, <3>2, <3>3
  <2>3. Nat \subseteq P
    <3> HIDE DEF P
    <3> QED
      BY <2>1, <2>2, NatInduct
  <2> QED
    BY <1>1, <1>2, <2>3
<1>6. IsClosed(h, Closure(h, S))
  \* Every set of the chain is the last one or has another known name.
  <2> DEFINE count(i) == Cardinality(reach[i] \cap D)
             P == {i \in Nat : i <= n + 1 => IsClosed(h, reach[i]) \/ count(i) >= i}
  <2>0. \A T : IsFiniteSet(T \cap D) /\ Cardinality(T \cap D) \in Nat
    <3> TAKE T
    <3>1. IsFiniteSet(T \cap D)
      BY FS_Intersection
    <3> QED
      BY <3>1, FS_CardinalityType
  <2>1. 0 \in P
    BY <2>0
  <2>2. ASSUME NEW i \in Nat, i \in P
        PROVE  i + 1 \in P
    <3>1. SUFFICES ASSUME i + 1 <= n + 1
                   PROVE  IsClosed(h, reach[i + 1]) \/ count(i + 1) >= i + 1
      OBVIOUS
    <3>2. i \in 0..n /\ (IsClosed(h, reach[i]) \/ count(i) >= i)
      BY <1>1, <2>2, <3>1
    <3>3. reach[i + 1] = Grown(h, reach[i]) /\ reach[i] \subseteq reach[i + 1]
      BY <1>3, <3>2, GrownIsClosed
    <3>4. CASE IsClosed(h, reach[i])
      <4>1. reach[i + 1] = reach[i]
        BY <3>3, <3>4, GrownIsClosed
      <4> QED
        BY <3>4, <4>1
    <3>5. CASE ~IsClosed(h, reach[i]) /\ reach[i] \cap D = reach[i + 1] \cap D
      <4>1. IsClosed(h, reach[i + 1])
        <5> SUFFICES ASSUME NEW m \in reach[i + 1] \cap D
                     PROVE  h[m] \subseteq reach[i + 1]
          BY DEF IsClosed
        <5>1. m \in reach[i] \cap D
          BY <3>5
        <5> QED
          BY <3>3, <5>1 DEF Grown, Children
      <4> QED
        BY <4>1
    <3>6. CASE ~IsClosed(h, reach[i]) /\ reach[i] \cap D # reach[i + 1] \cap D
      <4>1. count(i) <= count(i + 1) /\ count(i) # count(i + 1)
        <5> DEFINE A == reach[i] \cap D
                   B == reach[i + 1] \cap D
        <5>1. IsFiniteSet(B) /\ A \in SUBSET B /\ A # B
          BY <2>0, <3>3, <3>6
        <5> HIDE DEF A, B
        <5>2. Cardinality(A) <= Cardinality(B) /\ Cardinality(B) # Cardinality(A)
          BY <5>1, FS_Subset
        <5> QED
          BY <5>2 DEF A, B
      <4>2. count(i) >= i /\ count(i) \in Nat /\ count(i + 1) \in Nat
        BY <2>0, <3>2, <3>6
      <4> HIDE DEF count
      <4> QED
        BY <4>1, <4>2
    <3> QED
      BY <3>4, <3>5, <3>6
  <2>3. Nat \subseteq P
    <3> HIDE DEF P
    <3> QED
      BY <2>1, <2>2, NatInduct
  <2>4. IsClosed(h, reach[n + 1]) \/ count(n + 1) >= n + 1
    BY <1>1, <2>3
  <2>5. count(n + 1) <= n
    <3>1. reach[n + 1] \cap D \in SUBSET D
      OBVIOUS
    <3> QED
      BY <3>1, FS_Subset DEF n
  <2>6. count(n + 1) \in Nat
    BY <2>0
  <2> HIDE DEF count
  <2> QED
    BY <1>1, <1>2, <2>4, <2>5, <2>6
<1> QED
  BY <1>4, <1>5, <1>6

-----------------------------------------------------------------------------
(* Orders.                                                                 *)

\* Each package once, and after what it needs.
IsOrder(h, out) ==
    /\ \A i, j \in 1..Len(out) : out[i] = out[j] => i = j
    /\ \A i \in 1..Len(out) :
          /\ out[i] \in DOMAIN h
          /\ h[out[i]] \subseteq {out[j] : j \in 1..(i - 1)}

\* The elements of a list, and of a longer one.
LEMMA RangeIsElements ==
    ASSUME NEW C, NEW s \in Seq(C)
    PROVE  /\ Range(s) = {s[i] : i \in 1..Len(s)} /\ Range(s) \subseteq C
           /\ \A x \in C : Range(Append(s, x)) = Range(s) \cup {x}
<1>1. DOMAIN s = 1..Len(s) /\ \A i \in 1..Len(s) : s[i] \in C
  OBVIOUS
<1>2. Range(s) = {s[i] : i \in 1..Len(s)} /\ Range(s) \subseteq C
  BY <1>1 DEF Range
<1>3. ASSUME NEW x \in C
      PROVE  Range(Append(s, x)) = Range(s) \cup {x}
  <2> DEFINE t == Append(s, x)
  <2>1. /\ Len(s) \in Nat /\ DOMAIN t = 1..(Len(s) + 1) /\ t[Len(s) + 1] = x
        /\ \A i \in 1..Len(s) : t[i] = s[i]
    OBVIOUS
  <2> HIDE DEF t
  <2>2. 1..(Len(s) + 1) = (1..Len(s)) \cup {Len(s) + 1}
    BY <2>1
  <2>3. Range(t) = {t[i] : i \in 1..Len(s)} \cup {x}
    BY <2>1, <2>2 DEF Range
  <2>4. {t[i] : i \in 1..Len(s)} = Range(s)
    BY <1>2, <2>1
  <2> QED
    BY <2>3, <2>4 DEF t
<1> QED
  BY <1>2, <1>3

\* A package that comes after what it needs goes on an order.
LEMMA OrderAppend ==
    ASSUME NEW C, NEW h, NEW out \in Seq(C), IsOrder(h, out),
           NEW n \in C, n \in DOMAIN h, n \notin Range(out), h[n] \subseteq Range(out)
    PROVE  IsOrder(h, Append(out, n))
<1> DEFINE L == Len(out)
           t == Append(out, n)
<1>1. /\ L \in Nat /\ Len(t) = L + 1 /\ t[L + 1] = n
      /\ \A i \in 1..L : t[i] = out[i]
  OBVIOUS
<1>2. Range(out) = {out[i] : i \in 1..L}
  BY RangeIsElements
<1> HIDE DEF t, L
<1>3. \A i \in 1..(L + 1) : i \in 1..L \/ i = L + 1
  BY <1>1
<1>4. ASSUME NEW i \in 1..(L + 1), NEW j \in 1..(L + 1), t[i] = t[j]
      PROVE  i = j
  <2>1. \A k \in 1..L : t[k] # n
    BY <1>1, <1>2
  <2> QED
    BY <1>1, <1>3, <1>4, <2>1 DEF IsOrder, L
<1>5. ASSUME NEW i \in 1..(L + 1)
      PROVE  t[i] \in DOMAIN h /\ h[t[i]] \subseteq {t[j] : j \in 1..(i - 1)}
  <2>1. CASE i \in 1..L
    <3>1. \A j \in 1..(i - 1) : t[j] = out[j]
      BY <1>1, <2>1
    <3>2. out[i] \in DOMAIN h /\ h[out[i]] \subseteq {out[j] : j \in 1..(i - 1)}
      BY <2>1 DEF IsOrder, L
    <3> QED
      BY <1>1, <2>1, <3>1, <3>2
  <2>2. CASE i = L + 1
    <3>1. (L + 1) - 1 = L /\ {t[j] : j \in 1..L} = {out[j] : j \in 1..L}
      BY <1>1
    <3> QED
      BY <1>1, <1>2, <2>2, <3>1
  <2> QED
    BY <1>3, <2>1, <2>2
<1> QED
  BY <1>1, <1>4, <1>5 DEF IsOrder, t

\* An order is a plan of its packages, and nothing is missing or on a cycle.
LEMMA OrderIsPlan ==
    ASSUME NEW C, NEW h, IsFiniteSet(DOMAIN h), NEW out \in Seq(C), IsOrder(h, out)
    PROVE  /\ IsPlan(h, out, Range(out))
           /\ IsClosed(h, Range(out))
           /\ Resolvable(h, Range(out))
<1> DEFINE L == Len(out)
           R == Range(out)
<1>1. L \in Nat /\ R = {out[i] : i \in 1..L} /\ DOMAIN out = 1..L
  BY RangeIsElements
<1>2. \A i \in 1..L : out[i] \in DOMAIN h /\ h[out[i]] \subseteq {out[j] : j \in 1..(i - 1)}
  BY DEF IsOrder
<1>3. \A i \in 1..L : {out[j] : j \in 1..(i - 1)} \subseteq R
  BY <1>1
<1>4. IsClosed(h, R)
  BY <1>1, <1>2, <1>3 DEF IsClosed
<1>5. L = Cardinality(R)
  <2>1. out \in [1..L -> R]
    <3>1. out = [i \in 1..L |-> out[i]]
      OBVIOUS
    <3> HIDE DEF L, R
    <3> QED
      BY <1>1, <3>1
  <2>2. \A i, j \in 1..L : out[i] = out[j] => i = j
    BY DEF IsOrder
  <2> HIDE DEF L, R
  <2>3. out \in Bijection(1..L, R)
    BY <1>1, <2>1, <2>2 DEF Bijection, Injection, IsInjective, Surjection
  <2>4. ExistsBijection(1..L, R)
    BY <2>3 DEF ExistsBijection
  <2> QED
    BY <1>1, <2>4, FS_CountingElements
<1>6. Closure(h, R) = R
  BY <1>4, ClosureIsLeast
<1>7. ASSUME NEW i \in 1..L
      PROVE  ~OnCycle(h, out[i])
  <2> DEFINE T == {out[j] : j \in 1..(i - 1)}
  <2>1. Children(h, {out[i]}) \subseteq T
    BY <1>2 DEF Children
  <2>2. IsClosed(h, T)
    <3> SUFFICES ASSUME NEW j \in 1..(i - 1)
                 PROVE  h[out[j]] \subseteq T
      BY DEF IsClosed
    <3>1. j \in 1..L /\ \A k \in 1..(j - 1) : k \in 1..(i - 1)
      BY <1>1
    <3> QED
      BY <1>2, <3>1
  <2>3. out[i] \notin T
    <3>1. \A j \in 1..(i - 1) : j \in 1..L /\ j # i
      BY <1>1
    <3> QED
      BY <3>1 DEF IsOrder
  <2> HIDE DEF T
  <2>4. Closure(h, Children(h, {out[i]})) \subseteq T
    BY <2>1, <2>2, ClosureIsLeast
  <2> QED
    BY <2>3, <2>4 DEF OnCycle
<1>8. Resolvable(h, R)
  BY <1>1, <1>2, <1>6, <1>7 DEF Resolvable
<1> QED
  BY <1>2, <1>4, <1>5, <1>8 DEF IsPlan
KeepsAmong(kept, s, set) ==
    /\ kept[0] = <<>>
    /\ \A i \in 1..Len(s) :
          kept[i] = IF s[i] \in set THEN Append(kept[i - 1], s[i]) ELSE kept[i - 1]

\* The recursion of Among, as a function that exists.
LEMMA AmongRecursion ==
    ASSUME NEW C, NEW s \in Seq(C), NEW set
    PROVE  \E kept : KeepsAmong(kept, s, set) /\ Among(s, set) = kept[Len(s)]
<1> DEFINE n == Len(s)
    Step(i, v) == IF s[i] \in set THEN Append(v, s[i]) ELSE v
    step == [p \in (1..n) \X Seq(C) |-> Step(p[1], p[2])]
    Is(f) == f = [i \in 0..n |-> IF i = 0 THEN <<>> ELSE Step(i, f[i - 1])]
<1>1. n \in Nat
  OBVIOUS
<1>2. step \in [(1..n) \X Seq(C) -> Seq(C)]
  <2>1. \A i \in 1..n, v \in Seq(C) : Step(i, v) \in Seq(C)
    OBVIOUS
  <2> HIDE DEF Step, n
  <2> QED
    BY <2>1
<1>3. PICK f \in [0..n -> Seq(C)] : Recursive(f, n, <<>>, step)
  <2> DEFINE W == Seq(C)
        empty == <<>>
  <2>1. empty \in W /\ step \in [(1..n) \X W -> W]
    BY <1>2
  <2> HIDE DEF step, n, W, empty
  <2>2. \E f \in [0..n -> W] : Recursive(f, n, empty, step)
    BY <1>1, <2>1, Recursion
  <2> QED
    BY <2>2 DEF W, empty
<1>4. f[0] = <<>> /\ \A i \in 1..n : f[i] = Step(i, f[i - 1])
  <2>0. f[0] = <<>>
    BY <1>3 DEF Recursive
  <2> SUFFICES \A i \in 1..n : f[i] = Step(i, f[i - 1])
    BY <2>0
  <2> TAKE i \in 1..n
  <2> HIDE DEF Step, n
  <2>1. i - 1 \in 0..n
    BY <1>1
  <2>2. f[i - 1] \in Seq(C)
    BY <1>3, <2>1
  <2> QED
    BY <1>3, <2>2 DEF Recursive
<1>5. Is(f)
  <2> HIDE DEF Step, n
  <2> QED
    BY <1>1, <1>3, <1>4
<1>6. PICK kept : Is(kept) /\ kept = CHOOSE g : Is(g)
  BY <1>5
<1>7. Among(s, set) = kept[n]
  BY <1>6 DEF Among
<1>8. kept[0] = <<>> /\ \A i \in 1..n : kept[i] = Step(i, kept[i - 1])
  <2> HIDE DEF Step, n
  <2>1. ASSUME NEW i \in 0..n
        PROVE  kept[i] = IF i = 0 THEN <<>> ELSE Step(i, kept[i - 1])
    BY <1>6
  <2>2. 0 \in 0..n /\ \A i \in 1..n : i \in 0..n /\ i # 0
    BY <1>1
  <2> HIDE DEF Is
  <2> QED
    BY <2>1, <2>2
<1> QED
  BY <1>7, <1>8 DEF KeepsAmong

\* Among returns the elements of s that are in set; of an order it keeps an
\* order if what the set needs is in the set.
LEMMA AmongKeeps ==
    ASSUME NEW C, NEW s \in Seq(C), NEW set, NEW h
    PROVE  /\ Among(s, set) \in Seq(C)
           /\ Range(Among(s, set)) = Range(s) \cap set
           /\ IsOrder(h, s) /\ IsClosed(h, set) => IsOrder(h, Among(s, set))
<1> DEFINE n == Len(s)
<1>1. PICK kept : KeepsAmong(kept, s, set) /\ Among(s, set) = kept[n]
  BY AmongRecursion
<1>2. n \in Nat /\ (\A i \in 1..n : s[i] \in C) /\ Range(s) = {s[i] : i \in 1..n}
  BY RangeIsElements
<1>3. kept[0] = <<>>
  BY <1>1 DEF KeepsAmong
<1>4. ASSUME NEW i \in Nat, i < n
      PROVE  /\ s[i + 1] \in C
             /\ kept[i + 1] = IF s[i + 1] \in set THEN Append(kept[i], s[i + 1]) ELSE kept[i]
  <2>1. i + 1 \in 1..n /\ (i + 1) - 1 = i
    BY <1>2, <1>4
  <2> QED
    BY <1>1, <1>2, <2>1 DEF KeepsAmong
<1>5. \A i \in Nat : {s[j] : j \in 1..(i + 1)} = {s[j] : j \in 1..i} \cup {s[i + 1]}
  <2> TAKE i \in Nat
  <2>1. 1..(i + 1) = (1..i) \cup {i + 1}
    OBVIOUS
  <2> QED
    BY <2>1
<1> HIDE DEF n
<1> DEFINE P(i) == kept[i] \in Seq(C) /\ Range(kept[i]) = {s[j] : j \in 1..i} \cap set
<1>6. \A i \in Nat : i <= n => P(i)
  <2> DEFINE S == {k \in Nat : k <= n => P(k)}
  <2>1. 0 \in S
    <3>1. <<>> \in Seq(C) /\ Range(<<>>) = {} /\ 1..0 = {}
      BY DEF Range
    <3> QED
      BY <1>3, <3>1
  <2>2. ASSUME NEW k \in Nat, k \in S
        PROVE  k + 1 \in S
    <3>1. SUFFICES ASSUME k + 1 <= n
                   PROVE  /\ kept[k + 1] \in Seq(C)
                          /\ Range(kept[k + 1]) = {s[j] : j \in 1..(k + 1)} \cap set
      OBVIOUS
    <3>2. k < n
      BY <1>2, <3>1
    <3>3. kept[k] \in Seq(C) /\ Range(kept[k]) = {s[j] : j \in 1..k} \cap set
      BY <1>2, <2>2, <3>2
    <3>4. \A t \in Seq(C), x \in C :
             Append(t, x) \in Seq(C) /\ Range(Append(t, x)) = Range(t) \cup {x}
      BY RangeIsElements
    <3>5. /\ s[k + 1] \in C
          /\ kept[k + 1] = IF s[k + 1] \in set THEN Append(kept[k], s[k + 1]) ELSE kept[k]
      BY <1>4, <2>2, <3>2
    <3>6. {s[j] : j \in 1..(k + 1)} = {s[j] : j \in 1..k} \cup {s[k + 1]}
      BY <1>5, <2>2
    <3> QED
      BY <3>3, <3>4, <3>5, <3>6
  <2>3. Nat \subseteq S
    <3> HIDE DEF S
    <3> QED
      BY <2>1, <2>2, NatInduct
  <2> HIDE DEF P
  <2> QED
    BY <2>3
<1>7. ASSUME IsOrder(h, s), IsClosed(h, set)
      PROVE  IsOrder(h, kept[n])
  <2> DEFINE S == {k \in Nat : k <= n => IsOrder(h, kept[k])}
  <2>1. 0 \in S
    <3>1. IsOrder(h, <<>>)
      BY DEF IsOrder
    <3> QED
      BY <1>3, <3>1
  <2>2. ASSUME NEW k \in Nat, k \in S
        PROVE  k + 1 \in S
    <3>1. SUFFICES ASSUME k + 1 <= n
                   PROVE  IsOrder(h, kept[k + 1])
      OBVIOUS
    <3>2. k < n /\ IsOrder(h, kept[k])
      BY <1>2, <2>2, <3>1
    <3>3. kept[k] \in Seq(C) /\ Range(kept[k]) = {s[j] : j \in 1..k} \cap set
      <4>1. P(k)
        <5> HIDE DEF P
        <5> QED
          BY <1>2, <1>6, <2>2, <3>2
      <4> QED
        BY <4>1
    <3>4. CASE s[k + 1] \in set
      <4>1. k + 1 \in 1..n
        BY <1>2, <3>2
      <4>2. s[k + 1] \in DOMAIN h /\ h[s[k + 1]] \subseteq {s[j] : j \in 1..k}
        BY <1>7, <4>1 DEF IsOrder, n
      <4>3. h[s[k + 1]] \subseteq set
        BY <1>7, <3>4, <4>2 DEF IsClosed
      <4>4. s[k + 1] \notin {s[j] : j \in 1..k}
        <5>1. \A j \in 1..k : j \in 1..n /\ j # k + 1
          BY <1>2, <3>2
        <5> QED
          BY <1>7, <4>1, <5>1 DEF IsOrder, n
      <4>5. s[k + 1] \in C /\ kept[k + 1] = Append(kept[k], s[k + 1])
        BY <1>4, <3>2, <3>4
      <4>6. IsOrder(h, Append(kept[k], s[k + 1]))
        <5> DEFINE x == s[k + 1]
                   t == kept[k]
        <5>1. /\ t \in Seq(C) /\ IsOrder(h, t) /\ x \in C /\ x \in DOMAIN h
              /\ x \notin Range(t) /\ h[x] \subseteq Range(t)
          BY <3>2, <3>3, <4>2, <4>3, <4>4, <4>5
        <5> HIDE DEF x, t
        <5>2. IsOrder(h, Append(t, x))
          BY <5>1, OrderAppend
        <5> QED
          BY <5>2 DEF x, t
      <4> QED
        BY <4>5, <4>6
    <3>5. CASE s[k + 1] \notin set
      BY <1>4, <3>2, <3>5
    <3> QED
      BY <3>4, <3>5
  <2>3. Nat \subseteq S
    <3> HIDE DEF S
    <3> QED
      BY <2>1, <2>2, NatInduct
  <2> QED
    BY <1>2, <2>3
<1>8. kept[n] \in Seq(C) /\ Range(kept[n]) = Range(s) \cap set
  <2>1. P(n)
    <3> HIDE DEF P
    <3> QED
      BY <1>2, <1>6
  <2> QED
    BY <1>2, <2>1
<1> QED
  BY <1>1, <1>7, <1>8

-----------------------------------------------------------------------------
(* What one turn of a loop does to a walk.                                 *)

\* The walks over names of C.
Walks(C) ==
    {w \in [out : Seq(C), seen : SUBSET C, path : Seq(C), loops : Seq(Seq(C)),
            error : {"none", "cycle", "unknown"}] :
        Len(w.loops) = Len(w.path) + 1}

\* Both ends of a list.
LEMMA SequenceEnds ==
    ASSUME NEW C, NEW s \in Seq(C), s # <<>>
    PROVE  /\ Len(s) \in Nat \ {0}
           /\ Front(s) \in Seq(C) /\ Len(Front(s)) = Len(s) - 1
           /\ \A i \in 1..(Len(s) - 1) : Front(s)[i] = s[i]
           /\ Last(s) = s[Len(s)] /\ Last(s) \in C
           /\ Head(s) \in C /\ Tail(s) \in Seq(C)
           /\ Range(s) = Range(Tail(s)) \cup {Head(s)}
<1>1. Len(s) \in Nat \ {0}
  OBVIOUS
<1>2. /\ Front(s) \in Seq(C) /\ Len(Front(s)) = Len(s) - 1
      /\ \A i \in 1..(Len(s) - 1) : Front(s)[i] = s[i]
  <2>1. /\ 1 \in 1..(Len(s) + 1) /\ Len(s) - 1 \in 0..Len(s)
        /\ (Len(s) - 1) - 1 + 1 = Len(s) - 1
    BY <1>1
  <2> DEFINE m == Len(s) - 1
  <2>2. m \in 0..Len(s) /\ m - 1 + 1 = m
    BY <2>1
  <2> HIDE DEF m
  <2>3. SubSeq(s, 1, m) \in Seq(C) /\ Len(SubSeq(s, 1, m)) = m
        /\ \A i \in 1..m : SubSeq(s, 1, m)[i] = s[i]
    BY <1>1, <2>2
  <2> QED
    BY <2>3 DEF Front, m
<1>3. Last(s) = s[Len(s)] /\ Last(s) \in C
  BY <1>1 DEF Last
<1>4. Head(s) \in C /\ Tail(s) \in Seq(C)
  OBVIOUS
<1>5. Range(s) = Range(Tail(s)) \cup {Head(s)}
  <2> DEFINE t == Tail(s)
             n == Len(s)
  <2>1. n \in Nat \ {0} /\ Len(t) = n - 1 /\ Head(s) = s[1]
        /\ \A i \in 1..(n - 1) : t[i] = s[i + 1]
    OBVIOUS
  <2>2. Range(s) = {s[i] : i \in 1..n} /\ Range(t) = {t[i] : i \in 1..Len(t)}
    BY <1>4, RangeIsElements
  <2> HIDE DEF t, n
  <2>3. \A i \in 1..n : i = 1 \/ (i - 1 \in 1..(n - 1) /\ (i - 1) + 1 = i)
    BY <2>1
  <2>4. \A i \in 1..(n - 1) : i + 1 \in 1..n
    BY <2>1
  <2>5. 1 \in 1..n
    BY <2>1
  <2>6. Range(s) \subseteq Range(t) \cup {s[1]}
    <3> SUFFICES ASSUME NEW i \in 1..n PROVE s[i] \in Range(t) \cup {s[1]}
      BY <2>2
    <3>1. CASE i = 1
      BY <3>1
    <3>2. CASE i # 1
      <4>1. i - 1 \in 1..(n - 1) /\ t[i - 1] = s[i]
        BY <2>1, <2>3, <3>2
      <4> QED
        BY <2>1, <2>2, <4>1
    <3> QED
      BY <3>1, <3>2
  <2>7. Range(t) \cup {s[1]} \subseteq Range(s)
    BY <2>1, <2>2, <2>4, <2>5
  <2> QED
    BY <2>1, <2>6, <2>7 DEF t
<1> QED
  BY <1>1, <1>2, <1>3, <1>4, <1>5

\* A new walk over a list of known names.
LEMMA NewWalkIsAWalk ==
    ASSUME NEW C, NEW names \in Seq(C)
    PROVE  NewWalk(names) \in Walks(C)
<1> DEFINE V == Seq(C)
           W == Seq(V)
<1>1. <<>> \in Seq(C) /\ Len(<<>>) = 0
  OBVIOUS
<1>2. <<names>> \in W /\ Len(<<names>>) = 1
  OBVIOUS
<1> DEFINE w == NewWalk(names)
<1>3. /\ w.out = <<>> /\ w.seen = {} /\ w.path = <<>> /\ w.loops = <<names>>
      /\ w.error = "none"
      /\ w = [out |-> w.out, seen |-> w.seen, path |-> w.path, loops |-> w.loops,
              error |-> w.error]
  BY DEF NewWalk
<1> HIDE DEF w
<1>4. w \in [out : Seq(C), seen : SUBSET C, path : Seq(C), loops : W,
             error : {"none", "cycle", "unknown"}]
  <2> HIDE DEF W
  <2> QED
    BY <1>1, <1>2, <1>3
<1>5. Len(w.loops) = Len(w.path) + 1
  BY <1>1, <1>2, <1>3
<1> QED
  BY <1>4, <1>5 DEF Walks, w

\* What is under way has a loop of its own.
LEMMA UnderWay ==
    ASSUME NEW C, NEW w \in Walks(C)
    PROVE  /\ w.loops # <<>> /\ Rest(w) \in Seq(C)
           /\ Len(w.path) \in Nat /\ Len(w.loops) = Len(w.path) + 1
           /\ Rest(w) = w.loops[Len(w.path) + 1]
           /\ ~Ended(w) /\ Rest(w) = <<>> => w.path # <<>>
<1>1. Len(w.path) \in Nat /\ Len(w.loops) = Len(w.path) + 1 /\ w.loops \in Seq(Seq(C))
  BY DEF Walks
<1>2. w.loops # <<>>
  BY <1>1
<1>3. Rest(w) = w.loops[Len(w.path) + 1] /\ Rest(w) \in Seq(C)
  <2> DEFINE W == Seq(C)
             t == w.loops
  <2>1. t \in Seq(W) /\ t # <<>>
    BY <1>1, <1>2
  <2> HIDE DEF W, t
  <2>2. Last(t) = t[Len(t)] /\ Last(t) \in W
    BY <2>1, SequenceEnds
  <2> QED
    BY <1>1, <2>2 DEF W, t, Rest
<1>4. ASSUME ~Ended(w), Rest(w) = <<>>
      PROVE  w.path # <<>>
  <2>1. SUFFICES ASSUME w.path = <<>> PROVE FALSE
    OBVIOUS
  <2>2. Len(w.loops) = 1 /\ w.loops[1] = <<>>
    <3>1. Len(w.path) = 0
      BY <2>1
    <3>2. w.loops[Len(w.path) + 1] = <<>>
      BY <1>3, <1>4
    <3>3. Len(w.path) + 1 = 1
      BY <3>1
    <3> QED
      BY <1>1, <3>2, <3>3
  <2>3. w.loops = << <<>> >>
    BY <1>1, <2>2
  <2> QED
    BY <1>4, <2>3 DEF Ended
<1> QED
  BY <1>1, <1>2, <1>3, <1>4

\* The innermost visit ends, a loop goes on, another visit begins.
Left(w, v, L) ==
    /\ L \in Nat \ {0} /\ L = Len(w.path)
    /\ v.out = Append(w.out, w.path[L]) /\ v.seen = w.seen \cup {w.path[L]}
    /\ Len(v.path) = L - 1 /\ \A i \in 1..(L - 1) : v.path[i] = w.path[i]
    /\ \A i \in 1..L : v.loops[i] = w.loops[i]
    /\ v.error = w.error

Passed(w, v, L) ==
    /\ L \in Nat /\ L = Len(w.path)
    /\ v.out = w.out /\ v.seen = w.seen /\ v.path = w.path /\ v.error = w.error
    /\ \A i \in 1..L : v.loops[i] = w.loops[i]
    /\ v.loops[L + 1] = Tail(Rest(w))

Entered(w, v, L, n, children) ==
    /\ L \in Nat /\ L = Len(w.path)
    /\ v.out = w.out /\ v.seen = w.seen /\ v.error = w.error
    /\ Len(v.path) = L + 1 /\ v.path[L + 1] = n
    /\ \A i \in 1..L : v.path[i] = w.path[i]
    /\ \A i \in 1..L : v.loops[i] = w.loops[i]
    /\ v.loops[L + 1] = Tail(Rest(w)) /\ v.loops[L + 2] = children

\* What Leave does.
LEMMA LeaveEffect ==
    ASSUME NEW C, NEW w \in Walks(C), ~Ended(w), Rest(w) = <<>>
    PROVE  Leave(w) \in Walks(C) /\ Left(w, Leave(w), Len(w.path))
<1> DEFINE V == Seq(C)
           t == w.loops
<1>0. PICK v : v = Leave(w)
  OBVIOUS
<1>a. PICK L : L = Len(w.path)
  OBVIOUS
<1>1. /\ w.path # <<>> /\ w.path \in Seq(C) /\ t # <<>> /\ t \in Seq(V)
      /\ Len(t) = L + 1 /\ w.out \in Seq(C) /\ w.seen \in SUBSET C
      /\ w.error \in {"none", "cycle", "unknown"}
  BY <1>a, UnderWay DEF Walks
<1>2. /\ L \in Nat \ {0}
      /\ Front(w.path) \in Seq(C) /\ Len(Front(w.path)) = L - 1
      /\ \A i \in 1..(L - 1) : Front(w.path)[i] = w.path[i]
      /\ Last(w.path) = w.path[L] /\ Last(w.path) \in C
  BY <1>a, <1>1, SequenceEnds
<1> HIDE DEF V, t
<1>3. /\ Front(t) \in Seq(V) /\ Len(Front(t)) = L
      /\ \A i \in 1..L : Front(t)[i] = t[i]
  <2>1. /\ Front(t) \in Seq(V) /\ Len(Front(t)) = Len(t) - 1
        /\ \A i \in 1..(Len(t) - 1) : Front(t)[i] = t[i]
    BY <1>1, SequenceEnds
  <2>2. Len(t) - 1 = L
    BY <1>1, <1>2
  <2> QED
    BY <2>1, <2>2
<1>4. v = [out |-> Append(w.out, Last(w.path)), seen |-> w.seen \cup {Last(w.path)},
           path |-> Front(w.path), loops |-> Front(t), error |-> w.error]
  BY <1>0 DEF Leave, Walks, t
<1>5. Append(w.out, Last(w.path)) \in Seq(C) /\ w.seen \cup {Last(w.path)} \in SUBSET C
  BY <1>1, <1>2
<1>6. v \in Walks(C)
  <2>1. v \in [out : Seq(C), seen : SUBSET C, path : Seq(C), loops : Seq(V),
               error : {"none", "cycle", "unknown"}]
    BY <1>1, <1>2, <1>3, <1>4, <1>5
  <2>2. Len(v.loops) = Len(v.path) + 1
    BY <1>2, <1>3, <1>4
  <2> QED
    BY <2>1, <2>2 DEF Walks, V
<1>7. Left(w, v, L)
  BY <1>a, <1>2, <1>3, <1>4 DEF Left, t
<1> QED
  BY <1>0, <1>a, <1>6, <1>7

\* What Pass does.
LEMMA PassEffect ==
    ASSUME NEW C, NEW w \in Walks(C), Rest(w) # <<>>
    PROVE  Pass(w) \in Walks(C) /\ Passed(w, Pass(w), Len(w.path))
<1> DEFINE V == Seq(C)
           t == w.loops
           x == Tail(Rest(w))
<1>0. PICK v : v = Pass(w)
  OBVIOUS
<1>a. PICK L : L = Len(w.path)
  OBVIOUS
<1>1. /\ L \in Nat /\ t # <<>> /\ t \in Seq(V) /\ Len(t) = L + 1 /\ Rest(w) \in Seq(C)
      /\ w.path \in Seq(C) /\ w.out \in Seq(C) /\ w.seen \in SUBSET C
      /\ w.error \in {"none", "cycle", "unknown"}
  BY <1>a, UnderWay DEF Walks
<1>2. x \in V
  BY <1>1, SequenceEnds
<1>3. v = [out |-> w.out, seen |-> w.seen, path |-> w.path,
           loops |-> Append(Front(t), x), error |-> w.error]
  BY <1>0 DEF Pass, Walks
<1> HIDE DEF V, t, x
<1>4. /\ Front(t) \in Seq(V) /\ Len(Front(t)) = L
      /\ \A i \in 1..L : Front(t)[i] = t[i]
  <2>1. /\ Front(t) \in Seq(V) /\ Len(Front(t)) = Len(t) - 1
        /\ \A i \in 1..(Len(t) - 1) : Front(t)[i] = t[i]
    BY <1>1, SequenceEnds
  <2>2. Len(t) - 1 = L
    BY <1>1
  <2> QED
    BY <2>1, <2>2
<1>5. /\ Append(Front(t), x) \in Seq(V) /\ Len(Append(Front(t), x)) = L + 1
      /\ \A i \in 1..L : Append(Front(t), x)[i] = t[i]
      /\ Append(Front(t), x)[L + 1] = x
  <2> DEFINE f == Front(t)
  <2> HIDE DEF f
  <2>1. f \in Seq(V) /\ Len(f) = L /\ \A i \in 1..L : f[i] = t[i]
    BY <1>4 DEF f
  <2>2. /\ Append(f, x) \in Seq(V) /\ Len(Append(f, x)) = L + 1
        /\ \A i \in 1..L : Append(f, x)[i] = f[i]
        /\ Append(f, x)[L + 1] = x
    BY <1>2, <2>1
  <2> QED
    BY <2>1, <2>2 DEF f
<1>6. v \in Walks(C)
  <2>1. v \in [out : Seq(C), seen : SUBSET C, path : Seq(C), loops : Seq(V),
               error : {"none", "cycle", "unknown"}]
    BY <1>1, <1>3, <1>5
  <2>2. Len(v.loops) = Len(v.path) + 1
    BY <1>a, <1>1, <1>3, <1>5
  <2> QED
    BY <2>1, <2>2 DEF Walks, V
<1>7. Passed(w, v, L)
  BY <1>a, <1>1, <1>3, <1>5 DEF Passed, t, x
<1> QED
  BY <1>0, <1>a, <1>6, <1>7

\* What Enter does.
LEMMA EnterEffect ==
    ASSUME NEW C, NEW w \in Walks(C), Rest(w) # <<>>, NEW n \in C, NEW children \in Seq(C)
    PROVE  /\ Enter(w, n, children) \in Walks(C)
           /\ Entered(w, Enter(w, n, children), Len(w.path), n, children)
<1> DEFINE V == Seq(C)
           u == Pass(w)
           t == u.loops
<1>0. PICK v : v = Enter(w, n, children)
  OBVIOUS
<1>a. PICK L : L = Len(w.path)
  OBVIOUS
<1>1. /\ u \in Walks(C) /\ u.out = w.out /\ u.seen = w.seen /\ u.path = w.path
      /\ u.error = w.error /\ t[L + 1] = Tail(Rest(w))
      /\ \A i \in 1..L : t[i] = w.loops[i]
  <2>1. u \in Walks(C) /\ Passed(w, u, L)
    BY <1>a, PassEffect
  <2> HIDE DEF u
  <2> QED
    BY <2>1 DEF Passed
<1>2. v = [out |-> w.out, seen |-> w.seen, path |-> Append(w.path, n),
           loops |-> Append(t, children), error |-> w.error]
  BY <1>0 DEF Enter, Walks
<1> HIDE DEF u
<1>3. /\ w.path \in Seq(C) /\ w.out \in Seq(C) /\ w.seen \in SUBSET C /\ L \in Nat
      /\ w.error \in {"none", "cycle", "unknown"} /\ t \in Seq(V) /\ Len(t) = L + 1
  BY <1>a, <1>1, UnderWay DEF Walks
<1>4. /\ Append(w.path, n) \in Seq(C) /\ Len(Append(w.path, n)) = L + 1
      /\ Append(w.path, n)[L + 1] = n
      /\ \A i \in 1..L : Append(w.path, n)[i] = w.path[i]
  BY <1>a, <1>3
<1>5. /\ Append(t, children) \in Seq(V) /\ Len(Append(t, children)) = L + 2
      /\ Append(t, children)[L + 2] = children
      /\ \A i \in 1..(L + 1) : Append(t, children)[i] = t[i]
  <2>1. children \in V
    OBVIOUS
  <2> HIDE DEF V, t
  <2> QED
    BY <1>3, <2>1
<1> HIDE DEF t, V
<1>6. v \in Walks(C)
  <2>1. v \in [out : Seq(C), seen : SUBSET C, path : Seq(C), loops : Seq(V),
               error : {"none", "cycle", "unknown"}]
    BY <1>2, <1>3, <1>4, <1>5
  <2>2. Len(v.loops) = Len(v.path) + 1
    BY <1>2, <1>3, <1>4, <1>5
  <2> QED
    BY <2>1, <2>2 DEF Walks, V
<1>7. L + 1 \in 1..(L + 1) /\ \A i \in 1..L : i \in 1..(L + 1)
  BY <1>3
<1>8. Entered(w, v, L, n, children)
  BY <1>a, <1>1, <1>2, <1>3, <1>4, <1>5, <1>7 DEF Entered
<1> QED
  BY <1>0, <1>a, <1>6, <1>8

\* What Raise does.
LEMMA RaiseEffect ==
    ASSUME NEW C, NEW w \in Walks(C), NEW e \in {"cycle", "unknown"}
    PROVE  /\ Raise(w, e) \in Walks(C) /\ Raise(w, e).error = e
           /\ Raise(w, e).out = w.out /\ Raise(w, e).seen = w.seen
           /\ Raise(w, e).path = w.path /\ Raise(w, e).loops = w.loops
  BY DEF Raise, Walks

-----------------------------------------------------------------------------
(* visit of sort_dependencies, order_uploads and _resolve_packages.        *)

ListGraph(g) == IsFiniteSet(DOMAIN g) /\ \A n \in DOMAIN g : IsList(g[n])

Needs(g) == [n \in DOMAIN g |-> Range(g[n])]

\* What the loop at depth i runs over, and the visit it waits for.
Owes(h, S, w, i) == IF i = 0 THEN S ELSE h[w.path[i]]
Under(w, i) == IF i < Len(w.path) THEN {w.path[i + 1]} ELSE {}

\* What was emitted is an order, of what S leads to.
Emits(h, S, w) ==
    w \in Walks(Closure(h, S)) /\ w.seen = Range(w.out) /\ IsOrder(h, w.out)

\* The visits under way are of known packages, and of each once.
PathIsNew(h, w) ==
    /\ \A i \in 1..Len(w.path) : w.path[i] \in DOMAIN h /\ w.path[i] \notin w.seen
    /\ \A i, j \in 1..Len(w.path) : w.path[i] = w.path[j] => i = j

\* What a loop has behind it was emitted, but for the visit it waits for.
LoopsAreDue(h, S, w) ==
    \A i \in 0..Len(w.path) :
        /\ Range(w.loops[i + 1]) \subseteq Owes(h, S, w, i)
        /\ Owes(h, S, w, i) \subseteq w.seen \cup Range(w.loops[i + 1]) \cup Under(w, i)

\* A visit is of something that every visit around it leads to.
PathIsAChain(h, S, w) ==
    \A i, j \in 0..Len(w.path) : i < j => w.path[j] \in Closure(h, Owes(h, S, w, i))

ErrorsAreTrue(h, S, w) ==
    /\ w.error = "cycle" => \E n \in Closure(h, S) \cap DOMAIN h : OnCycle(h, n)
    /\ w.error = "unknown" => \E n \in Closure(h, S) : n \notin DOMAIN h

Visiting(h, S, w) ==
    /\ Emits(h, S, w) /\ PathIsNew(h, w) /\ LoopsAreDue(h, S, w)
    /\ PathIsAChain(h, S, w) /\ ErrorsAreTrue(h, S, w)

\* A graph of lists and the graph of sets it stands for.
LEMMA NeedsOfLists ==
    ASSUME NEW g, ListGraph(g)
    PROVE  /\ DOMAIN Needs(g) = DOMAIN g /\ IsFiniteSet(DOMAIN Needs(g))
           /\ \A n \in DOMAIN g : Needs(g)[n] = Range(g[n]) /\ g[n] \in Seq(Needs(g)[n])
  BY DEF ListGraph, Needs, IsList

\* A list of members of C.
LEMMA ListIn ==
    ASSUME NEW s, IsList(s), NEW C, Range(s) \subseteq C
    PROVE  s \in Seq(C)
<1>1. s \in Seq(Range(s))
  BY DEF IsList
<1> QED
  BY <1>1

\* A walk that has just begun.
LEMMA VisitBegins ==
    ASSUME NEW h, IsFiniteSet(DOMAIN h), NEW names, IsList(names)
    PROVE  Visiting(h, Range(names), NewWalk(names))
<1> DEFINE S == Range(names)
<1>0. PICK w : w = NewWalk(names)
  OBVIOUS
<1>1. /\ w.out = <<>> /\ w.seen = {} /\ w.path = <<>> /\ w.loops = <<names>>
      /\ w.error = "none"
  BY <1>0 DEF NewWalk
<1>2. w \in Walks(Closure(h, S))
  <2>1. names \in Seq(Closure(h, S))
    BY ClosureIsLeast, ListIn
  <2> QED
    BY <1>0, <2>1, NewWalkIsAWalk
<1>3. Range(<<>>) = {} /\ IsOrder(h, <<>>)
  BY DEF Range, IsOrder
<1>4. Len(w.path) = 0 /\ w.loops[1] = names
  BY <1>1
<1> HIDE DEF S
<1>5. Emits(h, S, w)
  BY <1>1, <1>2, <1>3 DEF Emits
<1>6. PathIsNew(h, w)
  BY <1>4 DEF PathIsNew
<1>7. LoopsAreDue(h, S, w)
  BY <1>4 DEF LoopsAreDue, Owes, S
<1>8. PathIsAChain(h, S, w)
  BY <1>4 DEF PathIsAChain
<1>9. ErrorsAreTrue(h, S, w)
  BY <1>1 DEF ErrorsAreTrue
<1> QED
  BY <1>0, <1>5, <1>6, <1>7, <1>8, <1>9 DEF Visiting, S

\* What the innermost loop has before it leads back up to every visit around.
LEMMA RestIsBelow ==
    ASSUME NEW h, IsFiniteSet(DOMAIN h), NEW S, NEW w, Visiting(h, S, w),
           NEW n \in Range(Rest(w)), NEW i \in 0..Len(w.path)
    PROVE  n \in Closure(h, Owes(h, S, w, i))
<1> DEFINE L == Len(w.path)
<1>1. L \in Nat /\ Rest(w) = w.loops[L + 1]
  BY UnderWay DEF Visiting, Emits
<1> HIDE DEF L
<1>2. L \in 0..L /\ i \in 0..L
  BY <1>1 DEF L
<1>3. n \in Owes(h, S, w, L)
  BY <1>1, <1>2 DEF Visiting, LoopsAreDue, L
<1>4. CASE i = L
  BY <1>3, <1>4, ClosureIsLeast
<1>5. CASE i # L
  <2>1. i < L /\ L # 0 /\ L \in 1..L
    BY <1>1, <1>2, <1>5
  <2>2. w.path[L] \in Closure(h, Owes(h, S, w, i))
    BY <1>2, <2>1 DEF Visiting, PathIsAChain, L
  <2>3. w.path[L] \in DOMAIN h /\ n \in h[w.path[L]]
    BY <1>3, <2>1 DEF Visiting, PathIsNew, Owes, L
  <2> QED
    BY <2>2, <2>3, ClosureIsLeast DEF IsClosed
<1> QED
  BY <1>4, <1>5

\* A visit that ends emits a package all of whose needs were emitted.
LEMMA VisitLeaves ==
    ASSUME NEW h, IsFiniteSet(DOMAIN h), NEW S, NEW w, Visiting(h, S, w), ~Ended(w),
           Rest(w) = <<>>
    PROVE  Visiting(h, S, Leave(w))
<1> DEFINE C == Closure(h, S)
<1>0. PICK v : v = Leave(w)
  OBVIOUS
<1>a. PICK L : L = Len(w.path)
  OBVIOUS
<1>1. /\ w \in Walks(C) /\ w.seen = Range(w.out) /\ IsOrder(h, w.out)
      /\ w.out \in Seq(C) /\ w.path \in Seq(C)
  BY DEF Visiting, Emits, Walks
<1> HIDE DEF C
<1>2. v \in Walks(C) /\ Left(w, v, L)
  BY <1>0, <1>a, <1>1, LeaveEffect
<1>3. /\ L \in Nat \ {0}
      /\ v.out = Append(w.out, w.path[L]) /\ v.seen = w.seen \cup {w.path[L]}
      /\ Len(v.path) = L - 1 /\ \A i \in 1..(L - 1) : v.path[i] = w.path[i]
      /\ \A i \in 1..L : v.loops[i] = w.loops[i]
      /\ v.error = w.error
  BY <1>2 DEF Left
<1>4. PICK p : p = w.path[L]
  OBVIOUS
<1>5. L \in 1..L /\ L \in 0..L
  BY <1>3
<1>6. p \in DOMAIN h /\ p \notin w.seen /\ p \in C
  <2>1. p \in C
    BY <1>a, <1>1, <1>4, <1>5
  <2> QED
    BY <1>a, <1>4, <1>5, <2>1 DEF Visiting, PathIsNew
<1>7. h[p] \subseteq w.seen
  <2>1. Owes(h, S, w, L) \subseteq w.seen \cup Range(w.loops[L + 1]) \cup Under(w, L)
    BY <1>a, <1>5 DEF Visiting, LoopsAreDue
  <2>2. Owes(h, S, w, L) = h[p] /\ Under(w, L) = {}
    BY <1>a, <1>3, <1>4 DEF Owes, Under
  <2>3. w.loops[L + 1] = <<>>
    BY <1>a, <1>1, UnderWay
  <2>4. Range(<<>>) = {}
    BY DEF Range
  <2> QED
    BY <2>1, <2>2, <2>3, <2>4
<1>8. Emits(h, S, v)
  <2>1. IsOrder(h, Append(w.out, p))
    BY <1>1, <1>6, <1>7, OrderAppend
  <2>2. v.seen = Range(v.out)
    BY <1>1, <1>3, <1>4, <1>6, RangeIsElements
  <2> QED
    BY <1>2, <1>3, <1>4, <2>1, <2>2 DEF Emits, C
<1>9. PathIsNew(h, v)
  <2>1. \A i \in 1..(L - 1) : i \in 1..L /\ i # L
    BY <1>3
  <2>2. \A i \in 1..L : w.path[i] \in DOMAIN h /\ w.path[i] \notin w.seen
    BY <1>a DEF Visiting, PathIsNew
  <2>3. \A i, j \in 1..L : w.path[i] = w.path[j] => i = j
    BY <1>a DEF Visiting, PathIsNew
  <2>4. \A i \in 1..(L - 1) : w.path[i] # p
    BY <1>4, <1>5, <2>1, <2>3
  <2> QED
    BY <1>3, <1>4, <2>1, <2>2, <2>3, <2>4 DEF PathIsNew
<1>10. \A i \in 0..(L - 1) : i \in 0..L /\ i + 1 \in 1..L /\ (i # 0 => i \in 1..(L - 1))
  BY <1>3
<1>11. \A i \in 0..(L - 1) : Owes(h, S, v, i) = Owes(h, S, w, i)
  BY <1>3, <1>10 DEF Owes
<1>12. LoopsAreDue(h, S, v)
  <2> SUFFICES ASSUME NEW i \in 0..(L - 1)
               PROVE  /\ Range(v.loops[i + 1]) \subseteq Owes(h, S, v, i)
                      /\ Owes(h, S, v, i) \subseteq
                            v.seen \cup Range(v.loops[i + 1]) \cup Under(v, i)
    BY <1>3 DEF LoopsAreDue
  <2>1. v.loops[i + 1] = w.loops[i + 1] /\ Owes(h, S, v, i) = Owes(h, S, w, i)
    BY <1>3, <1>10, <1>11
  <2>2. /\ Range(w.loops[i + 1]) \subseteq Owes(h, S, w, i)
        /\ Owes(h, S, w, i) \subseteq w.seen \cup Range(w.loops[i + 1]) \cup Under(w, i)
    BY <1>a, <1>10 DEF Visiting, LoopsAreDue
  <2>3. Under(w, i) \subseteq v.seen \cup Under(v, i)
    <3>1. CASE i = L - 1
      <4>1. i + 1 = L
        BY <1>3, <3>1
      <4>2. Under(w, i) \subseteq {p}
        BY <1>a, <1>4, <4>1 DEF Under
      <4> QED
        BY <1>3, <1>4, <4>2
    <3>2. CASE i # L - 1
      <4>1. i < L - 1 /\ i < L /\ i + 1 \in 1..(L - 1)
        BY <1>3, <3>2
      <4> QED
        BY <1>a, <1>3, <4>1 DEF Under
    <3> QED
      BY <3>1, <3>2
  <2> QED
    BY <1>3, <2>1, <2>2, <2>3
<1>13. PathIsAChain(h, S, v)
  <2> SUFFICES ASSUME NEW i \in 0..(L - 1), NEW j \in 0..(L - 1), i < j
               PROVE  v.path[j] \in Closure(h, Owes(h, S, v, i))
    BY <1>3 DEF PathIsAChain
  <2>1. j \in 1..(L - 1) /\ v.path[j] = w.path[j] /\ Owes(h, S, v, i) = Owes(h, S, w, i)
    BY <1>3, <1>11
  <2>2. w.path[j] \in Closure(h, Owes(h, S, w, i))
    BY <1>a, <1>10 DEF Visiting, PathIsAChain
  <2> QED
    BY <2>1, <2>2
<1>14. ErrorsAreTrue(h, S, v)
  BY <1>3 DEF Visiting, ErrorsAreTrue
<1> QED
  BY <1>0, <1>8, <1>9, <1>12, <1>13, <1>14 DEF Visiting

\* A name that was emitted is passed by.
LEMMA VisitPasses ==
    ASSUME NEW h, IsFiniteSet(DOMAIN h), NEW S, NEW w, Visiting(h, S, w),
           Rest(w) # <<>>, Head(Rest(w)) \in w.seen
    PROVE  Visiting(h, S, Pass(w))
<1> DEFINE C == Closure(h, S)
<1>0. PICK v : v = Pass(w)
  OBVIOUS
<1>a. PICK L : L = Len(w.path)
  OBVIOUS
<1>1. w \in Walks(C)
  BY DEF Visiting, Emits
<1> HIDE DEF C
<1>2. v \in Walks(C) /\ Passed(w, v, L)
  BY <1>0, <1>a, <1>1, PassEffect
<1>3. /\ L \in Nat
      /\ v.out = w.out /\ v.seen = w.seen /\ v.path = w.path /\ v.error = w.error
      /\ \A i \in 1..L : v.loops[i] = w.loops[i]
      /\ v.loops[L + 1] = Tail(Rest(w))
  BY <1>2 DEF Passed
<1>4. Rest(w) = w.loops[L + 1] /\ Range(Rest(w)) = Range(Tail(Rest(w))) \cup {Head(Rest(w))}
  <2>1. Rest(w) = w.loops[L + 1] /\ Rest(w) \in Seq(C)
    BY <1>a, <1>1, UnderWay
  <2> QED
    BY <2>1, SequenceEnds
<1>5. Emits(h, S, v)
  BY <1>2, <1>3 DEF Visiting, Emits, C
<1>6. PathIsNew(h, v)
  BY <1>3 DEF Visiting, PathIsNew
<1>7. \A i : Owes(h, S, v, i) = Owes(h, S, w, i) /\ Under(v, i) = Under(w, i)
  BY <1>3 DEF Owes, Under
<1>8. LoopsAreDue(h, S, v)
  <2> SUFFICES ASSUME NEW i \in 0..L
               PROVE  /\ Range(v.loops[i + 1]) \subseteq Owes(h, S, v, i)
                      /\ Owes(h, S, v, i) \subseteq
                            v.seen \cup Range(v.loops[i + 1]) \cup Under(v, i)
    BY <1>a, <1>3 DEF LoopsAreDue
  <2>1. /\ Range(w.loops[i + 1]) \subseteq Owes(h, S, w, i)
        /\ Owes(h, S, w, i) \subseteq w.seen \cup Range(w.loops[i + 1]) \cup Under(w, i)
    BY <1>a DEF Visiting, LoopsAreDue
  <2>2. /\ Range(v.loops[i + 1]) \subseteq Range(w.loops[i + 1])
        /\ Range(w.loops[i + 1]) \subseteq w.seen \cup Range(v.loops[i + 1])
    <3>1. CASE i = L
      BY <1>3, <1>4, <3>1
    <3>2. CASE i # L
      <4>1. i + 1 \in 1..L
        BY <1>3, <3>2
      <4> QED
        BY <1>3, <4>1
    <3> QED
      BY <3>1, <3>2
  <2> QED
    BY <1>3, <1>7, <2>1, <2>2
<1>9. PathIsAChain(h, S, v)
  BY <1>3, <1>7 DEF Visiting, PathIsAChain
<1>10. ErrorsAreTrue(h, S, v)
  BY <1>3 DEF Visiting, ErrorsAreTrue
<1> QED
  BY <1>0, <1>5, <1>6, <1>8, <1>9, <1>10 DEF Visiting

\* A visit begins of a known package that is not under way.
LEMMA VisitEnters ==
    ASSUME NEW g, ListGraph(g), NEW S, NEW w, Visiting(Needs(g), S, w),
           Rest(w) # <<>>, NEW n, n = Head(Rest(w)),
           n \in DOMAIN g, n \notin w.seen, n \notin Range(w.path)
    PROVE  Visiting(Needs(g), S, Enter(w, n, g[n]))
<1>b. PICK h : h = Needs(g)
  OBVIOUS
<1> DEFINE C == Closure(h, S)
<1>0. PICK v : v = Enter(w, n, g[n])
  OBVIOUS
<1>a. PICK L : L = Len(w.path)
  OBVIOUS
<1>c. /\ IsFiniteSet(DOMAIN h) /\ n \in DOMAIN h /\ h[n] = Range(g[n])
      /\ Visiting(h, S, w) /\ IsList(g[n])
  BY <1>b, NeedsOfLists DEF ListGraph
<1>1. w \in Walks(C) /\ w.path \in Seq(C)
  BY <1>c DEF Visiting, Emits, Walks
<1> HIDE DEF C
<1>2. /\ Rest(w) = w.loops[L + 1] /\ Rest(w) \in Seq(C)
      /\ Range(Rest(w)) = Range(Tail(Rest(w))) \cup {n} /\ L \in Nat
  <2>1. Rest(w) = w.loops[L + 1] /\ Rest(w) \in Seq(C) /\ L \in Nat
    BY <1>a, <1>1, UnderWay
  <2> QED
    BY <2>1, SequenceEnds
<1>3. \A i \in 0..L : n \in Closure(h, Owes(h, S, w, i))
  BY <1>a, <1>c, <1>2, RestIsBelow
<1>4. n \in C /\ g[n] \in Seq(C)
  <2>1. n \in C
    BY <1>2, <1>3 DEF Owes, C
  <2>2. Range(g[n]) \subseteq C
    BY <1>c, <2>1, ClosureIsLeast DEF C, IsClosed
  <2> QED
    BY <1>c, <2>1, <2>2, ListIn
<1>5. v \in Walks(C) /\ Entered(w, v, L, n, g[n])
  BY <1>0, <1>a, <1>1, <1>4, EnterEffect
<1>6. /\ v.out = w.out /\ v.seen = w.seen /\ v.error = w.error
      /\ Len(v.path) = L + 1 /\ v.path[L + 1] = n
      /\ \A i \in 1..L : v.path[i] = w.path[i]
      /\ \A i \in 1..L : v.loops[i] = w.loops[i]
      /\ v.loops[L + 1] = Tail(Rest(w)) /\ v.loops[L + 2] = g[n]
  BY <1>5 DEF Entered
<1>7. Emits(h, S, v)
  BY <1>c, <1>5, <1>6 DEF Visiting, Emits, C
<1>8. \A i \in 1..(L + 1) : i \in 1..L \/ i = L + 1
  BY <1>2
<1>9. PathIsNew(h, v)
  <2>1. \A i \in 1..L : w.path[i] \in DOMAIN h /\ w.path[i] \notin w.seen
    BY <1>a, <1>c DEF Visiting, PathIsNew
  <2>2. \A i, j \in 1..L : w.path[i] = w.path[j] => i = j
    BY <1>a, <1>c DEF Visiting, PathIsNew
  <2>3. \A i \in 1..L : w.path[i] # n
    BY <1>a, <1>1, RangeIsElements
  <2>4. \A i \in 1..(L + 1) : v.path[i] \in DOMAIN h /\ v.path[i] \notin v.seen
    BY <1>c, <1>6, <1>8, <2>1
  <2>5. \A i, j \in 1..(L + 1) : v.path[i] = v.path[j] => i = j
    BY <1>6, <1>8, <2>2, <2>3
  <2> QED
    BY <1>6, <2>4, <2>5 DEF PathIsNew
<1>10. /\ \A i \in 0..L : Owes(h, S, v, i) = Owes(h, S, w, i)
       /\ Owes(h, S, v, L + 1) = h[n]
  <2>1. \A i \in 0..L : i = 0 \/ i \in 1..L
    BY <1>2
  <2>2. L + 1 # 0
    BY <1>2
  <2> QED
    BY <1>6, <2>1, <2>2 DEF Owes
<1>11. LoopsAreDue(h, S, v)
  <2> SUFFICES ASSUME NEW i \in 0..(L + 1)
               PROVE  /\ Range(v.loops[i + 1]) \subseteq Owes(h, S, v, i)
                      /\ Owes(h, S, v, i) \subseteq
                            v.seen \cup Range(v.loops[i + 1]) \cup Under(v, i)
    BY <1>6 DEF LoopsAreDue
  <2>1. CASE i = L + 1
    <3>1. i + 1 = L + 2
      BY <1>2, <2>1
    <3> QED
      BY <1>c, <1>6, <1>10, <2>1, <3>1
  <2>2. CASE i # L + 1
    <3>1. i \in 0..L /\ i + 1 \in 1..(L + 1)
      BY <1>2, <2>2
    <3>2. /\ Range(w.loops[i + 1]) \subseteq Owes(h, S, w, i)
          /\ Owes(h, S, w, i) \subseteq w.seen \cup Range(w.loops[i + 1]) \cup Under(w, i)
      BY <1>a, <1>c, <3>1 DEF Visiting, LoopsAreDue
    <3>3. CASE i = L
      <4>1. Under(v, i) = {n} /\ Under(w, i) = {}
        BY <1>a, <1>2, <1>6, <3>3 DEF Under
      <4> QED
        BY <1>2, <1>6, <1>10, <3>1, <3>2, <3>3, <4>1
    <3>4. CASE i # L
      <4>1. i + 1 \in 1..L /\ i < L /\ i < L + 1
        BY <1>2, <3>1, <3>4
      <4>2. Under(v, i) = Under(w, i)
        BY <1>a, <1>6, <4>1 DEF Under
      <4> QED
        BY <1>6, <1>10, <3>1, <3>2, <4>1, <4>2
    <3> QED
      BY <3>3, <3>4
  <2> QED
    BY <2>1, <2>2
<1>12. PathIsAChain(h, S, v)
  <2> SUFFICES ASSUME NEW i \in 0..(L + 1), NEW j \in 0..(L + 1), i < j
               PROVE  v.path[j] \in Closure(h, Owes(h, S, v, i))
    BY <1>6 DEF PathIsAChain
  <2>1. i \in 0..L /\ (j \in 1..L \/ j = L + 1)
    BY <1>2
  <2>2. Owes(h, S, v, i) = Owes(h, S, w, i)
    BY <1>10, <2>1
  <2>3. CASE j = L + 1
    BY <1>3, <1>6, <2>1, <2>2, <2>3
  <2>4. CASE j \in 1..L
    <3>1. j \in 0..L
      BY <2>4
    <3>2. w.path[j] \in Closure(h, Owes(h, S, w, i))
      BY <1>a, <1>c, <2>1, <3>1 DEF Visiting, PathIsAChain
    <3> QED
      BY <1>6, <2>2, <2>4, <3>2
  <2> QED
    BY <2>1, <2>3, <2>4
<1>13. ErrorsAreTrue(h, S, v)
  BY <1>c, <1>6 DEF Visiting, ErrorsAreTrue
<1> QED
  BY <1>0, <1>b, <1>7, <1>9, <1>11, <1>12, <1>13 DEF Visiting

\* The children of one package.
LEMMA ChildrenOfOne ==
    ASSUME NEW h, NEW n \in DOMAIN h
    PROVE  Children(h, {n}) = h[n]
  BY DEF Children

\* A name under way is on a cycle, and one nobody has is unknown.
LEMMA VisitRaises ==
    ASSUME NEW h, IsFiniteSet(DOMAIN h), NEW S, NEW w, Visiting(h, S, w),
           Rest(w) # <<>>, NEW n, n = Head(Rest(w))
    PROVE  /\ n \in Range(w.path) => Visiting(h, S, Raise(w, "cycle"))
           /\ n \notin DOMAIN h => Visiting(h, S, Raise(w, "unknown"))
<1> DEFINE C == Closure(h, S)
<1>1. w \in Walks(C) /\ w.path \in Seq(C) /\ Len(w.path) \in Nat
  BY UnderWay DEF Visiting, Emits, Walks
<1>2. n \in Range(Rest(w))
  <2>1. Rest(w) \in Seq(C)
    BY <1>1, UnderWay
  <2> QED
    BY <2>1, SequenceEnds
<1>3. n \in C
  <2>1. 0 \in 0..Len(w.path) /\ Owes(h, S, w, 0) = S
    BY <1>1 DEF Owes
  <2> QED
    BY <1>2, <2>1, RestIsBelow
<1> HIDE DEF C
<1>4. ASSUME NEW e \in {"cycle", "unknown"},
             e = "cycle" => \E m \in C \cap DOMAIN h : OnCycle(h, m),
             e = "unknown" => \E m \in C : m \notin DOMAIN h
      PROVE  Visiting(h, S, Raise(w, e))
  <2>1. PICK v : v = Raise(w, e)
    OBVIOUS
  <2>2. /\ v \in Walks(C) /\ v.error = e
        /\ v.out = w.out /\ v.seen = w.seen /\ v.path = w.path /\ v.loops = w.loops
    BY <1>1, <2>1, RaiseEffect
  <2>3. Emits(h, S, v)
    BY <2>2 DEF Visiting, Emits, C
  <2>4. PathIsNew(h, v)
    BY <2>2 DEF Visiting, PathIsNew
  <2>5. \A i : Owes(h, S, v, i) = Owes(h, S, w, i) /\ Under(v, i) = Under(w, i)
    BY <2>2 DEF Owes, Under
  <2>6. LoopsAreDue(h, S, v)
    BY <2>2, <2>5 DEF Visiting, LoopsAreDue
  <2>7. PathIsAChain(h, S, v)
    BY <2>2, <2>5 DEF Visiting, PathIsAChain
  <2>8. ErrorsAreTrue(h, S, v)
    BY <1>4, <2>2 DEF ErrorsAreTrue, C
  <2> QED
    BY <2>1, <2>3, <2>4, <2>6, <2>7, <2>8 DEF Visiting
<1>5. ASSUME n \in Range(w.path)
      PROVE  Visiting(h, S, Raise(w, "cycle"))
  <2>1. PICK i \in 1..Len(w.path) : n = w.path[i]
    BY <1>1, <1>5, RangeIsElements
  <2>2. n \in DOMAIN h /\ Owes(h, S, w, i) = h[n]
    BY <2>1 DEF Visiting, PathIsNew, Owes
  <2>3. n \in Closure(h, h[n])
    <3>1. i \in 0..Len(w.path)
      BY <2>1
    <3> QED
      BY <1>2, <2>2, <3>1, RestIsBelow
  <2>4. OnCycle(h, n)
    BY <2>2, <2>3, ChildrenOfOne DEF OnCycle
  <2> QED
    BY <1>3, <1>4, <2>2, <2>4
<1>6. ASSUME n \notin DOMAIN h
      PROVE  Visiting(h, S, Raise(w, "unknown"))
  BY <1>3, <1>4, <1>6
<1> QED
  BY <1>5, <1>6

\* One turn of a loop.
LEMMA VisitKeeps ==
    ASSUME NEW g, ListGraph(g), NEW S, NEW w, Visiting(Needs(g), S, w), ~Ended(w)
    PROVE  Visiting(Needs(g), S, Visit(g, w))
<1>1. PICK h : h = Needs(g)
  OBVIOUS
<1>2. IsFiniteSet(DOMAIN h) /\ DOMAIN h = DOMAIN g /\ Visiting(h, S, w)
  BY <1>1, NeedsOfLists
<1>3. PICK n : n = Head(Rest(w))
  OBVIOUS
<1>4. CASE Rest(w) = <<>>
  BY <1>1, <1>2, <1>4, VisitLeaves DEF Visit
<1>5. CASE Rest(w) # <<>> /\ n \in w.seen
  BY <1>1, <1>2, <1>3, <1>5, VisitPasses DEF Visit
<1>6. CASE Rest(w) # <<>> /\ n \notin w.seen /\ n \in Range(w.path)
  <2>1. Visit(g, w) = Raise(w, "cycle")
    BY <1>3, <1>6 DEF Visit
  <2> QED
    BY <1>1, <1>2, <1>3, <1>6, <2>1, VisitRaises
<1>7. CASE Rest(w) # <<>> /\ n \notin w.seen /\ n \notin Range(w.path) /\ n \notin DOMAIN g
  <2>1. Visit(g, w) = Raise(w, "unknown")
    BY <1>3, <1>7 DEF Visit
  <2> QED
    BY <1>1, <1>2, <1>3, <1>7, <2>1, VisitRaises
<1>8. CASE Rest(w) # <<>> /\ n \notin w.seen /\ n \notin Range(w.path) /\ n \in DOMAIN g
  <2>1. Visit(g, w) = Enter(w, n, g[n])
    BY <1>3, <1>8 DEF Visit
  <2> QED
    BY <1>3, <1>8, <2>1, VisitEnters
<1> QED
  BY <1>4, <1>5, <1>6, <1>7, <1>8

\* A walk that ends has returned a plan of all its names lead to, or has met an
\* unknown name or a cycle there.
LEMMA VisitEnds ==
    ASSUME NEW h, IsFiniteSet(DOMAIN h), NEW S, NEW w, Visiting(h, S, w), Ended(w)
    PROVE  /\ w.error = "none" <=> Resolvable(h, S)
           /\ w.error = "none" => /\ IsPlan(h, w.out, Closure(h, S))
                                  /\ IsOrder(h, w.out)
                                  /\ Range(w.out) = Closure(h, S)
                                  /\ w.out \in Seq(Closure(h, S))
<1> DEFINE C == Closure(h, S)
<1>1. /\ w \in Walks(C) /\ w.out \in Seq(C) /\ w.seen = Range(w.out) /\ IsOrder(h, w.out)
      /\ w.error \in {"none", "cycle", "unknown"} /\ w.seen \subseteq C
      /\ Len(w.path) \in Nat /\ Len(w.loops) = Len(w.path) + 1
  BY UnderWay DEF Visiting, Emits, Walks
<1>2. ASSUME w.error = "none"
      PROVE  S \subseteq w.seen
  <2>1. w.loops = << <<>> >>
    BY <1>2 DEF Ended
  <2>2. Len(w.path) = 0 /\ w.loops[0 + 1] = <<>>
    BY <1>1, <2>1
  <2>3. Owes(h, S, w, 0) \subseteq w.seen \cup Range(w.loops[0 + 1]) \cup Under(w, 0)
    BY <2>2 DEF Visiting, LoopsAreDue
  <2>4. Range(<<>>) = {} /\ Under(w, 0) = {} /\ Owes(h, S, w, 0) = S
    BY <2>2 DEF Range, Under, Owes
  <2> QED
    BY <2>2, <2>3, <2>4
<1> HIDE DEF C
<1>3. /\ IsPlan(h, w.out, Range(w.out)) /\ IsClosed(h, Range(w.out))
      /\ Resolvable(h, Range(w.out))
  BY <1>1, OrderIsPlan
<1>4. ASSUME w.error = "none"
      PROVE  Range(w.out) = C /\ Resolvable(h, S)
  <2>1. Range(w.out) = C
    <3>1. S \subseteq Range(w.out) /\ Range(w.out) \subseteq C
      BY <1>1, <1>2, <1>4
    <3>2. PICK T : T = Range(w.out)
      OBVIOUS
    <3>3. S \subseteq T /\ IsClosed(h, T)
      BY <1>3, <3>1, <3>2
    <3>4. C \subseteq T
      BY <3>3, ClosureIsLeast DEF C
    <3> QED
      BY <3>1, <3>2, <3>4
  <2>2. Closure(h, Range(w.out)) = C
    BY <1>3, <2>1, ClosureIsLeast
  <2> QED
    BY <1>3, <2>1, <2>2 DEF Resolvable, C
<1>5. ASSUME w.error # "none"
      PROVE  ~Resolvable(h, S)
  <2>1. \E n \in C : n \notin DOMAIN h \/ OnCycle(h, n)
    BY <1>1, <1>5 DEF Visiting, ErrorsAreTrue, C
  <2> QED
    BY <2>1 DEF Resolvable, C
<1> QED
  BY <1>1, <1>3, <1>4, <1>5 DEF C

-----------------------------------------------------------------------------
(* visit of collect_dependencies.                                          *)

Owed(w) == UNION {Range(w.loops[i]) : i \in 1..Len(w.loops)}

\* A walk over names of C, which leads nowhere else: what N has, and what the
\* packages seen here and those of have need, was seen or is in a loop.
Collecting(h, have, N, C, w) ==
    /\ w \in Walks(C) /\ w.seen = Range(w.out) \cup Range(w.path)
    /\ N \subseteq have \cup w.seen \cup Owed(w)
    /\ \A n \in (have \cup w.seen) \cap DOMAIN h : h[n] \subseteq have \cup w.seen \cup Owed(w)
    /\ w.error # "none" => \E n \in C : n \notin DOMAIN h

\* A walk that has just begun.
LEMMA CollectBegins ==
    ASSUME NEW h, NEW have, NEW N, NEW C, NEW names, IsList(names), Range(names) \subseteq C,
           N \subseteq have \cup Range(names),
           \A n \in have \cap DOMAIN h : h[n] \subseteq have \cup Range(names)
    PROVE  Collecting(h, have, N, C, NewWalk(names))
<1>0. PICK w : w = NewWalk(names)
  OBVIOUS
<1>1. /\ w.out = <<>> /\ w.seen = {} /\ w.path = <<>> /\ w.loops = <<names>>
      /\ w.error = "none"
  BY <1>0 DEF NewWalk
<1>2. w \in Walks(C)
  BY <1>0, ListIn, NewWalkIsAWalk
<1>3. Range(<<>>) = {}
  BY DEF Range
<1>4. Range(names) \subseteq Owed(w)
  <2>1. 1 \in 1..Len(w.loops) /\ w.loops[1] = names
    BY <1>1
  <2> QED
    BY <2>1 DEF Owed
<1> QED
  BY <1>0, <1>1, <1>2, <1>3, <1>4 DEF Collecting

\* The turn of the loop keeps what is due if it keeps what is owed, but for
\* what was seen.
LEMMA StillCollecting ==
    ASSUME NEW h, NEW have, NEW N, NEW C, NEW w, Collecting(h, have, N, C, w),
           NEW v \in Walks(C), v.error = w.error,
           v.seen = Range(v.out) \cup Range(v.path), w.seen \subseteq v.seen,
           Owed(w) \subseteq v.seen \cup Owed(v),
           \A n \in (v.seen \ w.seen) \cap DOMAIN h : h[n] \subseteq v.seen \cup Owed(v)
    PROVE  Collecting(h, have, N, C, v)
<1>1. N \subseteq have \cup v.seen \cup Owed(v)
  BY DEF Collecting
<1>2. ASSUME NEW n \in (have \cup v.seen) \cap DOMAIN h
      PROVE  h[n] \subseteq have \cup v.seen \cup Owed(v)
  <2>1. CASE n \in have \cup w.seen
    BY <2>1 DEF Collecting
  <2>2. CASE n \notin have \cup w.seen
    BY <2>2
  <2> QED
    BY <2>1, <2>2
<1> QED
  BY <1>1, <1>2 DEF Collecting

\* A visit that ends emits its package.
LEMMA CollectLeaves ==
    ASSUME NEW h, NEW have, NEW N, NEW C, NEW w, Collecting(h, have, N, C, w), ~Ended(w),
           Rest(w) = <<>>
    PROVE  Collecting(h, have, N, C, Leave(w))
<1>0. PICK v : v = Leave(w)
  OBVIOUS
<1>a. PICK L : L = Len(w.path)
  OBVIOUS
<1>1. /\ w \in Walks(C) /\ w.seen = Range(w.out) \cup Range(w.path)
      /\ w.out \in Seq(C) /\ w.path \in Seq(C) /\ Len(w.loops) = L + 1
  BY <1>a DEF Collecting, Walks
<1>2. v \in Walks(C) /\ Left(w, v, L)
  BY <1>0, <1>a, <1>1, LeaveEffect
<1>3. /\ L \in Nat \ {0}
      /\ v.out = Append(w.out, w.path[L]) /\ v.seen = w.seen \cup {w.path[L]}
      /\ Len(v.path) = L - 1 /\ \A i \in 1..(L - 1) : v.path[i] = w.path[i]
      /\ \A i \in 1..L : v.loops[i] = w.loops[i]
      /\ v.error = w.error /\ Len(v.loops) = L /\ v.path \in Seq(C)
  <2>1. Len(v.loops) = Len(v.path) + 1 /\ v.path \in Seq(C)
    BY <1>2 DEF Walks
  <2> QED
    BY <1>2, <2>1 DEF Left
<1>4. L \in 1..L /\ w.path[L] \in C /\ \A i \in 1..L : i = L \/ i \in 1..(L - 1)
  BY <1>a, <1>1, <1>3
<1>5. Range(w.path) = Range(v.path) \cup {w.path[L]}
  <2>1. Range(w.path) = {w.path[i] : i \in 1..L}
    BY <1>a, <1>1, RangeIsElements
  <2>2. Range(v.path) = {v.path[i] : i \in 1..(L - 1)}
    BY <1>3, RangeIsElements
  <2>3. \A i \in 1..(L - 1) : i \in 1..L
    BY <1>3
  <2>4. {w.path[i] : i \in 1..L} = {w.path[i] : i \in 1..(L - 1)} \cup {w.path[L]}
    BY <1>4, <2>3
  <2>5. {v.path[i] : i \in 1..(L - 1)} = {w.path[i] : i \in 1..(L - 1)}
    <3>1. \A i \in 1..(L - 1) : v.path[i] = w.path[i]
      BY <1>3
    <3> QED
      BY <3>1
  <2> QED
    BY <2>1, <2>2, <2>4, <2>5
<1>6. v.seen = Range(v.out) \cup Range(v.path) /\ v.seen = w.seen
  <2>1. Range(v.out) = Range(w.out) \cup {w.path[L]}
    BY <1>1, <1>3, <1>4, RangeIsElements
  <2> QED
    BY <1>1, <1>3, <1>5, <2>1
<1>7. Owed(w) \subseteq Owed(v)
  <2> SUFFICES ASSUME NEW i \in 1..(L + 1)
               PROVE  Range(w.loops[i]) \subseteq Owed(v)
    BY <1>1 DEF Owed
  <2>1. CASE i = L + 1
    <3>1. w.loops[i] = <<>>
      BY <1>a, <1>1, <2>1, UnderWay
    <3> QED
      BY <3>1 DEF Range
  <2>2. CASE i # L + 1
    <3>1. i \in 1..L
      BY <1>3, <2>2
    <3> QED
      BY <1>3, <3>1 DEF Owed
  <2> QED
    BY <2>1, <2>2
<1>8. Collecting(h, have, N, C, v)
  BY <1>2, <1>3, <1>6, <1>7, StillCollecting
<1> QED
  BY <1>0, <1>8

\* A name that was seen is passed by.
LEMMA CollectPasses ==
    ASSUME NEW h, NEW have, NEW N, NEW C, NEW w, Collecting(h, have, N, C, w),
           Rest(w) # <<>>, Head(Rest(w)) \in w.seen
    PROVE  Collecting(h, have, N, C, Pass(w))
<1>0. PICK v : v = Pass(w)
  OBVIOUS
<1>a. PICK L : L = Len(w.path)
  OBVIOUS
<1>1. /\ w \in Walks(C) /\ w.seen = Range(w.out) \cup Range(w.path) /\ Len(w.loops) = L + 1
  BY <1>a DEF Collecting, Walks
<1>2. v \in Walks(C) /\ Passed(w, v, L)
  BY <1>0, <1>a, <1>1, PassEffect
<1>3. /\ L \in Nat
      /\ v.out = w.out /\ v.seen = w.seen /\ v.path = w.path /\ v.error = w.error
      /\ \A i \in 1..L : v.loops[i] = w.loops[i]
      /\ v.loops[L + 1] = Tail(Rest(w)) /\ Len(v.loops) = L + 1
  <2>1. Len(v.loops) = Len(v.path) + 1
    BY <1>2 DEF Walks
  <2> QED
    BY <1>a, <1>2, <2>1 DEF Passed
<1>4. Rest(w) = w.loops[L + 1] /\ Range(Rest(w)) = Range(Tail(Rest(w))) \cup {Head(Rest(w))}
  <2>1. Rest(w) = w.loops[L + 1] /\ Rest(w) \in Seq(C)
    BY <1>a, <1>1, UnderWay
  <2> QED
    BY <2>1, SequenceEnds
<1>5. Owed(w) \subseteq v.seen \cup Owed(v)
  <2> SUFFICES ASSUME NEW i \in 1..(L + 1)
               PROVE  Range(w.loops[i]) \subseteq v.seen \cup Owed(v)
    BY <1>1 DEF Owed
  <2>0. Range(v.loops[i]) \subseteq Owed(v)
    BY <1>3 DEF Owed
  <2>1. CASE i = L + 1
    BY <1>3, <1>4, <2>0, <2>1
  <2>2. CASE i # L + 1
    <3>1. i \in 1..L
      BY <1>3, <2>2
    <3> QED
      BY <1>3, <2>0, <3>1
  <2> QED
    BY <2>1, <2>2
<1>6. Collecting(h, have, N, C, v)
  BY <1>1, <1>2, <1>3, <1>5, StillCollecting
<1> QED
  BY <1>0, <1>6

\* A visit begins of a known package that was not seen.
LEMMA CollectEnters ==
    ASSUME NEW g, ListGraph(g), NEW have, NEW N, NEW C, IsClosed(Needs(g), C), NEW w,
           Collecting(Needs(g), have, N, C, w),
           Rest(w) # <<>>, NEW n, n = Head(Rest(w)), n \in DOMAIN g,
           NEW v, v = [Enter(w, n, g[n]) EXCEPT !.seen = w.seen \cup {n}]
    PROVE  Collecting(Needs(g), have, N, C, v)
<1>0. PICK h : h = Needs(g)
  OBVIOUS
<1>a. PICK L : L = Len(w.path)
  OBVIOUS
<1>b. PICK u : u = Enter(w, n, g[n])
  OBVIOUS
<1>c. /\ n \in DOMAIN h /\ h[n] = Range(g[n]) /\ IsList(g[n])
      /\ IsClosed(h, C) /\ Collecting(h, have, N, C, w)
  BY <1>0, NeedsOfLists DEF ListGraph
<1>1. /\ w \in Walks(C) /\ w.seen = Range(w.out) \cup Range(w.path) /\ Len(w.loops) = L + 1
      /\ w.path \in Seq(C) /\ w.seen \subseteq C
  BY <1>a, <1>c DEF Collecting, Walks
<1>2. /\ Rest(w) = w.loops[L + 1] /\ n \in C
      /\ Range(Rest(w)) = Range(Tail(Rest(w))) \cup {n} /\ L \in Nat
  <2>1. Rest(w) = w.loops[L + 1] /\ Rest(w) \in Seq(C) /\ L \in Nat
    BY <1>a, <1>1, UnderWay
  <2> QED
    BY <2>1, SequenceEnds
<1>3. g[n] \in Seq(C)
  <2>1. Range(g[n]) \subseteq C
    BY <1>c, <1>2 DEF IsClosed
  <2> QED
    BY <1>c, <2>1, ListIn
<1>4. u \in Walks(C) /\ Entered(w, u, L, n, g[n])
  BY <1>a, <1>b, <1>1, <1>2, <1>3, EnterEffect
<1>5. v \in Walks(C) /\ v.seen = w.seen \cup {n} /\ v.out = u.out /\ v.path = u.path
      /\ v.loops = u.loops /\ v.error = u.error
  <2>1. v = [u EXCEPT !.seen = w.seen \cup {n}]
    BY <1>b
  <2>2. w.seen \cup {n} \in SUBSET C
    BY <1>1, <1>2
  <2> QED
    BY <1>4, <2>1, <2>2 DEF Walks
<1>6. /\ v.out = w.out /\ v.error = w.error
      /\ Len(v.path) = L + 1 /\ v.path[L + 1] = n /\ v.path \in Seq(C)
      /\ \A i \in 1..L : v.path[i] = w.path[i]
      /\ \A i \in 1..L : v.loops[i] = w.loops[i]
      /\ v.loops[L + 1] = Tail(Rest(w)) /\ v.loops[L + 2] = g[n] /\ Len(v.loops) = L + 2
  <2>1. v.path \in Seq(C) /\ Len(v.loops) = Len(v.path) + 1
    BY <1>5 DEF Walks
  <2>2. /\ u.out = w.out /\ u.error = w.error
        /\ Len(u.path) = L + 1 /\ u.path[L + 1] = n
        /\ \A i \in 1..L : u.path[i] = w.path[i]
        /\ \A i \in 1..L : u.loops[i] = w.loops[i]
        /\ u.loops[L + 1] = Tail(Rest(w)) /\ u.loops[L + 2] = g[n]
    BY <1>4 DEF Entered
  <2>3. Len(v.path) = L + 1 /\ (L + 1) + 1 = L + 2
    <3>1. Len(u.path) = L + 1 /\ v.path = u.path
      BY <1>5, <2>2
    <3>2. (L + 1) + 1 = L + 2
      BY <1>2
    <3> QED
      BY <3>1, <3>2
  <2> QED
    BY <1>5, <2>1, <2>2, <2>3
<1>7. Range(v.path) = Range(w.path) \cup {n}
  <2>1. Range(w.path) = {w.path[i] : i \in 1..L}
    BY <1>a, <1>1, RangeIsElements
  <2>2. Range(v.path) = {v.path[i] : i \in 1..(L + 1)}
    BY <1>6, RangeIsElements
  <2>3. 1..(L + 1) = (1..L) \cup {L + 1}
    BY <1>2
  <2>4. {v.path[i] : i \in 1..(L + 1)} = {v.path[i] : i \in 1..L} \cup {v.path[L + 1]}
    BY <2>3
  <2>5. {v.path[i] : i \in 1..L} = {w.path[i] : i \in 1..L}
    <3>1. \A i \in 1..L : v.path[i] = w.path[i]
      BY <1>6
    <3> QED
      BY <3>1
  <2> QED
    BY <1>6, <2>1, <2>2, <2>4, <2>5
<1>8. v.seen = Range(v.out) \cup Range(v.path)
  BY <1>1, <1>5, <1>6, <1>7
<1>9. /\ \A i \in 1..(L + 1) : Range(v.loops[i]) \subseteq Owed(v)
      /\ Range(g[n]) \subseteq Owed(v)
  <2>1. L + 2 \in 1..(L + 2) /\ \A i \in 1..(L + 1) : i \in 1..(L + 2)
    BY <1>2
  <2>2. \A i \in 1..(L + 2) : Range(v.loops[i]) \subseteq Owed(v)
    BY <1>6 DEF Owed
  <2>3. Range(v.loops[L + 2]) \subseteq Owed(v)
    BY <2>1, <2>2
  <2> QED
    BY <1>6, <2>1, <2>2, <2>3
<1>10. Owed(w) \subseteq v.seen \cup Owed(v)
  <2> SUFFICES ASSUME NEW i \in 1..(L + 1)
               PROVE  Range(w.loops[i]) \subseteq v.seen \cup Owed(v)
    BY <1>1 DEF Owed
  <2>0. Range(v.loops[i]) \subseteq Owed(v)
    BY <1>9
  <2>1. CASE i = L + 1
    BY <1>2, <1>5, <1>6, <2>0, <2>1
  <2>2. CASE i # L + 1
    <3>1. i \in 1..L
      BY <1>2, <2>2
    <3> QED
      BY <1>6, <2>0, <3>1
  <2> QED
    BY <2>1, <2>2
<1>11. h[n] \subseteq Owed(v)
  BY <1>c, <1>9
<1>12. Collecting(h, have, N, C, v)
  <2>1. \A m \in (v.seen \ w.seen) \cap DOMAIN h : h[m] \subseteq v.seen \cup Owed(v)
    BY <1>5, <1>11
  <2> QED
    BY <1>c, <1>5, <1>6, <1>8, <1>10, <2>1, StillCollecting
<1> QED
  BY <1>0, <1>12

\* One turn of a loop.
LEMMA CollectKeeps ==
    ASSUME NEW g, ListGraph(g), NEW have, NEW N, NEW C, IsClosed(Needs(g), C), NEW w,
           Collecting(Needs(g), have, N, C, w), ~Ended(w)
    PROVE  Collecting(Needs(g), have, N, C, Collect(g, w))
<1>1. PICK h : h = Needs(g)
  OBVIOUS
<1>2. IsFiniteSet(DOMAIN h) /\ DOMAIN h = DOMAIN g /\ Collecting(h, have, N, C, w)
  BY <1>1, NeedsOfLists
<1>3. PICK n : n = Head(Rest(w))
  OBVIOUS
<1>4. CASE Rest(w) = <<>>
  BY <1>1, <1>2, <1>4, CollectLeaves DEF Collect
<1>5. CASE Rest(w) # <<>> /\ n \in w.seen
  BY <1>1, <1>2, <1>3, <1>5, CollectPasses DEF Collect
<1>6. CASE Rest(w) # <<>> /\ n \notin w.seen /\ n \notin DOMAIN g
  <2>1. Collect(g, w) = Raise(w, "unknown")
    BY <1>3, <1>6 DEF Collect
  <2>2. w \in Walks(C)
    BY <1>2 DEF Collecting
  <2>3. n \in C
    <3>1. Rest(w) \in Seq(C)
      BY <2>2, UnderWay
    <3> QED
      BY <1>3, <1>6, <3>1, SequenceEnds
  <2>4. PICK v : v = Raise(w, "unknown")
    OBVIOUS
  <2>5. /\ v \in Walks(C) /\ v.error = "unknown"
        /\ v.out = w.out /\ v.seen = w.seen /\ v.path = w.path /\ v.loops = w.loops
    BY <2>2, <2>4, RaiseEffect
  <2>6. Owed(v) = Owed(w)
    BY <2>5 DEF Owed
  <2>7. Collecting(h, have, N, C, v)
    BY <1>2, <1>6, <2>3, <2>5, <2>6 DEF Collecting
  <2> QED
    BY <1>1, <2>1, <2>4, <2>7
<1>7. CASE Rest(w) # <<>> /\ n \notin w.seen /\ n \in DOMAIN g
  <2>1. Collect(g, w) = [Enter(w, n, g[n]) EXCEPT !.seen = w.seen \cup {n}]
    BY <1>3, <1>7 DEF Collect
  <2>2. PICK v : v = [Enter(w, n, g[n]) EXCEPT !.seen = w.seen \cup {n}]
    OBVIOUS
  <2>3. Collecting(Needs(g), have, N, C, v)
    BY <1>3, <1>7, <2>2, CollectEnters
  <2> QED
    BY <2>1, <2>2, <2>3
<1> QED
  BY <1>4, <1>5, <1>6, <1>7

\* A walk that ends without an exception has collected what N and have lead
\* to, and no more than C.
LEMMA CollectEnds ==
    ASSUME NEW h, NEW have, NEW N, NEW C, NEW w, Collecting(h, have, N, C, w), Ended(w)
    PROVE  /\ w.error # "none" => \E n \in C : n \notin DOMAIN h
           /\ w.error = "none" => /\ N \subseteq have \cup Range(w.out)
                                  /\ IsClosed(h, have \cup Range(w.out))
                                  /\ Range(w.out) \subseteq C
<1>1. w.error # "none" => \E n \in C : n \notin DOMAIN h
  BY DEF Collecting
<1>2. ASSUME w.error = "none"
      PROVE  /\ N \subseteq have \cup Range(w.out)
             /\ IsClosed(h, have \cup Range(w.out))
             /\ Range(w.out) \subseteq C
  <2>1. w.loops = << <<>> >>
    BY <1>2 DEF Ended
  <2>2. w.out \in Seq(C) /\ w.path \in Seq(C) /\ Len(w.loops) = Len(w.path) + 1
    BY DEF Collecting, Walks
  <2>3. Range(w.path) = {}
    <3>1. Len(w.path) = 0
      BY <2>1, <2>2
    <3> QED
      BY <2>2, <3>1, RangeIsElements
  <2>4. Owed(w) = {}
    <3>1. Len(w.loops) = 1 /\ w.loops[1] = <<>> /\ Range(<<>>) = {}
      BY <2>1 DEF Range
    <3> QED
      BY <3>1 DEF Owed
  <2>5. Range(w.out) \subseteq C
    BY <2>2, RangeIsElements
  <2> QED
    BY <2>3, <2>4, <2>5 DEF Collecting, IsClosed
<1> QED
  BY <1>1, <1>2

-----------------------------------------------------------------------------
(* The inductive invariant of the run.                                     *)

Reqs == BuildNeeds(catalog)
Wish == IF asked = Nobody THEN Range(Base) ELSE {asked}
Settled == DOMAIN roots \cup failed \cup blocked

\* What is in q comes after what it needs, of which done is settled.
Waits(h, done, q) ==
    /\ \A i, j \in 1..Len(q) : q[i] = q[j] => i = j
    /\ \A i \in 1..Len(q) :
          /\ q[i] \in DOMAIN h \ done
          /\ h[q[i]] \subseteq done \cup {q[j] : j \in 1..(i - 1)}

GivenFits ==
    /\ \/ graph = Nobody /\ only = <<>>
       \/ graph \in Graphs /\ only \in Selections
    /\ catalog \subseteq Names

SortFits == stage = "sort" => Visiting(Reqs, catalog, walk) /\ selected = {}

\* What the requested names looked at so far need is selected or on its way.
SelectFits ==
    stage = "select" =>
        /\ ordered \in Seq(catalog) /\ Range(ordered) = catalog
        /\ IsOrder(Reqs, ordered) /\ Resolvable(Reqs, catalog)
        /\ Collecting(Reqs, selected, {}, Closure(Reqs, Range(only)), walk)
        /\ selected \subseteq Closure(Reqs, Range(only))
        /\ only # <<>> /\ todo \in Seq(Range(only))
        /\ Range(only) \subseteq (selected \cap catalog) \cup Range(todo)

\* Every recipe waits, was built, failed or is blocked.
QueueFits ==
    /\ stage # "build" => queue = <<>> /\ work = Idle
    /\ queue \in Seq(catalog) /\ Waits(Reqs, Settled, queue)
    /\ stage \in {"sort", "select"} => Settled = {}
    /\ stage \in {"build", "upload"} =>
          ordered \in Seq(catalog) /\ Range(ordered) = Settled \cup Range(queue)
    /\ stage = "upload" => failed \cup blocked = {}

\* What a built recipe needs was built, and something a blocked one needs
\* failed.
SettledFits ==
    /\ Settled \subseteq catalog /\ DOMAIN roots \cap (failed \cup blocked) = {}
    /\ stage = "build" \/ Settled # {} => IsClosed(Reqs, catalog)
    /\ IsClosed(Reqs, DOMAIN roots)
    /\ \A n \in blocked : Closure(Reqs, Reqs[n]) \cap failed # {}

\* What the recipe needs was built, and its sysroot has the roots of that and
\* nothing else.
WorkFits ==
    work # Idle =>
        LET below == Closure(Reqs, Reqs[work.recipe])
        IN /\ work \in [recipe : catalog, pc : {"sysroot", "configure", "check"},
                        sysroot : SUBSET catalog]
           /\ queue # <<>> /\ work.recipe = Head(queue)
           /\ below \subseteq DOMAIN roots
           /\ work.pc = "sysroot" =>
                 Collecting(Reqs, {}, Reqs[work.recipe], below, walk)
           /\ work.pc # "sysroot" => work.sysroot = below

UploadFits ==
    stage = "upload" =>
        Visiting(Needs(UploadGraph(InstallGraph(Names), Range(ordered))),
                 Range(ordered), walk)

ResolveFits ==
    /\ stage = "resolve" => Visiting(InstallNeeds(DOMAIN roots), Wish, walk)
    /\ asked # Nobody => BaseNames \subseteq image
    /\ DOMAIN roots \subseteq Names

IInv ==
    /\ GivenFits /\ SortFits /\ SelectFits /\ QueueFits /\ SettledFits /\ WorkFits
    /\ UploadFits /\ ResolveFits

-----------------------------------------------------------------------------
(* The graphs of the run.                                                  *)

\* What the assumption says of the catalogue at hand.
LEMMA GivenLists ==
    ASSUME GivenFits
    PROVE  /\ IsFiniteSet(Names) /\ Nobody \notin Names /\ IsList(only)
           /\ Names \subseteq Range(Sorted) /\ IsList(Sorted)
           /\ \A n \in Names : IsList(Recipe(n).requires) /\ IsList(Recipe(n).installs)
<1>1. Shelf \in Graphs \cup {Catalogue} /\ \A n : Recipe(n) = Shelf[n]
  BY DEF GivenFits, Shelf, Packages, Recipe
<1>2. IsList(only)
  <2>1. IsList(<<>>)
    BY DEF IsList
  <2> QED
    BY <2>1, CatalogAssumption DEF GivenFits
<1> QED
  BY <1>1, <1>2, CatalogAssumption DEF Names

\* The lists of some of the catalogue and the sets they stand for.
LEMMA GraphNeeds ==
    ASSUME GivenFits, NEW S, S \subseteq Names
    PROVE  /\ ListGraph(BuildGraph(S)) /\ Needs(BuildGraph(S)) = BuildNeeds(S)
           /\ ListGraph(InstallGraph(S)) /\ Needs(InstallGraph(S)) = InstallNeeds(S)
           /\ DOMAIN BuildNeeds(S) = S /\ DOMAIN InstallNeeds(S) = S /\ IsFiniteSet(S)
<1>1. IsFiniteSet(S) /\ \A n \in S : IsList(Recipe(n).requires) /\ IsList(Recipe(n).installs)
  BY GivenLists, FS_Subset
<1> QED
  BY <1>1 DEF ListGraph, Needs, BuildGraph, InstallGraph, BuildNeeds, InstallNeeds

\* The build requirements of what was loaded.
LEMMA ReqsAreFinite ==
    ASSUME GivenFits
    PROVE  /\ DOMAIN Reqs = catalog /\ IsFiniteSet(DOMAIN Reqs)
           /\ ListGraph(BuildGraph(catalog)) /\ Needs(BuildGraph(catalog)) = Reqs
           /\ \A n \in catalog : /\ Reqs[n] = Range(Recipe(n).requires)
                                 /\ IsList(Recipe(n).requires)
<1>1. catalog \subseteq Names
  BY DEF GivenFits
<1>2. \A n \in catalog : Reqs[n] = Range(Recipe(n).requires)
  BY DEF Reqs, BuildNeeds
<1> QED
  BY <1>1, <1>2, GivenLists, GraphNeeds DEF Reqs

\* The dependencies between the packages of a wave.
LEMMA UploadNeeds ==
    ASSUME GivenFits, NEW W, W \subseteq Names
    PROVE  /\ ListGraph(UploadGraph(InstallGraph(Names), W))
           /\ Needs(UploadGraph(InstallGraph(Names), W)) =
                 [n \in W |-> InstallNeeds(W)[n] \cap W]
<1> DEFINE f(n) == Recipe(n).installs
<1>1. IsFiniteSet(W)
  BY GraphNeeds
<1>2. ASSUME NEW n \in W
      PROVE  /\ IsList(Among(f(n), W)) /\ Range(Among(f(n), W)) = Range(f(n)) \cap W
             /\ InstallGraph(Names)[n] = f(n) /\ InstallNeeds(W)[n] = Range(f(n))
  <2>1. f(n) \in Seq(Range(f(n)))
    BY <1>2, GivenLists DEF IsList
  <2>2. PICK s : s = f(n)
    OBVIOUS
  <2>3. Among(s, W) \in Seq(Range(s)) /\ Range(Among(s, W)) = Range(s) \cap W
    BY <2>1, <2>2, AmongKeeps
  <2>4. IsList(Among(s, W))
    <3>1. PICK t : t = Among(s, W)
      OBVIOUS
    <3>2. t \in Seq(Range(t))
      BY <2>3, <3>1, RangeIsElements
    <3> QED
      BY <3>1, <3>2 DEF IsList
  <2> QED
    BY <2>2, <2>3, <2>4 DEF InstallGraph, InstallNeeds
<1> HIDE DEF f
<1>3. UploadGraph(InstallGraph(Names), W) = [n \in W |-> Among(f(n), W)]
  BY <1>2 DEF UploadGraph
<1> QED
  BY <1>1, <1>2, <1>3 DEF ListGraph, Needs

\* What is given stays, and with it the graphs.
LEMMA GivenStays ==
    ASSUME UNCHANGED given, GivenFits
    PROVE  /\ GivenFits' /\ Reqs' = Reqs /\ Names' = Names /\ BaseNames' = BaseNames
           /\ catalog' = catalog /\ only' = only
  BY DEF given, GivenFits, Reqs, Names, BaseNames, BuildNeeds, Recipe, Shelf

\* The runtime dependencies of what was built stay.
LEMMA InstallNeedsStay ==
    ASSUME UNCHANGED given, UNCHANGED roots
    PROVE  InstallNeeds(DOMAIN roots)' = InstallNeeds(DOMAIN roots)
  BY DEF given, InstallNeeds, Recipe, Shelf

\* The dependencies inside the wave stay.
LEMMA UploadNeedsStay ==
    ASSUME UNCHANGED given, UNCHANGED ordered
    PROVE  Needs(UploadGraph(InstallGraph(Names), Range(ordered)))' =
               Needs(UploadGraph(InstallGraph(Names), Range(ordered)))
  BY DEF given, InstallGraph, Recipe, Shelf, Names

-----------------------------------------------------------------------------
(* Closures and queues.                                                    *)

\* The closure stays in any set that leads nowhere else.
LEMMA ClosureWithin ==
    ASSUME NEW h, IsFiniteSet(DOMAIN h), NEW S, NEW T, IsClosed(h, T), S \subseteq T
    PROVE  Closure(h, S) \subseteq T
  BY ClosureIsLeast

\* What S leads to, its members lead to no more.
LEMMA ClosureOfMember ==
    ASSUME NEW h, IsFiniteSet(DOMAIN h), NEW S, NEW n \in Closure(h, S), n \in DOMAIN h
    PROVE  Closure(h, h[n]) \subseteq Closure(h, S)
<1>1. IsClosed(h, Closure(h, S))
  BY ClosureIsLeast
<1>2. h[n] \subseteq Closure(h, S)
  BY <1>1 DEF IsClosed
<1> QED
  BY <1>1, <1>2, ClosureWithin

\* A graph without unknown names leads nowhere else.
LEMMA ResolvableIsClosed ==
    ASSUME NEW h, IsFiniteSet(DOMAIN h), Resolvable(h, DOMAIN h)
    PROVE  IsClosed(h, DOMAIN h) /\ Closure(h, DOMAIN h) = DOMAIN h
<1>1. Closure(h, DOMAIN h) \subseteq DOMAIN h
  BY DEF Resolvable
<1> QED
  BY <1>1, ClosureIsLeast

\* An order is a queue before which nothing is settled.
LEMMA OrderWaits ==
    ASSUME NEW h, NEW q, IsOrder(h, q)
    PROVE  Waits(h, {}, q)
  BY DEF IsOrder, Waits

\* The head of the queue needs only what is settled, and when it is settled
\* too the others wait as before.
LEMMA WaitsTail ==
    ASSUME NEW C, NEW h, NEW done, NEW q \in Seq(C), q # <<>>, Waits(h, done, q)
    PROVE  /\ Head(q) \in C /\ Head(q) \in DOMAIN h /\ Head(q) \notin done
           /\ h[Head(q)] \subseteq done
           /\ Tail(q) \in Seq(C) /\ Waits(h, done \cup {Head(q)}, Tail(q))
           /\ Range(q) = Range(Tail(q)) \cup {Head(q)}
<1>1. PICK x, t, L : x = Head(q) /\ t = Tail(q) /\ L = Len(q)
  OBVIOUS
<1>2. /\ L \in Nat \ {0} /\ x \in C /\ t \in Seq(C) /\ x = q[1] /\ Len(t) = L - 1
      /\ \A i \in 1..(L - 1) : t[i] = q[i + 1]
  BY <1>1
<1>3. x \in DOMAIN h /\ x \notin done /\ h[x] \subseteq done
  <2>1. 1 \in 1..L /\ 1 - 1 = 0 /\ 1..0 = {}
    BY <1>2
  <2>2. h[q[1]] \subseteq done \cup {q[j] : j \in 1..0} /\ q[1] \in DOMAIN h \ done
    BY <1>1, <2>1 DEF Waits
  <2> QED
    BY <1>2, <2>1, <2>2
<1>4. \A i \in 1..(L - 1) : i + 1 \in 1..L /\ i + 1 # 1
  BY <1>2
<1>5. \A i, j \in 1..(L - 1) : t[i] = t[j] => i = j
  <2>1. \A i, j \in 1..L : q[i] = q[j] => i = j
    BY <1>1 DEF Waits
  <2> TAKE i, j \in 1..(L - 1)
  <2>2. q[i + 1] = q[j + 1] => i + 1 = j + 1
    BY <1>4, <2>1
  <2> QED
    BY <1>2, <2>2
<1>6. ASSUME NEW i \in 1..(L - 1)
      PROVE  /\ t[i] \in DOMAIN h \ (done \cup {x})
             /\ h[t[i]] \subseteq done \cup {x} \cup {t[j] : j \in 1..(i - 1)}
  <2>1. t[i] = q[i + 1] /\ i + 1 \in 1..L /\ 1 \in 1..L /\ (i + 1) - 1 = i
    BY <1>2, <1>4
  <2>2. /\ q[i + 1] \in DOMAIN h \ done
        /\ h[q[i + 1]] \subseteq done \cup {q[j] : j \in 1..i}
    BY <1>1, <2>1 DEF Waits
  <2>3. q[i + 1] # x
    BY <1>1, <1>2, <1>4, <2>1 DEF Waits
  <2>4. ASSUME NEW j \in 1..i
        PROVE  q[j] = x \/ \E k \in 1..(i - 1) : q[j] = t[k]
    <3>1. CASE j = 1
      BY <1>2, <3>1
    <3>2. CASE j # 1
      <4>1. j - 1 \in 1..(i - 1) /\ j - 1 \in 1..(L - 1) /\ (j - 1) + 1 = j
        BY <1>2, <3>2
      <4> QED
        BY <1>2, <4>1
    <3> QED
      BY <3>1, <3>2
  <2> QED
    BY <2>1, <2>2, <2>3, <2>4
<1>7. Waits(h, done \cup {x}, t)
  BY <1>2, <1>5, <1>6 DEF Waits
<1>8. Range(q) = Range(t) \cup {x}
  BY <1>1, SequenceEnds
<1> QED
  BY <1>1, <1>2, <1>3, <1>7, <1>8

-----------------------------------------------------------------------------
(* The steps of the run.                                                   *)

\* main walks over every recipe that was loaded.
LEMMA SortedIsAll ==
    ASSUME GivenFits
    PROVE  /\ IsList(Among(Sorted, catalog))
           /\ Range(Among(Sorted, catalog)) = catalog
<1>1. PICK s : s = Among(Sorted, catalog)
  OBVIOUS
<1>2. s \in Seq(Range(Sorted)) /\ Range(s) = Range(Sorted) \cap catalog
  <2>1. Sorted \in Seq(Range(Sorted))
    BY CatalogAssumption DEF IsList
  <2> QED
    BY <1>1, <2>1, AmongKeeps
<1>3. s \in Seq(Range(s))
  BY <1>2, RangeIsElements
<1>4. catalog \subseteq Range(Sorted)
  BY GivenLists DEF GivenFits
<1> QED
  BY <1>1, <1>2, <1>3, <1>4 DEF IsList

\* The invariant holds when main begins.
LEMMA InitHolds ==
    Init => IInv
<1> SUFFICES ASSUME Init PROVE IInv
  OBVIOUS
<1>1. GivenFits
  <2>1. CASE graph = Nobody
    <3>1. only = <<>> /\ catalog \subseteq DOMAIN Packages
      BY <2>1, CatalogAssumption DEF Init
    <3> QED
      BY <2>1, <3>1 DEF GivenFits, Names, Shelf
  <2>2. CASE graph # Nobody
    BY <2>2 DEF Init, GivenFits, Names, Shelf
  <2> QED
    BY <2>1, <2>2
<1>2. SortFits
  <2>1. PICK names : names = Among(Sorted, catalog)
    OBVIOUS
  <2>2. IsList(names) /\ Range(names) = catalog /\ walk = NewWalk(names)
    BY <1>1, <2>1, SortedIsAll DEF Init
  <2>3. Visiting(Reqs, Range(names), NewWalk(names))
    BY <1>1, <2>2, ReqsAreFinite, VisitBegins
  <2> QED
    BY <2>2, <2>3 DEF SortFits, Init
<1>3. queue = <<>> /\ stage = "sort" /\ work = Idle /\ asked = Nobody
  BY DEF Init
<1>4. DOMAIN roots = {} /\ failed = {} /\ blocked = {} /\ Settled = {}
  BY DEF Init, Settled
<1>5. QueueFits
  <2>1. queue \in Seq(catalog) /\ Waits(Reqs, Settled, queue)
    BY <1>3 DEF Waits
  <2> QED
    BY <1>3, <1>4, <2>1 DEF QueueFits
<1>6. SettledFits
  BY <1>3, <1>4 DEF SettledFits, IsClosed
<1> QED
  BY <1>1, <1>2, <1>3, <1>4, <1>5, <1>6
  DEF IInv, SelectFits, WorkFits, UploadFits, ResolveFits

\* What a step leaves alone.
LEMMA ReqsStay ==
    ASSUME UNCHANGED given, IInv
    PROVE  /\ GivenFits' /\ Reqs' = Reqs /\ catalog' = catalog /\ only' = only
           /\ Names' = Names /\ BaseNames' = BaseNames
  BY GivenStays DEF IInv

\* A step that is none of the sort.
LEMMA SortStays ==
    ASSUME UNCHANGED given, IInv, stage' = "sort" => UNCHANGED <<stage, walk, selected>>
    PROVE  SortFits'
  BY ReqsStay DEF IInv, SortFits

\* A step that is none of the selection.
LEMMA SelectStays ==
    ASSUME UNCHANGED given, IInv,
           stage' = "select" => UNCHANGED <<stage, walk, ordered, selected, todo>>
    PROVE  SelectFits'
  BY ReqsStay DEF IInv, SelectFits

\* A step that builds nothing.
LEMMA ProgressStays ==
    ASSUME UNCHANGED given, IInv, UNCHANGED progress, UNCHANGED ordered,
           UNCHANGED walk \/ work = Idle,
           stage' # "build" => queue = <<>> /\ work = Idle,
           stage' = "build" => stage = "build",
           stage' \in {"sort", "select"} => stage \in {"sort", "select"},
           stage' = "upload" => stage \in {"build", "upload"} /\ failed \cup blocked = {}
    PROVE  QueueFits' /\ SettledFits' /\ WorkFits'
<1>1. /\ queue' = queue /\ work' = work /\ roots' = roots /\ failed' = failed
      /\ blocked' = blocked /\ Reqs' = Reqs /\ catalog' = catalog /\ ordered' = ordered
      /\ Settled' = Settled /\ Idle' = Idle
  BY ReqsStay DEF progress, Settled, Idle
<1>2. QueueFits'
  BY <1>1 DEF IInv, QueueFits
<1>3. SettledFits'
  BY <1>1 DEF IInv, SettledFits
<1>4. WorkFits'
  BY <1>1 DEF IInv, WorkFits
<1> QED
  BY <1>2, <1>3, <1>4

\* A step that neither orders uploads nor resolves a plan.
LEMMA ImagesStay ==
    ASSUME UNCHANGED given, IInv, UNCHANGED roots, UNCHANGED asked,
           image \subseteq image',
           stage' \in {"upload", "resolve"} => UNCHANGED <<stage, walk, ordered>>
    PROVE  UploadFits' /\ ResolveFits'
<1>1. UploadFits'
  <2> SUFFICES ASSUME stage' = "upload"
               PROVE  Visiting(Needs(UploadGraph(InstallGraph(Names), Range(ordered))),
                               Range(ordered), walk)'
    BY DEF UploadFits
  <2>1. /\ stage = "upload" /\ walk' = walk /\ ordered' = ordered
        /\ Needs(UploadGraph(InstallGraph(Names), Range(ordered)))' =
               Needs(UploadGraph(InstallGraph(Names), Range(ordered)))
    BY UploadNeedsStay
  <2> QED
    BY <2>1 DEF IInv, UploadFits
<1>2. ResolveFits'
  <2>1. InstallNeeds(DOMAIN roots)' = InstallNeeds(DOMAIN roots) /\ Wish' = Wish
    BY InstallNeedsStay DEF Wish
  <2> QED
    BY <2>1, ReqsStay DEF IInv, ResolveFits
<1> QED
  BY <1>1, <1>2

\* sort_dependencies goes on.
LEMMA SortStepKeeps ==
    IInv /\ SortStep => IInv'
<1> SUFFICES ASSUME IInv, SortStep PROVE IInv'
  OBVIOUS
<1>1. /\ UNCHANGED given /\ UNCHANGED progress /\ UNCHANGED order /\ UNCHANGED stage
      /\ UNCHANGED image /\ UNCHANGED asked /\ stage = "sort" /\ ~Ended(walk)
      /\ walk' = Visit(BuildGraph(catalog), walk)
  BY DEF SortStep
<1>2. /\ UNCHANGED ordered /\ UNCHANGED roots /\ queue = <<>> /\ work = Idle
  BY <1>1 DEF order, progress, IInv, QueueFits
<1>3. Visiting(Reqs, catalog, walk')
  <2>1. ListGraph(BuildGraph(catalog)) /\ Needs(BuildGraph(catalog)) = Reqs
    BY ReqsAreFinite DEF IInv
  <2>2. Visiting(Reqs, catalog, walk)
    BY <1>1 DEF IInv, SortFits
  <2> QED
    BY <1>1, <2>1, <2>2, VisitKeeps
<1>4. GivenFits' /\ Reqs' = Reqs /\ catalog' = catalog
  BY <1>1, ReqsStay
<1>5. SortFits'
  BY <1>1, <1>3, <1>4 DEF SortFits, IInv, order
<1>6. SelectFits'
  BY <1>1, SelectStays
<1>7. QueueFits' /\ SettledFits' /\ WorkFits'
  BY <1>1, <1>2, ProgressStays
<1>8. UploadFits' /\ ResolveFits'
  BY <1>1, <1>2, ImagesStay
<1> QED
  BY <1>4, <1>5, <1>6, <1>7, <1>8 DEF IInv

\* sort_dependencies has returned or raised.
LEMMA SortDoneKeeps ==
    IInv /\ SortDone => IInv'
<1> SUFFICES ASSUME IInv, SortDone PROVE IInv'
  OBVIOUS
<1>1. /\ UNCHANGED given /\ UNCHANGED work /\ UNCHANGED roots /\ UNCHANGED failed
      /\ UNCHANGED blocked /\ UNCHANGED accidents /\ UNCHANGED image /\ UNCHANGED asked
      /\ stage = "sort" /\ Ended(walk)
  BY DEF SortDone
<1>2. /\ queue = <<>> /\ work = Idle /\ Settled = {} /\ selected = {}
      /\ Visiting(Reqs, catalog, walk)
  BY <1>1 DEF IInv, QueueFits, SortFits
<1>3. /\ GivenFits' /\ Reqs' = Reqs /\ catalog' = catalog /\ only' = only
      /\ Settled' = {} /\ Idle' = Idle
  BY <1>1, <1>2, ReqsStay DEF Settled, Idle
<1>4. CASE walk.error # "none"
  <2>1. /\ stage' = "refused" /\ UNCHANGED progress /\ UNCHANGED ordered
        /\ UNCHANGED walk
    BY <1>1, <1>4 DEF SortDone, progress, order
  <2> QED
    BY <1>1, <1>2, <1>3, <2>1, SortStays, SelectStays, ProgressStays, ImagesStay DEF IInv
<1>5. CASE walk.error = "none"
  <2>1. /\ walk' = NewWalk(<<>>) /\ ordered' = walk.out /\ todo' = only
        /\ UNCHANGED selected
        /\ only = <<>> => stage' = "build" /\ queue' = walk.out
        /\ only # <<>> => stage' = "select" /\ UNCHANGED queue
    BY <1>5 DEF SortDone
  <2>2. DOMAIN Reqs = catalog /\ IsFiniteSet(DOMAIN Reqs) /\ IsList(only)
    BY ReqsAreFinite, GivenLists DEF IInv
  <2>3. /\ Resolvable(Reqs, catalog) /\ IsOrder(Reqs, walk.out)
        /\ Range(walk.out) = catalog /\ walk.out \in Seq(catalog)
        /\ IsClosed(Reqs, catalog)
    <3>1. /\ Resolvable(Reqs, catalog) /\ IsOrder(Reqs, walk.out)
          /\ Range(walk.out) = Closure(Reqs, catalog)
          /\ walk.out \in Seq(Closure(Reqs, catalog))
      BY <1>1, <1>2, <1>5, <2>2, VisitEnds
    <3>2. Closure(Reqs, catalog) = catalog /\ IsClosed(Reqs, catalog)
      BY <2>2, <3>1, ResolvableIsClosed
    <3> QED
      BY <3>1, <3>2
  <2>4. SelectFits'
    <3> SUFFICES ASSUME only # <<>> PROVE SelectFits'
      BY <2>1 DEF SelectFits
    <3>1. IsList(<<>>) /\ Range(<<>>) = {}
      BY DEF IsList, Range
    <3>2. PICK w : w = NewWalk(<<>>)
      OBVIOUS
    <3>3. Collecting(Reqs, {}, {}, Closure(Reqs, Range(only)), w)
      BY <3>1, <3>2, CollectBegins
    <3>4. only \in Seq(Range(only))
      BY <2>2 DEF IsList
    <3> QED
      BY <1>2, <1>3, <2>1, <2>3, <3>2, <3>3, <3>4 DEF SelectFits
  <2>5. QueueFits'
    <3>1. stage' = "build" => queue' = walk.out /\ ordered' = walk.out
      BY <2>1
    <3>2. stage' # "build" => stage' = "select" /\ queue' = <<>> /\ work' = Idle
      BY <1>1, <1>2, <2>1
    <3>3. Waits(Reqs, {}, walk.out)
      BY <2>3, OrderWaits
    <3>4. <<>> \in Seq(catalog) /\ Waits(Reqs, {}, <<>>)
      BY DEF Waits
    <3> QED
      BY <1>3, <2>3, <3>1, <3>2, <3>3, <3>4 DEF QueueFits
  <2>6. SettledFits'
    <3>1. DOMAIN roots' = {} /\ failed' = {} /\ blocked' = {}
      BY <1>3 DEF Settled
    <3>2. IsClosed(Reqs, {})
      BY DEF IsClosed
    <3> QED
      BY <1>3, <2>3, <3>1, <3>2 DEF SettledFits
  <2>7. WorkFits' /\ SortFits'
    BY <1>1, <1>2, <1>3, <2>1 DEF WorkFits, SortFits
  <2>8. UploadFits' /\ ResolveFits'
    BY <1>1, <2>1, ImagesStay
  <2> QED
    BY <1>3, <2>4, <2>5, <2>6, <2>7, <2>8 DEF IInv
<1> QED
  BY <1>4, <1>5

\* collect_dependencies goes on for a requested recipe.
LEMMA SelectStepKeeps ==
    IInv /\ SelectStep => IInv'
<1> SUFFICES ASSUME IInv, SelectStep PROVE IInv'
  OBVIOUS
<1>1. /\ UNCHANGED given /\ UNCHANGED progress /\ UNCHANGED order /\ UNCHANGED stage
      /\ UNCHANGED image /\ UNCHANGED asked /\ stage = "select" /\ ~Ended(walk)
      /\ walk' = Collect(BuildGraph(catalog), walk)
  BY DEF SelectStep
<1>2. /\ UNCHANGED ordered /\ UNCHANGED selected /\ UNCHANGED todo /\ UNCHANGED roots
      /\ queue = <<>> /\ work = Idle
  BY <1>1 DEF order, progress, IInv, QueueFits
<1>3. PICK C : C = Closure(Reqs, Range(only))
  OBVIOUS
<1>4. Collecting(Reqs, selected, {}, C, walk')
  <2>1. /\ ListGraph(BuildGraph(catalog)) /\ Needs(BuildGraph(catalog)) = Reqs
        /\ IsFiniteSet(DOMAIN Reqs)
    BY ReqsAreFinite DEF IInv
  <2>2. Collecting(Reqs, selected, {}, C, walk)
    BY <1>1, <1>3 DEF IInv, SelectFits
  <2>3. IsClosed(Reqs, C)
    BY <1>3, <2>1, ClosureIsLeast
  <2> QED
    BY <1>1, <2>1, <2>2, <2>3, CollectKeeps
<1>5. GivenFits' /\ Reqs' = Reqs /\ catalog' = catalog /\ only' = only
  BY <1>1, ReqsStay
<1>6. SelectFits'
  BY <1>1, <1>2, <1>3, <1>4, <1>5 DEF SelectFits, IInv
<1>7. SortFits'
  BY <1>1 DEF SortFits
<1>8. QueueFits' /\ SettledFits' /\ WorkFits'
  BY <1>1, <1>2, ProgressStays
<1>9. UploadFits' /\ ResolveFits'
  BY <1>1, <1>2, ImagesStay
<1> QED
  BY <1>5, <1>6, <1>7, <1>8, <1>9 DEF IInv

\* What collect_dependencies returned for one name, when the next one comes.
LEMMA SelectionGrows ==
    ASSUME IInv, stage = "select", Ended(walk), walk.error = "none",
           NEW C, C = Closure(Reqs, Range(only))
    PROVE  /\ selected \cup Range(walk.out) \subseteq C
           /\ IsClosed(Reqs, selected \cup Range(walk.out))
           /\ Range(only) \subseteq C /\ IsClosed(Reqs, C)
<1>1. Collecting(Reqs, selected, {}, C, walk) /\ selected \subseteq C
  BY DEF IInv, SelectFits
<1>2. Range(walk.out) \subseteq C /\ IsClosed(Reqs, selected \cup Range(walk.out))
  BY <1>1, CollectEnds
<1>3. Range(only) \subseteq C /\ IsClosed(Reqs, C)
  BY ReqsAreFinite, ClosureIsLeast DEF IInv
<1> QED
  BY <1>1, <1>2, <1>3

\* The next requested recipe.
LEMMA SelectNextKeeps ==
    IInv /\ SelectNext => IInv'
<1> SUFFICES ASSUME IInv, SelectNext PROVE IInv'
  OBVIOUS
<1>1. /\ UNCHANGED given /\ UNCHANGED progress /\ UNCHANGED ordered
      /\ UNCHANGED image /\ UNCHANGED asked /\ stage = "select" /\ Ended(walk)
      /\ todo # <<>> /\ todo' = Tail(todo)
      /\ selected' = selected \cup Range(walk.out) \cup {Head(todo)}
      /\ stage' \in {"select", "refused"}
  BY DEF SelectNext
<1>2. queue = <<>> /\ work = Idle /\ UNCHANGED roots
  BY <1>1 DEF IInv, QueueFits, progress
<1>3. /\ GivenFits' /\ Reqs' = Reqs /\ catalog' = catalog /\ only' = only
  BY <1>1, ReqsStay
<1>4. SelectFits'
  <2> SUFFICES ASSUME stage' = "select" PROVE SelectFits'
    BY DEF SelectFits
  <2>1. PICK n, C, reqs : /\ n = Head(todo) /\ C = Closure(Reqs, Range(only))
                          /\ reqs = Recipe(n).requires
    OBVIOUS
  <2>2. walk.error = "none" /\ n \in catalog /\ walk' = NewWalk(reqs)
    BY <2>1 DEF SelectNext
  <2>3. /\ selected \cup Range(walk.out) \subseteq C
        /\ IsClosed(Reqs, selected \cup Range(walk.out))
        /\ Range(only) \subseteq C /\ IsClosed(Reqs, C)
    BY <1>1, <2>1, <2>2, SelectionGrows
  <2>4. DOMAIN Reqs = catalog /\ Reqs[n] = Range(reqs) /\ IsList(reqs)
    BY <2>1, <2>2, ReqsAreFinite DEF IInv
  <2>5. /\ todo \in Seq(Range(only)) /\ n \in Range(only)
        /\ Tail(todo) \in Seq(Range(only)) /\ Range(todo) = Range(Tail(todo)) \cup {n}
    <3>1. todo \in Seq(Range(only))
      BY <1>1 DEF IInv, SelectFits
    <3> QED
      BY <1>1, <2>1, <3>1, SequenceEnds
  <2>6. selected' \subseteq C /\ Range(reqs) \subseteq C
    BY <1>1, <2>1, <2>2, <2>3, <2>4, <2>5 DEF IsClosed
  <2>7. \A m \in selected' \cap DOMAIN Reqs : Reqs[m] \subseteq selected' \cup Range(reqs)
    BY <1>1, <2>1, <2>3, <2>4 DEF IsClosed
  <2>8. Collecting(Reqs, selected', {}, C, walk')
    <3>1. PICK have : have = selected'
      OBVIOUS
    <3>2. Collecting(Reqs, have, {}, C, NewWalk(reqs))
      BY <2>4, <2>6, <2>7, <3>1, CollectBegins
    <3> QED
      BY <2>2, <3>1, <3>2
  <2> QED
    BY <1>1, <1>3, <2>1, <2>2, <2>5, <2>6, <2>8 DEF IInv, SelectFits
<1>5. SortFits'
  BY <1>1 DEF SortFits
<1>6. QueueFits' /\ SettledFits' /\ WorkFits'
  BY <1>1, <1>2, ProgressStays
<1>7. UploadFits' /\ ResolveFits'
  BY <1>1, <1>2, ImagesStay
<1> QED
  BY <1>3, <1>4, <1>5, <1>6, <1>7 DEF IInv

\* When all that was asked for is selected, the order of the selection.
LEMMA SelectionIsOrdered ==
    ASSUME IInv, SelectDone, walk.error = "none"
    PROVE  /\ Range(only) \subseteq catalog
           /\ selected' = Closure(Reqs, Range(only)) /\ selected' \subseteq catalog
           /\ ordered' \in Seq(catalog) /\ IsOrder(Reqs, ordered')
           /\ Range(ordered') = selected'
<1>1. PICK C, S : C = Closure(Reqs, Range(only)) /\ S = selected \cup Range(walk.out)
  OBVIOUS
<1>2. S \subseteq C /\ IsClosed(Reqs, S)
  BY <1>1, SelectionGrows DEF SelectDone
<1>3. /\ ordered \in Seq(catalog) /\ Range(ordered) = catalog
      /\ IsOrder(Reqs, ordered) /\ Resolvable(Reqs, catalog)
      /\ Range(only) \subseteq (selected \cap catalog) \cup Range(todo)
  BY DEF IInv, SelectFits, SelectDone
<1>4. Range(only) \subseteq selected /\ Range(only) \subseteq catalog
  <2>1. Range(<<>>) = {} /\ todo = <<>>
    BY DEF Range, SelectDone
  <2> QED
    BY <1>3, <2>1
<1>5. IsFiniteSet(DOMAIN Reqs) /\ DOMAIN Reqs = catalog
  BY ReqsAreFinite DEF IInv
<1>6. C \subseteq S /\ C \subseteq catalog
  <2>1. IsClosed(Reqs, catalog)
    BY <1>3, <1>5, ResolvableIsClosed
  <2>2. Range(only) \subseteq S
    BY <1>1, <1>4
  <2> QED
    BY <1>1, <1>2, <1>4, <1>5, <2>1, <2>2, ClosureWithin
<1>7. selected' = S /\ ordered' = Among(ordered, S)
  BY <1>1 DEF SelectDone
<1>8. /\ Among(ordered, S) \in Seq(catalog) /\ Range(Among(ordered, S)) = catalog \cap S
      /\ IsOrder(Reqs, Among(ordered, S))
  <2>1. PICK s : s = ordered
    OBVIOUS
  <2> QED
    BY <1>2, <1>3, <2>1, AmongKeeps
<1> QED
  BY <1>1, <1>2, <1>4, <1>6, <1>7, <1>8

\* The selection is complete or refused.
LEMMA SelectDoneKeeps ==
    IInv /\ SelectDone => IInv'
<1> SUFFICES ASSUME IInv, SelectDone PROVE IInv'
  OBVIOUS
<1>1. /\ UNCHANGED given /\ UNCHANGED work /\ UNCHANGED roots /\ UNCHANGED failed
      /\ UNCHANGED blocked /\ UNCHANGED accidents /\ UNCHANGED image /\ UNCHANGED asked
      /\ stage = "select" /\ stage' \in {"build", "refused"}
  BY DEF SelectDone
<1>2. /\ queue = <<>> /\ work = Idle /\ Settled = {}
  BY <1>1 DEF IInv, QueueFits
<1>3. /\ GivenFits' /\ Reqs' = Reqs /\ catalog' = catalog /\ only' = only
      /\ Settled' = {} /\ Idle' = Idle
  BY <1>1, <1>2, ReqsStay DEF Settled, Idle
<1>4. SortFits' /\ SelectFits' /\ UploadFits' /\ ResolveFits'
  BY <1>1, ImagesStay DEF SortFits, SelectFits
<1>5. CASE walk.error # "none"
  <2>1. /\ stage' = "refused" /\ UNCHANGED progress /\ UNCHANGED ordered /\ UNCHANGED walk
    BY <1>1, <1>5 DEF SelectDone, progress
  <2> QED
    BY <1>1, <1>2, <1>3, <1>4, <2>1, ProgressStays DEF IInv
<1>6. CASE walk.error = "none"
  <2>1. stage' = "build" /\ queue' = ordered'
    BY <1>6 DEF SelectDone
  <2>2. ordered' \in Seq(catalog) /\ IsOrder(Reqs, ordered')
    BY <1>6, SelectionIsOrdered
  <2>3. QueueFits'
    <3>1. PICK q : q = ordered'
      OBVIOUS
    <3>2. Waits(Reqs, {}, q)
      BY <2>2, <3>1, OrderWaits
    <3> QED
      BY <1>3, <2>1, <2>2, <3>1, <3>2 DEF QueueFits
  <2>4. SettledFits'
    <3>1. DOMAIN roots' = {} /\ failed' = {} /\ blocked' = {}
      BY <1>3 DEF Settled
    <3>2. IsClosed(Reqs, {})
      BY DEF IsClosed
    <3>3. IsClosed(Reqs, catalog)
      <4>1. Resolvable(Reqs, catalog) /\ DOMAIN Reqs = catalog /\ IsFiniteSet(DOMAIN Reqs)
        BY <1>1, ReqsAreFinite DEF IInv, SelectFits
      <4> QED
        BY <4>1, ResolvableIsClosed
    <3> QED
      BY <1>3, <3>1, <3>2, <3>3 DEF SettledFits
  <2>5. WorkFits'
    BY <1>1, <1>2, <1>3 DEF WorkFits
  <2> QED
    BY <1>3, <1>4, <2>3, <2>4, <2>5 DEF IInv
<1> QED
  BY <1>5, <1>6

\* The recipe build_all has come to.
LEMMA WantedIsDue ==
    ASSUME IInv, queue # <<>>, NEW n, n = Head(queue)
    PROVE  /\ stage = "build" /\ n \in catalog /\ n \notin Settled
           /\ Reqs[n] \subseteq Settled
           /\ IsClosed(Reqs, catalog) /\ DOMAIN Reqs = catalog /\ IsFiniteSet(DOMAIN Reqs)
           /\ Tail(queue) \in Seq(catalog)
           /\ Waits(Reqs, Settled \cup {n}, Tail(queue))
           /\ Range(queue) = Range(Tail(queue)) \cup {n}
<1>1. queue \in Seq(catalog) /\ Waits(Reqs, Settled, queue) /\ stage = "build"
  BY DEF IInv, QueueFits
<1>2. PICK done, q : done = Settled /\ q = queue
  OBVIOUS
<1>3. /\ n \in catalog /\ n \notin done /\ Reqs[n] \subseteq done /\ Tail(q) \in Seq(catalog)
      /\ Waits(Reqs, done \cup {n}, Tail(q)) /\ Range(q) = Range(Tail(q)) \cup {n}
  BY <1>1, <1>2, WaitsTail
<1>4. IsClosed(Reqs, catalog) /\ DOMAIN Reqs = catalog /\ IsFiniteSet(DOMAIN Reqs)
  BY <1>1, ReqsAreFinite DEF IInv, SettledFits
<1> QED
  BY <1>1, <1>2, <1>3, <1>4

\* The recipe is settled, one way or another, and the next one is looked at.
LEMMA SettlesKeeps ==
    ASSUME IInv, queue # <<>>, UNCHANGED given, UNCHANGED stage, UNCHANGED order,
           UNCHANGED asked, UNCHANGED image, queue' = Tail(queue), work' = Idle,
           Settled' = Settled \cup {Head(queue)}, SettledFits'
    PROVE  IInv'
<1>1. PICK n : n = Head(queue)
  OBVIOUS
<1>2. /\ stage = "build" /\ n \in catalog /\ Tail(queue) \in Seq(catalog)
      /\ Waits(Reqs, Settled \cup {n}, Tail(queue))
      /\ Range(queue) = Range(Tail(queue)) \cup {n}
  BY <1>1, WantedIsDue
<1>3. /\ GivenFits' /\ Reqs' = Reqs /\ catalog' = catalog /\ only' = only
      /\ Names' = Names /\ BaseNames' = BaseNames /\ Idle' = Idle /\ stage' = "build"
      /\ ordered' = ordered
  BY <1>2, ReqsStay DEF Idle, order
<1>4. QueueFits'
  <2>1. ordered \in Seq(catalog) /\ Range(ordered) = Settled \cup Range(queue)
    BY <1>2 DEF IInv, QueueFits
  <2> QED
    BY <1>1, <1>2, <1>3, <2>1 DEF QueueFits
<1>5. SortFits' /\ SelectFits' /\ WorkFits' /\ UploadFits'
  BY <1>3 DEF SortFits, SelectFits, WorkFits, UploadFits
<1>6. ResolveFits'
  <2>1. DOMAIN roots' \subseteq catalog /\ catalog \subseteq Names
    BY <1>3 DEF SettledFits, Settled, IInv, GivenFits
  <2>2. asked # Nobody => BaseNames \subseteq image
    BY DEF IInv, ResolveFits
  <2> QED
    BY <1>3, <2>1, <2>2 DEF ResolveFits
<1> QED
  BY <1>3, <1>4, <1>5, <1>6 DEF IInv

\* A recipe whose requirement failed or was blocked is blocked.
LEMMA BlockKeeps ==
    IInv /\ Block => IInv'
<1> SUFFICES ASSUME IInv, Block PROVE IInv'
  OBVIOUS
<1>1. PICK n : n = Head(queue)
  OBVIOUS
<1>2. /\ UNCHANGED given /\ UNCHANGED stage /\ UNCHANGED order /\ UNCHANGED asked
      /\ UNCHANGED image /\ UNCHANGED roots /\ UNCHANGED failed /\ UNCHANGED work
      /\ queue # <<>> /\ queue' = Tail(queue) /\ work = Idle
      /\ blocked' = blocked \cup {n} /\ HasFailedRequirement(n)
  BY <1>1 DEF Block, Wanted
<1>3. /\ n \in catalog /\ n \notin Settled /\ IsFiniteSet(DOMAIN Reqs)
      /\ Reqs[n] \subseteq Settled /\ DOMAIN Reqs = catalog /\ stage = "build"
  BY <1>1, <1>2, WantedIsDue
<1>4. Reqs' = Reqs /\ catalog' = catalog
  BY <1>2, ReqsStay
<1>5. Closure(Reqs, Reqs[n]) \cap failed # {}
  <2>1. PICK m \in Reqs[n] : m \in failed \cup blocked
    BY <1>2, <1>3, ReqsAreFinite DEF HasFailedRequirement, IInv
  <2>2. m \in Closure(Reqs, Reqs[n])
    BY <1>3, ClosureIsLeast
  <2>3. CASE m \in failed
    BY <2>2, <2>3
  <2>4. CASE m \in blocked
    <3>1. Closure(Reqs, Reqs[m]) \cap failed # {} /\ m \in catalog
      BY <2>4 DEF IInv, SettledFits, Settled
    <3>2. Closure(Reqs, Reqs[m]) \subseteq Closure(Reqs, Reqs[n])
      BY <1>3, <2>2, <3>1, ClosureOfMember
    <3> QED
      BY <3>1, <3>2
  <2> QED
    BY <2>1, <2>3, <2>4
<1>6. Settled' = Settled \cup {n}
  BY <1>2 DEF Settled
<1>7. SettledFits'
  BY <1>2, <1>3, <1>4, <1>5, <1>6 DEF IInv, SettledFits, Settled
<1> QED
  BY <1>1, <1>2, <1>6, <1>7, SettlesKeeps

\* The recipe being built, and the sysroot that is made for it.
LEMMA WorkIsDue ==
    ASSUME IInv, work # Idle, NEW n, n = work.recipe
    PROVE  /\ n = Head(queue) /\ queue # <<>>
           /\ n \in catalog /\ n \notin Settled /\ stage = "build"
           /\ DOMAIN Reqs = catalog /\ IsFiniteSet(DOMAIN Reqs)
           /\ Closure(Reqs, Reqs[n]) \subseteq DOMAIN roots
           /\ Reqs[n] \subseteq DOMAIN roots /\ DOMAIN roots \subseteq catalog
<1>1. n = Head(queue) /\ queue # <<>> /\ Closure(Reqs, Reqs[n]) \subseteq DOMAIN roots
  BY DEF IInv, WorkFits
<1>2. /\ n \in catalog /\ n \notin Settled /\ stage = "build"
      /\ DOMAIN Reqs = catalog /\ IsFiniteSet(DOMAIN Reqs)
  BY <1>1, WantedIsDue
<1>3. DOMAIN roots \subseteq catalog
  BY DEF IInv, SettledFits, Settled
<1>4. Reqs[n] \subseteq Closure(Reqs, Reqs[n])
  BY <1>2, ClosureIsLeast
<1> QED
  BY <1>1, <1>2, <1>3, <1>4

\* A build fails.
LEMMA FailKeeps ==
    ASSUME IInv, work # Idle, Fail
    PROVE  IInv'
<1>1. PICK n : n = work.recipe
  OBVIOUS
<1>2. /\ UNCHANGED given /\ UNCHANGED stage /\ UNCHANGED order /\ UNCHANGED asked
      /\ UNCHANGED image /\ UNCHANGED roots /\ UNCHANGED blocked
      /\ queue' = Tail(queue) /\ work' = Idle /\ failed' = failed \cup {n}
  BY <1>1 DEF Fail
<1>3. /\ n = Head(queue) /\ queue # <<>> /\ n \in catalog /\ n \notin Settled
      /\ stage = "build"
  BY <1>1, WorkIsDue
<1>4. Reqs' = Reqs /\ catalog' = catalog
  BY <1>2, ReqsStay
<1>5. Settled' = Settled \cup {n}
  BY <1>2 DEF Settled
<1>6. SettledFits'
  BY <1>2, <1>3, <1>4, <1>5 DEF IInv, SettledFits, Settled
<1> QED
  BY <1>2, <1>3, <1>5, <1>6, SettlesKeeps

\* The recipe stays under way.
LEMMA WorkingKeeps ==
    ASSUME IInv, stage = "build", UNCHANGED given, UNCHANGED stage, UNCHANGED order,
           UNCHANGED asked, UNCHANGED image, UNCHANGED queue, UNCHANGED roots,
           UNCHANGED failed, UNCHANGED blocked, WorkFits'
    PROVE  IInv'
<1>1. /\ GivenFits' /\ Reqs' = Reqs /\ catalog' = catalog /\ ordered' = ordered
      /\ Settled' = Settled
  BY ReqsStay DEF Settled, order
<1>2. QueueFits'
  BY <1>1 DEF IInv, QueueFits
<1>3. SettledFits'
  BY <1>1 DEF IInv, SettledFits
<1>4. SortFits' /\ SelectFits'
  BY DEF SortFits, SelectFits
<1>5. UploadFits' /\ ResolveFits'
  BY ImagesStay
<1> QED
  BY <1>1, <1>2, <1>3, <1>4, <1>5 DEF IInv

\* A recipe none of whose requirements failed finds them built.
LEMMA PrepareSysrootKeeps ==
    IInv /\ PrepareSysroot => IInv'
<1> SUFFICES ASSUME IInv, PrepareSysroot PROVE IInv'
  OBVIOUS
<1>1. PICK n, reqs : n = Head(queue) /\ reqs = Recipe(n).requires
  OBVIOUS
<1>2. /\ UNCHANGED given /\ UNCHANGED stage /\ UNCHANGED order /\ UNCHANGED asked
      /\ UNCHANGED image /\ UNCHANGED roots /\ UNCHANGED failed /\ UNCHANGED blocked
      /\ UNCHANGED queue /\ queue # <<>> /\ ~HasFailedRequirement(n)
      /\ work' = [recipe |-> n, pc |-> "sysroot", sysroot |-> {}]
      /\ walk' = NewWalk(reqs)
  BY <1>1 DEF PrepareSysroot, Wanted
<1>3. /\ n \in catalog /\ IsFiniteSet(DOMAIN Reqs) /\ Reqs[n] \subseteq Settled
      /\ DOMAIN Reqs = catalog /\ stage = "build"
  BY <1>1, <1>2, WantedIsDue
<1>4. Reqs[n] = Range(reqs) /\ IsList(reqs)
  BY <1>1, <1>3, ReqsAreFinite DEF IInv
<1>5. PICK below : below = Closure(Reqs, Reqs[n])
  OBVIOUS
<1>6. below \subseteq DOMAIN roots
  <2>1. Reqs[n] \subseteq DOMAIN roots
    BY <1>1, <1>2, <1>3, <1>4 DEF HasFailedRequirement, Settled
  <2>2. IsClosed(Reqs, DOMAIN roots)
    BY DEF IInv, SettledFits
  <2> QED
    BY <1>3, <1>5, <2>1, <2>2, ClosureWithin
<1>7. Collecting(Reqs, {}, Reqs[n], below, walk')
  <2>1. Reqs[n] \subseteq below
    BY <1>3, <1>5, ClosureIsLeast
  <2> QED
    BY <1>2, <1>4, <2>1, CollectBegins
<1>8. Reqs' = Reqs /\ catalog' = catalog
  BY <1>2, ReqsStay
<1>9. WorkFits'
  BY <1>1, <1>2, <1>3, <1>5, <1>6, <1>7, <1>8 DEF WorkFits
<1> QED
  BY <1>2, <1>3, <1>9, WorkingKeeps

\* collect_dependencies goes on for a sysroot.
LEMMA SysrootStepKeeps ==
    IInv /\ SysrootStep => IInv'
<1> SUFFICES ASSUME IInv, SysrootStep PROVE IInv'
  OBVIOUS
<1>1. /\ UNCHANGED given /\ UNCHANGED stage /\ UNCHANGED order /\ UNCHANGED asked
      /\ UNCHANGED image /\ UNCHANGED roots /\ UNCHANGED failed /\ UNCHANGED blocked
      /\ UNCHANGED queue /\ UNCHANGED work /\ work.pc = "sysroot" /\ ~Ended(walk)
      /\ walk' = Collect(BuildGraph(catalog), walk)
  BY DEF SysrootStep, progress
<1>2. work # Idle
  BY <1>1 DEF Idle
<1>3. PICK n, below : n = work.recipe /\ below = Closure(Reqs, Reqs[n])
  OBVIOUS
<1>4. stage = "build" /\ IsFiniteSet(DOMAIN Reqs)
  BY <1>2, <1>3, WorkIsDue
<1>5. Collecting(Reqs, {}, Reqs[n], below, walk)
  BY <1>1, <1>2, <1>3 DEF IInv, WorkFits
<1>6. Collecting(Reqs, {}, Reqs[n], below, walk')
  <2>1. ListGraph(BuildGraph(catalog)) /\ Needs(BuildGraph(catalog)) = Reqs
    BY ReqsAreFinite DEF IInv
  <2>2. IsClosed(Reqs, below)
    BY <1>3, <1>4, ClosureIsLeast
  <2> QED
    BY <1>1, <1>5, <2>1, <2>2, CollectKeeps
<1>7. Reqs' = Reqs /\ catalog' = catalog
  BY <1>1, ReqsStay
<1>8. WorkFits'
  BY <1>1, <1>2, <1>3, <1>6, <1>7 DEF IInv, WorkFits
<1> QED
  BY <1>1, <1>4, <1>8, WorkingKeeps

\* What collect_dependencies returns for a list.
LEMMA CollectsClosure ==
    ASSUME NEW h, IsFiniteSet(DOMAIN h), NEW S, NEW C, C = Closure(h, S),
           C \subseteq DOMAIN h, NEW w, Collecting(h, {}, S, C, w), Ended(w)
    PROVE  w.error = "none" /\ Range(w.out) = C
<1>1. PICK have : have = {}
  OBVIOUS
<1>2. Collecting(h, have, S, C, w)
  BY <1>1
<1>3. /\ w.error # "none" => \E n \in C : n \notin DOMAIN h
      /\ w.error = "none" => /\ S \subseteq have \cup Range(w.out)
                             /\ IsClosed(h, have \cup Range(w.out))
                             /\ Range(w.out) \subseteq C
  BY <1>2, CollectEnds, Zenon
<1>4. PICK T : T = Range(w.out)
  OBVIOUS
<1>5. w.error = "none"
  BY <1>3
<1>6. have \cup T = T
  BY <1>1
<1>7. S \subseteq T /\ IsClosed(h, T) /\ T \subseteq C
  BY <1>3, <1>4, <1>5, <1>6
<1>8. C \subseteq T
  BY <1>7, ClosureWithin
<1> QED
  BY <1>4, <1>5, <1>7, <1>8

\* What prepare_sysroot copies.
LEMMA SysrootIsBelow ==
    ASSUME IInv, work.pc = "sysroot", Ended(walk),
           NEW below, below = Closure(Reqs, Reqs[work.recipe])
    PROVE  walk.error = "none" /\ Range(walk.out) = below /\ below \subseteq DOMAIN roots
<1>1. work # Idle
  BY DEF Idle
<1>2. PICK n : n = work.recipe
  OBVIOUS
<1>3. /\ IsFiniteSet(DOMAIN Reqs) /\ below \subseteq DOMAIN roots
      /\ DOMAIN roots \subseteq DOMAIN Reqs
  BY <1>1, <1>2, WorkIsDue
<1>4. Collecting(Reqs, {}, Reqs[n], below, walk)
  BY <1>1, <1>2 DEF IInv, WorkFits
<1> QED
  BY <1>2, <1>3, <1>4, CollectsClosure

\* The sysroot is complete.
LEMMA SysrootDoneKeeps ==
    IInv /\ SysrootDone => IInv'
<1> SUFFICES ASSUME IInv, SysrootDone PROVE IInv'
  OBVIOUS
<1>1. work # Idle /\ work.pc = "sysroot" /\ Ended(walk)
  BY DEF Idle, SysrootDone
<1>2. PICK n, below : n = work.recipe /\ below = Closure(Reqs, Reqs[n])
  OBVIOUS
<1>3. walk.error = "none" /\ Range(walk.out) = below /\ below \subseteq DOMAIN roots
  BY <1>1, <1>2, SysrootIsBelow
<1>4. n \in catalog /\ stage = "build" /\ DOMAIN roots \subseteq catalog
  BY <1>1, <1>2, WorkIsDue
<1>5. /\ UNCHANGED given /\ UNCHANGED stage /\ UNCHANGED order /\ UNCHANGED asked
      /\ UNCHANGED image /\ UNCHANGED roots /\ UNCHANGED failed /\ UNCHANGED blocked
      /\ UNCHANGED queue
      /\ work' = [work EXCEPT !.pc = "configure", !.sysroot = below]
  BY <1>3 DEF SysrootDone
<1>6. work' = [recipe |-> n, pc |-> "configure", sysroot |-> below]
  BY <1>1, <1>2, <1>5 DEF IInv, WorkFits
<1>7. Reqs' = Reqs /\ catalog' = catalog
  BY <1>5, ReqsStay
<1>8. WorkFits'
  BY <1>1, <1>2, <1>3, <1>4, <1>5, <1>6, <1>7 DEF IInv, WorkFits
<1> QED
  BY <1>4, <1>5, <1>8, WorkingKeeps

\* The phases of the recipe.
LEMMA BuildKeeps ==
    IInv /\ Build => IInv'
<1> SUFFICES ASSUME IInv, Build PROVE IInv'
  OBVIOUS
<1>1. work # Idle /\ work.pc = "configure"
  BY DEF Idle, Build
<1>2. CASE Lacks = {}
  <2>1. /\ UNCHANGED given /\ UNCHANGED stage /\ UNCHANGED order /\ UNCHANGED asked
        /\ UNCHANGED image /\ UNCHANGED roots /\ UNCHANGED failed /\ UNCHANGED blocked
        /\ UNCHANGED queue /\ work' = [work EXCEPT !.pc = "check"]
    BY <1>2 DEF Build
  <2>2. stage = "build"
    BY <1>1, WorkIsDue
  <2>3. work' = [recipe |-> work.recipe, pc |-> "check", sysroot |-> work.sysroot]
    BY <1>1, <2>1 DEF IInv, WorkFits
  <2>4. Reqs' = Reqs /\ catalog' = catalog
    BY <2>1, ReqsStay
  <2>5. WorkFits'
    BY <1>1, <2>1, <2>3, <2>4 DEF IInv, WorkFits
  <2> QED
    BY <2>1, <2>2, <2>5, WorkingKeeps
<1>3. CASE Lacks # {}
  BY <1>1, <1>3, FailKeeps DEF Build
<1> QED
  BY <1>2, <1>3

\* The recipe was built, or fails its last check.
LEMMA CheckScriptsKeeps ==
    IInv /\ CheckScripts => IInv'
<1> SUFFICES ASSUME IInv, CheckScripts PROVE IInv'
  OBVIOUS
<1>1. work # Idle /\ work.pc = "check"
  BY DEF Idle, CheckScripts
<1>2. CASE Fail
  BY <1>1, <1>2, FailKeeps
<1>3. CASE ~Fail
  <2>1. PICK n : n = work.recipe
    OBVIOUS
  <2>2. /\ UNCHANGED given /\ UNCHANGED stage /\ UNCHANGED order /\ UNCHANGED asked
        /\ UNCHANGED image /\ UNCHANGED failed /\ UNCHANGED blocked
        /\ queue' = Tail(queue) /\ work' = Idle
        /\ roots' = [m \in DOMAIN roots \cup {n} |->
                       IF m = n THEN Linked ELSE roots[m]]
    BY <1>3, <2>1 DEF CheckScripts
  <2>3. DOMAIN roots' = DOMAIN roots \cup {n}
    BY <2>2
  <2>4. /\ n = Head(queue) /\ queue # <<>> /\ n \in catalog /\ n \notin Settled
        /\ stage = "build" /\ Reqs[n] \subseteq DOMAIN roots
    BY <1>1, <2>1, WorkIsDue
  <2>5. Reqs' = Reqs /\ catalog' = catalog
    BY <2>2, ReqsStay
  <2>6. Settled' = Settled \cup {n}
    BY <2>2, <2>3 DEF Settled
  <2>7. IsClosed(Reqs, DOMAIN roots')
    <3>1. IsClosed(Reqs, DOMAIN roots)
      BY DEF IInv, SettledFits
    <3> QED
      BY <2>3, <2>4, <3>1 DEF IsClosed
  <2>8. SettledFits'
    BY <2>2, <2>3, <2>4, <2>5, <2>6, <2>7 DEF IInv, SettledFits, Settled
  <2> QED
    BY <2>2, <2>4, <2>6, <2>8, SettlesKeeps
<1> QED
  BY <1>2, <1>3

\* A build fails for a reason of the day.
LEMMA AccidentKeeps ==
    IInv /\ Accident => IInv'
  BY FailKeeps DEF Accident

\* The steps after the build leave its results alone.
LEMMA AfterBuildKeeps ==
    ASSUME IInv, UNCHANGED given, UNCHANGED order, UNCHANGED progress,
           stage \in {"build", "upload", "published", "resolve"},
           queue = <<>> /\ work = Idle,
           stage' \in {"upload", "published", "resolve", "refused"},
           stage' = "upload" => failed \cup blocked = {},
           stage' = "upload" => stage \in {"build", "upload"},
           UploadFits', ResolveFits'
    PROVE  IInv'
<1>1. GivenFits' /\ UNCHANGED ordered
  BY ReqsStay DEF order
<1>2. SortFits' /\ SelectFits'
  BY DEF SortFits, SelectFits
<1>3. QueueFits' /\ SettledFits' /\ WorkFits'
  BY <1>1, ProgressStays
<1> QED
  BY <1>1, <1>2, <1>3 DEF IInv

\* upload_all orders known packages.
LEMMA WaveIsKnown ==
    ASSUME IInv, stage \in {"build", "upload"}, NEW W, W = Range(ordered)
    PROVE  W \subseteq Names /\ IsList(ordered)
<1>1. ordered \in Seq(catalog) /\ catalog \subseteq Names
  BY DEF IInv, QueueFits, GivenFits
<1> QED
  BY <1>1, RangeIsElements DEF IsList

\* upload_all begins.
LEMMA StartUploadKeeps ==
    IInv /\ StartUpload => IInv'
<1> SUFFICES ASSUME IInv, StartUpload PROVE IInv'
  OBVIOUS
<1>1. /\ UNCHANGED given /\ UNCHANGED order /\ UNCHANGED progress /\ UNCHANGED image
      /\ UNCHANGED asked /\ stage = "build" /\ queue = <<>> /\ stage' = "upload"
      /\ failed \cup blocked = {} /\ walk' = NewWalk(ordered)
  BY DEF StartUpload
<1>2. work = Idle
  BY <1>1 DEF IInv, WorkFits
<1>3. PICK s, g : s = ordered /\ g = UploadGraph(InstallGraph(Names), Range(ordered))
  OBVIOUS
<1>4. IsList(s) /\ ListGraph(g)
  <2>1. PICK W : W = Range(ordered)
    OBVIOUS
  <2>2. W \subseteq Names /\ IsList(ordered)
    BY <1>1, <2>1, WaveIsKnown
  <2> QED
    BY <1>3, <2>1, <2>2, UploadNeeds DEF IInv
<1>5. Visiting(Needs(g), Range(s), NewWalk(s))
  <2>1. PICK h : h = Needs(g)
    OBVIOUS
  <2> QED
    BY <1>4, <2>1, NeedsOfLists, VisitBegins
<1>6. UploadFits'
  <2>1. /\ ordered' = s
        /\ Needs(UploadGraph(InstallGraph(Names), Range(ordered)))' = Needs(g)
    BY <1>1, <1>3, UploadNeedsStay DEF order
  <2> QED
    BY <1>1, <1>3, <1>5, <2>1 DEF UploadFits
<1>7. ResolveFits'
  <2>1. UNCHANGED roots /\ GivenFits'
    BY <1>1, ReqsStay DEF progress
  <2> QED
    BY <1>1, <2>1, ReqsStay DEF ResolveFits, IInv
<1> QED
  BY <1>1, <1>2, <1>6, <1>7, AfterBuildKeeps

\* order_uploads goes on.
LEMMA UploadStepKeeps ==
    IInv /\ UploadStep => IInv'
<1> SUFFICES ASSUME IInv, UploadStep PROVE IInv'
  OBVIOUS
<1>1. PICK s, g : s = ordered /\ g = UploadGraph(InstallGraph(Names), Range(ordered))
  OBVIOUS
<1>2. /\ UNCHANGED given /\ UNCHANGED order /\ UNCHANGED progress /\ UNCHANGED image
      /\ UNCHANGED asked /\ stage = "upload" /\ stage' = "upload"
      /\ walk' = Visit(g, walk) /\ ~Ended(walk)
  BY <1>1 DEF UploadStep
<1>3. queue = <<>> /\ work = Idle /\ failed \cup blocked = {}
  BY <1>2 DEF IInv, QueueFits
<1>4. ListGraph(g)
  <2>1. PICK W : W = Range(ordered)
    OBVIOUS
  <2>2. W \subseteq Names
    BY <1>2, <2>1, WaveIsKnown
  <2> QED
    BY <1>1, <2>1, <2>2, UploadNeeds DEF IInv
<1>5. Visiting(Needs(g), Range(s), walk')
  <2>1. Visiting(Needs(g), Range(s), walk)
    BY <1>1, <1>2 DEF IInv, UploadFits
  <2> QED
    BY <1>2, <1>4, <2>1, VisitKeeps
<1>6. UploadFits'
  <2>1. /\ ordered' = s
        /\ Needs(UploadGraph(InstallGraph(Names), Range(ordered)))' = Needs(g)
    BY <1>1, <1>2, UploadNeedsStay DEF order
  <2> QED
    BY <1>1, <1>5, <2>1 DEF UploadFits
<1>7. ResolveFits'
  <2>1. UNCHANGED roots
    BY <1>2 DEF progress
  <2> QED
    BY <1>2, <2>1, ReqsStay DEF ResolveFits, IInv
<1> QED
  BY <1>2, <1>3, <1>6, <1>7, AfterBuildKeeps

\* order_uploads has returned or raised.
LEMMA UploadDoneKeeps ==
    IInv /\ UploadDone => IInv'
<1> SUFFICES ASSUME IInv, UploadDone PROVE IInv'
  OBVIOUS
<1>1. /\ UNCHANGED given /\ UNCHANGED order /\ UNCHANGED progress /\ UNCHANGED image
      /\ UNCHANGED asked /\ stage = "upload" /\ stage' \in {"published", "refused"}
  BY DEF UploadDone
<1>2. queue = <<>> /\ work = Idle /\ UNCHANGED roots
  BY <1>1 DEF IInv, QueueFits, progress
<1>3. UploadFits' /\ ResolveFits'
  BY <1>1, <1>2, ImagesStay
<1> QED
  BY <1>1, <1>2, <1>3, AfterBuildKeeps

\* What pup is asked for is a list.
LEMMA WishIsAList ==
    /\ IsList(Base)
    /\ \A n : IsList(<<n>>) /\ Range(<<n>>) = {n}
  BY DEF IsList, Range, Base

\* pup starts to resolve a list.
LEMMA ResolveBegins ==
    ASSUME IInv, NEW names, IsList(names), UNCHANGED given, UNCHANGED roots,
           walk' = NewWalk(names), Wish' = Range(names),
           (asked # Nobody => BaseNames \subseteq image)'
    PROVE  ResolveFits'
<1>1. DOMAIN roots \subseteq Names
  BY DEF IInv, ResolveFits
<1>2. PICK h : h = InstallNeeds(DOMAIN roots)
  OBVIOUS
<1>3. IsFiniteSet(DOMAIN h)
  BY <1>1, <1>2, GraphNeeds DEF IInv
<1>4. Visiting(h, Range(names), NewWalk(names))
  BY <1>3, VisitBegins
<1>5. InstallNeeds(DOMAIN roots)' = h
  BY <1>2, InstallNeedsStay
<1> QED
  BY <1>1, <1>4, <1>5, ReqsStay DEF ResolveFits

\* The base image is asked for when nobody has asked for a package.
LEMMA AssembleBaseKeeps ==
    IInv /\ AssembleBase => IInv'
<1> SUFFICES ASSUME IInv, AssembleBase PROVE IInv'
  OBVIOUS
<1>1. /\ UNCHANGED given /\ UNCHANGED order /\ UNCHANGED progress /\ UNCHANGED image
      /\ UNCHANGED asked /\ stage = "published" /\ stage' = "resolve"
      /\ walk' = NewWalk(Base) /\ ~(BaseNames \subseteq image)
  BY DEF AssembleBase
<1>2. queue = <<>> /\ work = Idle /\ UNCHANGED roots
  BY <1>1 DEF IInv, QueueFits, progress
<1>3. asked = Nobody
  BY <1>1 DEF IInv, ResolveFits
<1>4. Wish' = Range(Base)
  BY <1>1, <1>3 DEF Wish
<1>5. UploadFits' /\ ResolveFits'
  <2>1. PICK names : names = Base
    OBVIOUS
  <2> QED
    BY <1>1, <1>2, <1>3, <1>4, <2>1, WishIsAList, ResolveBegins DEF UploadFits
<1> QED
  BY <1>1, <1>2, <1>5, AfterBuildKeeps

\* A user asks for a package.
LEMMA RequestKeeps ==
    ASSUME IInv, NEW n \in Names, Request(n)
    PROVE  IInv'
<1>1. /\ UNCHANGED given /\ UNCHANGED order /\ UNCHANGED progress /\ UNCHANGED image
      /\ asked' = n /\ stage = "published" /\ stage' = "resolve"
      /\ walk' = NewWalk(<<n>>) /\ BaseNames \subseteq image
  BY DEF Request
<1>2. queue = <<>> /\ work = Idle /\ UNCHANGED roots
  BY <1>1 DEF IInv, QueueFits, progress
<1>3. n # Nobody
  BY GivenLists DEF IInv
<1>4. PICK names : names = <<n>>
  OBVIOUS
<1>5. IsList(names) /\ Range(names) = {n}
  BY <1>4, WishIsAList
<1>6. Wish' = Range(names)
  BY <1>1, <1>3, <1>5 DEF Wish
<1>7. BaseNames' \subseteq image'
  BY <1>1, ReqsStay
<1>8. UploadFits' /\ ResolveFits'
  BY <1>1, <1>2, <1>4, <1>5, <1>6, <1>7, ResolveBegins DEF UploadFits
<1> QED
  BY <1>1, <1>2, <1>8, AfterBuildKeeps

\* pup goes on to resolve.
LEMMA ResolveStepKeeps ==
    IInv /\ ResolveStep => IInv'
<1> SUFFICES ASSUME IInv, ResolveStep PROVE IInv'
  OBVIOUS
<1>1. PICK S, g : S = DOMAIN roots /\ g = InstallGraph(DOMAIN roots)
  OBVIOUS
<1>2. /\ UNCHANGED given /\ UNCHANGED order /\ UNCHANGED progress /\ UNCHANGED image
      /\ UNCHANGED asked /\ stage = "resolve" /\ stage' = "resolve"
      /\ walk' = Visit(g, walk) /\ ~Ended(walk)
  BY <1>1 DEF ResolveStep
<1>3. queue = <<>> /\ work = Idle /\ UNCHANGED roots
  BY <1>2 DEF IInv, QueueFits, progress
<1>4. ListGraph(g) /\ Needs(g) = InstallNeeds(S)
  <2>1. S \subseteq Names
    BY <1>1 DEF IInv, ResolveFits
  <2> QED
    BY <1>1, <2>1, GraphNeeds DEF IInv
<1>5. Visiting(InstallNeeds(S), Wish, walk')
  <2>1. PICK h : h = Needs(g)
    OBVIOUS
  <2>2. Visiting(h, Wish, walk)
    BY <1>1, <1>2, <1>4, <2>1 DEF IInv, ResolveFits
  <2> QED
    BY <1>2, <1>4, <2>1, <2>2, VisitKeeps
<1>6. ResolveFits'
  <2>1. InstallNeeds(DOMAIN roots)' = InstallNeeds(S) /\ Wish' = Wish
    BY <1>1, <1>2, <1>3, InstallNeedsStay DEF Wish
  <2> QED
    BY <1>2, <1>3, <1>5, <2>1, ReqsStay DEF ResolveFits, IInv
<1>7. UploadFits'
  BY <1>2 DEF UploadFits
<1> QED
  BY <1>2, <1>3, <1>6, <1>7, AfterBuildKeeps

\* pup has a plan or refuses.
LEMMA ResolveDoneKeeps ==
    IInv /\ ResolveDone => IInv'
<1> SUFFICES ASSUME IInv, ResolveDone PROVE IInv'
  OBVIOUS
<1>1. /\ UNCHANGED given /\ UNCHANGED order /\ UNCHANGED progress /\ UNCHANGED image
      /\ UNCHANGED asked /\ stage = "resolve" /\ stage' \in {"published", "refused"}
  BY DEF ResolveDone
<1>2. queue = <<>> /\ work = Idle /\ UNCHANGED roots
  BY <1>1 DEF IInv, QueueFits, progress
<1>3. UploadFits' /\ ResolveFits'
  BY <1>1, <1>2, ImagesStay
<1> QED
  BY <1>1, <1>2, <1>3, AfterBuildKeeps

\* pup installs the next package of the plan.
LEMMA InstallKeeps ==
    IInv /\ Install => IInv'
<1> SUFFICES ASSUME IInv, Install PROVE IInv'
  OBVIOUS
<1>1. /\ UNCHANGED given /\ UNCHANGED order /\ UNCHANGED progress /\ UNCHANGED stage
      /\ UNCHANGED asked /\ UNCHANGED walk /\ image \subseteq image'
  BY DEF Install
<1>2. UNCHANGED roots /\ UNCHANGED ordered /\ UNCHANGED selected /\ UNCHANGED todo
  BY <1>1 DEF order, progress
<1>3. GivenFits' /\ SortFits' /\ SelectFits'
  BY <1>1, <1>2, ReqsStay, SortStays, SelectStays
<1>4. QueueFits' /\ SettledFits' /\ WorkFits'
  BY <1>1, <1>2, ProgressStays DEF IInv, QueueFits
<1>5. UploadFits' /\ ResolveFits'
  BY <1>1, <1>2, ImagesStay
<1> QED
  BY <1>3, <1>4, <1>5 DEF IInv

\* Nothing happens.
LEMMA StutterKeeps ==
    IInv /\ UNCHANGED vars => IInv'
<1> SUFFICES ASSUME IInv, UNCHANGED vars PROVE IInv'
  OBVIOUS
<1>1. /\ UNCHANGED given /\ UNCHANGED order /\ UNCHANGED progress /\ UNCHANGED stage
      /\ UNCHANGED asked /\ UNCHANGED walk /\ UNCHANGED image
  BY DEF vars
<1>2. UNCHANGED roots /\ UNCHANGED ordered /\ UNCHANGED selected /\ UNCHANGED todo
  BY <1>1 DEF order, progress
<1>3. GivenFits' /\ SortFits' /\ SelectFits'
  BY <1>1, <1>2, ReqsStay, SortStays, SelectStays
<1>4. QueueFits' /\ SettledFits' /\ WorkFits'
  BY <1>1, <1>2, ProgressStays DEF IInv, QueueFits
<1>5. UploadFits' /\ ResolveFits'
  BY <1>1, <1>2, ImagesStay
<1> QED
  BY <1>3, <1>4, <1>5 DEF IInv

\* The invariant of the run.
THEOREM Inductive == Spec => []IInv
<1>1. IInv /\ [Next]_vars => IInv'
  BY SortStepKeeps, SortDoneKeeps, SelectStepKeeps, SelectNextKeeps, SelectDoneKeeps,
     BlockKeeps, PrepareSysrootKeeps, SysrootStepKeeps, SysrootDoneKeeps, BuildKeeps,
     CheckScriptsKeeps, AccidentKeeps, StartUploadKeeps, UploadStepKeeps,
     UploadDoneKeeps, AssembleBaseKeeps, RequestKeeps, ResolveStepKeeps,
     ResolveDoneKeeps, InstallKeeps, StutterKeeps DEF Next
<1> QED
  BY InitHolds, <1>1, PTL DEF Spec

-----------------------------------------------------------------------------
(* What the run promises.                                                  *)

\* Below looks at the whole catalogue; what is loaded leads to the same.
LEMMA BelowIsClosure ==
    ASSUME IInv, IsClosed(Reqs, catalog), NEW n \in catalog
    PROVE  Below(n) = Closure(Reqs, Reqs[n])
<1>1. PICK all, h : all = BuildNeeds(Names) /\ h = Reqs
  OBVIOUS
<1>2. /\ DOMAIN h = catalog /\ IsFiniteSet(DOMAIN h) /\ catalog \subseteq Names
      /\ DOMAIN all = Names /\ IsFiniteSet(DOMAIN all)
  BY <1>1, ReqsAreFinite, GivenLists DEF IInv, GivenFits, BuildNeeds
<1>3. \A m \in catalog : all[m] = h[m]
  BY <1>1, <1>2 DEF Reqs, BuildNeeds
<1>4. Below(n) = Closure(all, all[n])
  <2>1. CASE graph = Nobody
    <3>1. PICK needs : needs = [m \in DOMAIN Packages |-> Range(Packages[m].requires)]
      OBVIOUS
    <3>2. needs = all /\ DOMAIN Packages = Names
      BY <1>1, <2>1, <3>1 DEF BuildNeeds, Names, Recipe, Shelf
    <3>3. PackagesBelow = [m \in DOMAIN Packages |-> Closure(needs, needs[m])]
      BY <3>1 DEF PackagesBelow
    <3> QED
      BY <1>2, <2>1, <3>2, <3>3 DEF Below
  <2>2. CASE graph # Nobody
    BY <1>1, <2>2 DEF Below
  <2> QED
    BY <2>1, <2>2
<1>5. PICK T, U : T = Closure(h, h[n]) /\ U = Closure(all, h[n])
  OBVIOUS
<1>6. /\ h[n] \subseteq T /\ IsClosed(h, T) /\ h[n] \subseteq U /\ IsClosed(all, U)
  BY <1>2, <1>5, ClosureIsLeast
<1>7. T \subseteq catalog
  <2>1. h[n] \subseteq catalog
    BY <1>1, <1>2 DEF IsClosed
  <2> QED
    BY <1>1, <1>2, <1>5, <2>1, ClosureWithin
<1>8. U \subseteq T
  <2>1. IsClosed(all, T)
    BY <1>2, <1>3, <1>6, <1>7 DEF IsClosed
  <2> QED
    BY <1>2, <1>5, <1>6, <2>1, ClosureWithin
<1>9. T \subseteq U
  <2>1. IsClosed(h, U)
    BY <1>2, <1>3, <1>6 DEF IsClosed
  <2> QED
    BY <1>2, <1>5, <1>6, <2>1, ClosureWithin
<1> QED
  BY <1>1, <1>3, <1>4, <1>5, <1>8, <1>9

\* A recipe is blocked only if something it is built on failed, and one that
\* was built is built on nothing that failed or was blocked.
THEOREM FailuresStayBelow == Spec => []OnlyDependentsAreBlocked
<1>1. IInv => OnlyDependentsAreBlocked
  <2> SUFFICES ASSUME IInv PROVE OnlyDependentsAreBlocked
    OBVIOUS
  <2>1. \A n \in blocked : Below(n) \cap failed # {}
    <3> SUFFICES ASSUME NEW n \in blocked PROVE Below(n) \cap failed # {}
      OBVIOUS
    <3>1. /\ n \in catalog /\ IsClosed(Reqs, catalog)
          /\ Closure(Reqs, Reqs[n]) \cap failed # {}
      BY DEF IInv, SettledFits, Settled
    <3> QED
      BY <3>1, BelowIsClosure
  <2>2. \A n \in DOMAIN roots : Below(n) \cap (failed \cup blocked) = {}
    <3> SUFFICES ASSUME NEW n \in DOMAIN roots
                 PROVE  Below(n) \cap (failed \cup blocked) = {}
      OBVIOUS
    <3>1. /\ n \in catalog /\ IsClosed(Reqs, catalog) /\ IsClosed(Reqs, DOMAIN roots)
          /\ DOMAIN roots \cap (failed \cup blocked) = {}
      BY DEF IInv, SettledFits, Settled
    <3>2. DOMAIN Reqs = catalog /\ IsFiniteSet(DOMAIN Reqs)
      BY ReqsAreFinite DEF IInv
    <3>3. Reqs[n] \subseteq DOMAIN roots
      BY <3>1, <3>2 DEF IsClosed
    <3>4. Closure(Reqs, Reqs[n]) \subseteq DOMAIN roots
      BY <3>1, <3>2, <3>3, ClosureWithin
    <3> QED
      BY <3>1, <3>4, BelowIsClosure
  <2> QED
    BY <2>1, <2>2 DEF OnlyDependentsAreBlocked
<1> QED
  BY Inductive, <1>1, PTL

\* prepare_sysroot always finds the roots it copies, and what it makes for a
\* recipe is what the recipe is built on, all of it and nothing else.
SysrootsAreExact ==
    /\ work.pc = "sysroot" /\ Ended(walk) =>
          walk.error = "none" /\ Range(walk.out) \subseteq DOMAIN roots
    /\ work.pc \in {"configure", "check"} =>
          work.sysroot = Below(work.recipe) /\ work.sysroot \subseteq DOMAIN roots

\* prepare_sysroot never fails on a recipe build_all hands it, and what a
\* recipe sees in its sysroot is the closure of its build_requires.
THEOREM SysrootsHaveWhatIsBelow == Spec => []SysrootsAreExact
<1>1. IInv => SysrootsAreExact
  <2> SUFFICES ASSUME IInv PROVE SysrootsAreExact
    OBVIOUS
  <2>1. PICK below : below = Closure(Reqs, Reqs[work.recipe])
    OBVIOUS
  <2>2. work.pc = "sysroot" /\ Ended(walk) =>
           walk.error = "none" /\ Range(walk.out) \subseteq DOMAIN roots
    BY <2>1, SysrootIsBelow
  <2>3. ASSUME work.pc \in {"configure", "check"}
        PROVE  work.sysroot = Below(work.recipe) /\ work.sysroot \subseteq DOMAIN roots
    <3>1. work # Idle
      BY <2>3 DEF Idle
    <3>2. PICK n : n = work.recipe
      OBVIOUS
    <3>3. n \in catalog /\ stage = "build"
      BY <3>1, <3>2, WorkIsDue
    <3>4. IsClosed(Reqs, catalog)
      BY <3>3 DEF IInv, SettledFits
    <3>5. work.sysroot = below /\ below \subseteq DOMAIN roots
      BY <2>1, <2>3, <3>1 DEF IInv, WorkFits
    <3> QED
      BY <2>1, <3>2, <3>3, <3>4, <3>5, BelowIsClosure
  <2> QED
    BY <2>2, <2>3 DEF SysrootsAreExact
<1> QED
  BY Inductive, <1>1, PTL

\* Where the stage changes.
LEMMA StageChanges ==
    ASSUME Next, stage' # stage
    PROVE  \/ SortDone \/ SelectNext \/ SelectDone \/ StartUpload \/ UploadDone
           \/ AssembleBase \/ ResolveDone \/ \E n \in Names : Request(n)
<1>1. ~SortStep /\ ~SelectStep /\ ~Block /\ ~PrepareSysroot /\ ~SysrootStep
  BY DEF SortStep, SelectStep, Block, PrepareSysroot, SysrootStep
<1>2. ~SysrootDone /\ ~Build /\ ~CheckScripts /\ ~Accident
  BY DEF SysrootDone, Build, CheckScripts, Accident, Fail
<1>3. ~UploadStep /\ ~ResolveStep /\ ~Install
  BY DEF UploadStep, ResolveStep, Install
<1> QED
  BY <1>1, <1>2, <1>3 DEF Next

\* The names that were asked for are known exactly if all they lead to is.
LEMMA SelectionIsKnown ==
    ASSUME IInv, stage = "select"
    PROVE  /\ Resolvable(Reqs, catalog)
           /\ Range(only) \subseteq catalog => Closure(Reqs, Range(only)) \subseteq catalog
           /\ only # <<>>
<1>1. Resolvable(Reqs, catalog) /\ only # <<>>
  BY DEF IInv, SelectFits
<1>2. DOMAIN Reqs = catalog /\ IsFiniteSet(DOMAIN Reqs)
  BY ReqsAreFinite DEF IInv
<1>3. IsClosed(Reqs, catalog)
  BY <1>1, <1>2, ResolvableIsClosed
<1> QED
  BY <1>1, <1>2, <1>3, ClosureWithin

\* collect_dependencies fails on an unknown name only.
LEMMA SelectionFails ==
    ASSUME IInv, stage = "select", Ended(walk), walk.error # "none"
    PROVE  ~(Range(only) \subseteq catalog)
<1>1. PICK h, w, C, have, N : /\ h = Reqs /\ w = walk /\ C = Closure(Reqs, Range(only))
                             /\ have = selected /\ N = {}
  OBVIOUS
<1>2. Collecting(h, have, N, C, w) /\ Ended(w) /\ w.error # "none"
  BY <1>1 DEF IInv, SelectFits
<1>3. \E n \in C : n \notin DOMAIN h
  BY <1>2, CollectEnds, Zenon
<1>4. DOMAIN h = catalog
  BY <1>1, ReqsAreFinite DEF IInv
<1> QED
  BY <1>1, <1>3, <1>4, SelectionIsKnown

\* main builds a plan of the closure of what it was asked for, or nothing.
THEOREM BuildsInOrder == Spec => BuildOrderIsAPlan
<1> DEFINE A ==
        stage' \notin {"sort", "select"} /\ stage \in {"sort", "select"} =>
          LET h == BuildNeeds(catalog) IN
          /\ stage' = "build" <=> Resolvable(h, catalog) /\ Range(only) \subseteq catalog
          /\ stage' = "build" =>
                IsPlan(h, queue', IF only = <<>> THEN catalog
                                  ELSE Closure(h, Range(only)))
<1>1. ASSUME IInv, [Next]_vars
      PROVE  A
  <2>1. SUFFICES ASSUME Next, stage' \notin {"sort", "select"},
                        stage \in {"sort", "select"}
                 PROVE  /\ stage' = "build" <=> /\ Resolvable(Reqs, catalog)
                                                /\ Range(only) \subseteq catalog
                        /\ stage' = "build" =>
                              IsPlan(Reqs, queue', IF only = <<>> THEN catalog
                                                   ELSE Closure(Reqs, Range(only)))
    BY <1>1 DEF vars, Reqs
  <2>2. SortDone \/ SelectNext \/ SelectDone
    <3>1. stage' # stage
      BY <2>1
    <3>2. ~StartUpload /\ ~UploadDone /\ ~AssembleBase /\ ~ResolveDone
          /\ ~\E n \in Names : Request(n)
      BY <2>1 DEF StartUpload, UploadDone, AssembleBase, ResolveDone, Request
    <3> QED
      BY <2>1, <3>1, <3>2, StageChanges
  <2>3. DOMAIN Reqs = catalog /\ IsFiniteSet(DOMAIN Reqs)
    BY <1>1, ReqsAreFinite DEF IInv
  <2>4. CASE SortDone
    <3>1. stage = "sort" /\ Ended(walk) /\ Visiting(Reqs, catalog, walk)
      BY <1>1, <2>4 DEF SortDone, IInv, SortFits
    <3>2. /\ walk.error = "none" <=> Resolvable(Reqs, catalog)
          /\ walk.error = "none" => IsPlan(Reqs, walk.out, Closure(Reqs, catalog))
      BY <2>3, <3>1, VisitEnds
    <3>3. CASE walk.error # "none"
      BY <2>4, <3>2, <3>3 DEF SortDone
    <3>4. CASE walk.error = "none"
      <4>1. stage' = "build" /\ only = <<>> /\ queue' = walk.out
        BY <2>1, <2>4, <3>4 DEF SortDone
      <4>2. Closure(Reqs, catalog) = catalog
        BY <2>3, <3>2, <3>4, ResolvableIsClosed
      <4>3. Range(<<>>) = {}
        BY DEF Range
      <4> QED
        BY <3>2, <3>4, <4>1, <4>2, <4>3
    <3> QED
      BY <3>3, <3>4
  <2>5. CASE SelectNext
    <3>1. /\ stage = "select" /\ Ended(walk) /\ stage' = "refused"
          /\ walk.error # "none" \/ Head(todo) \notin catalog
          /\ todo # <<>>
      BY <2>1, <2>5 DEF SelectNext
    <3>2. Head(todo) \in Range(only)
      <4>1. todo \in Seq(Range(only))
        BY <1>1, <3>1 DEF IInv, SelectFits
      <4> QED
        BY <3>1, <4>1
    <3>3. ~(Range(only) \subseteq catalog)
      BY <1>1, <3>1, <3>2, SelectionFails
    <3> QED
      BY <3>1, <3>3
  <2>6. CASE SelectDone
    <3>1. stage = "select" /\ Ended(walk)
      BY <2>6 DEF SelectDone
    <3>2. CASE walk.error # "none"
      <4>1. stage' = "refused"
        BY <2>6, <3>2 DEF SelectDone
      <4> QED
        BY <1>1, <3>1, <3>2, <4>1, SelectionFails
    <3>3. CASE walk.error = "none"
      <4>1. stage' = "build" /\ queue' = ordered'
        BY <2>6, <3>3 DEF SelectDone
      <4>2. /\ Range(only) \subseteq catalog
            /\ selected' = Closure(Reqs, Range(only))
            /\ ordered' \in Seq(catalog) /\ IsOrder(Reqs, ordered')
            /\ Range(ordered') = selected'
        BY <1>1, <2>6, <3>3, SelectionIsOrdered
      <4>3. Resolvable(Reqs, catalog) /\ only # <<>>
        BY <1>1, <3>1, SelectionIsKnown
      <4>4. PICK q : q = ordered'
        OBVIOUS
      <4>5. IsPlan(Reqs, q, Range(q))
        BY <2>3, <4>2, <4>4, OrderIsPlan
      <4> QED
        BY <4>1, <4>2, <4>3, <4>4, <4>5
    <3> QED
      BY <3>2, <3>3
  <2> QED
    BY <2>2, <2>4, <2>5, <2>6
<1>2. BuildOrderIsAPlan <=> [][A]_vars
  BY DEF BuildOrderIsAPlan
<1> HIDE DEF A
<1> QED
  BY Inductive, <1>1, <1>2, PTL DEF Spec

\* order_uploads returns a plan of what was built, or refuses a cycle in it.
THEOREM UploadsInOrder == Spec => UploadsFollowDependencies
<1> DEFINE A ==
        stage = "upload" /\ stage' # "upload" =>
          LET wave == DOMAIN roots
              inside == [n \in wave |-> InstallNeeds(wave)[n] \cap wave]
          IN /\ stage' = "published" <=> Resolvable(inside, wave)
             /\ stage' = "published" => IsPlan(inside, walk.out, wave)
<1>1. ASSUME IInv, [Next]_vars
      PROVE  A
  <2> DEFINE wave == DOMAIN roots
             inside == [n \in wave |-> InstallNeeds(wave)[n] \cap wave]
  <2>1. SUFFICES ASSUME Next, stage = "upload", stage' # "upload"
                 PROVE  /\ stage' = "published" <=> Resolvable(inside, wave)
                        /\ stage' = "published" => IsPlan(inside, walk.out, wave)
    BY <1>1 DEF vars
  <2>2. UploadDone
    <3>1. ~SortDone /\ ~SelectNext /\ ~SelectDone /\ ~StartUpload /\ ~AssembleBase
          /\ ~ResolveDone /\ ~\E n \in Names : Request(n)
      BY <2>1 DEF SortDone, SelectNext, SelectDone, StartUpload, AssembleBase,
                  ResolveDone, Request
    <3> QED
      BY <2>1, <3>1, StageChanges
  <2>3. Range(ordered) = wave /\ wave \subseteq Names
    <3>1. /\ queue = <<>> /\ failed \cup blocked = {}
          /\ Range(ordered) = Settled \cup Range(queue)
      BY <1>1, <2>1 DEF IInv, QueueFits
    <3>2. Range(<<>>) = {}
      BY DEF Range
    <3> QED
      BY <1>1, <3>1, <3>2 DEF Settled, IInv, ResolveFits
  <2>4. /\ Needs(UploadGraph(InstallGraph(Names), wave)) = inside
        /\ IsFiniteSet(wave)
    <3>1. PICK W : W = wave
      OBVIOUS
    <3> QED
      BY <1>1, <2>3, <3>1, UploadNeeds, GraphNeeds DEF IInv
  <2>5. Visiting(inside, wave, walk) /\ Ended(walk)
    BY <1>1, <2>1, <2>2, <2>3, <2>4 DEF IInv, UploadFits, UploadDone
  <2>6. PICK h, W : h = inside /\ W = wave
    OBVIOUS
  <2>7. DOMAIN h = W /\ IsFiniteSet(DOMAIN h)
    BY <2>4, <2>6
  <2> HIDE DEF inside, wave
  <2>8. /\ walk.error = "none" <=> Resolvable(h, W)
        /\ walk.error = "none" => IsPlan(h, walk.out, Closure(h, W))
    BY <2>5, <2>6, <2>7, VisitEnds
  <2>9. Resolvable(h, W) => Closure(h, W) = W
    BY <2>7, ResolvableIsClosed
  <2> QED
    BY <2>2, <2>6, <2>8, <2>9 DEF UploadDone
<1>2. UploadsFollowDependencies <=> [][A]_vars
  BY DEF UploadsFollowDependencies
<1> HIDE DEF A
<1> QED
  BY Inductive, <1>1, <1>2, PTL DEF Spec

\* pup plans all of what it is asked for, or refuses before it installs.
THEOREM PlansAreComplete == Spec => InstallPlanIsComplete
<1> DEFINE A ==
        stage = "resolve" /\ stage' # "resolve" =>
          LET h == InstallNeeds(DOMAIN roots)
              wish == IF asked = Nobody THEN Range(Base) ELSE {asked}
          IN /\ stage' = "refused" <=> ~Resolvable(h, wish)
             /\ stage' # "refused" => IsPlan(h, plan', Closure(h, wish))
<1>1. ASSUME IInv, [Next]_vars
      PROVE  A
  <2>1. PICK h : h = InstallNeeds(DOMAIN roots)
    OBVIOUS
  <2>2. SUFFICES ASSUME Next, stage = "resolve", stage' # "resolve"
                 PROVE  /\ stage' = "refused" <=> ~Resolvable(h, Wish)
                        /\ stage' # "refused" => IsPlan(h, plan', Closure(h, Wish))
    BY <1>1, <2>1 DEF vars, Wish
  <2>3. ResolveDone
    <3>1. ~SortDone /\ ~SelectNext /\ ~SelectDone /\ ~StartUpload /\ ~AssembleBase
          /\ ~UploadDone /\ ~\E n \in Names : Request(n)
      BY <2>2 DEF SortDone, SelectNext, SelectDone, StartUpload, AssembleBase,
                  UploadDone, Request
    <3> QED
      BY <2>2, <3>1, StageChanges
  <2>4. Visiting(h, Wish, walk) /\ Ended(walk) /\ DOMAIN roots \subseteq Names
    BY <1>1, <2>1, <2>2, <2>3 DEF IInv, ResolveFits, ResolveDone
  <2>5. IsFiniteSet(DOMAIN h)
    BY <1>1, <2>1, <2>4, GraphNeeds DEF IInv
  <2>6. /\ walk.error = "none" <=> Resolvable(h, Wish)
        /\ walk.error = "none" => IsPlan(h, walk.out, Closure(h, Wish))
    BY <2>4, <2>5, VisitEnds
  <2> QED
    BY <2>3, <2>6 DEF ResolveDone
<1>2. InstallPlanIsComplete <=> [][A]_vars
  BY DEF InstallPlanIsComplete
<1> HIDE DEF A
<1> QED
  BY Inductive, <1>1, <1>2, PTL DEF Spec

-----------------------------------------------------------------------------
(* What is in the sysroots and images.  Recipes keep what they need by     *)
(* hand in two lists; that each of them names enough can be read off the   *)
(* recipes, and is enough in every run.                                    *)

\* The shared objects that what n installs needs when it runs.
NeededBy(n) == Recipe(n).links \cap SharedIn(Below(n))

\* What is installed with S, on the base image.
WithBase(S) == Closure(InstallNeeds(Names), S \cup BaseNames)

\* What the steps of a recipe name is in the roots of what it is built on, with
\* what the libraries among it need, and it lists its scripts' interpreters.
RequirementsAreListed ==
    \A n \in Names :
        /\ Recipe(n).links \subseteq LibrariesIn(Below(n))
        /\ Recipe(n).reads \subseteq FilesIn(Below(n))
        /\ \A m \in Below(n) :
              Recipe(m).shared \cap NeededBy(n) # {} => NeededBy(m) \subseteq SharedIn(Below(n))
        /\ Recipe(n).scripts \subseteq Range(Recipe(n).installs) \cup {n}

\* The shared objects of a package are among its dependencies or its own.
LibrariesAreListed ==
    \A n \in Names :
        NeededBy(n) \subseteq SharedIn(Closure(InstallNeeds(Names), {n}))

\* What a package uses when it runs is among its dependencies or the base's.
UsesAreListed ==
    \A n \in Names : /\ Recipe(n).runs \subseteq FilesIn(WithBase({n}))
                     /\ Recipe(n).scripts \subseteq WithBase({n})

\* What was linked is what the whole catalogue says, whatever was built.
RootsFit == \A n \in DOMAIN roots : roots[n] = NeededBy(n)

\* The image has what its packages depend on, and once the plan is installed
\* the base too.
ImageFits ==
    LET h == InstallNeeds(DOMAIN roots) IN
    /\ stage \in {"sort", "select", "build", "upload"} => image = {} /\ plan = <<>>
    /\ stage = "resolve" =>
          plan = <<>> /\ (asked = Nobody => BaseNames = Range(Base))
    /\ image \subseteq DOMAIN roots /\ IsClosed(h, image)
    /\ plan \in Seq(DOMAIN roots)
    /\ \A i \in 1..Len(plan) : h[plan[i]] \subseteq image \cup {plan[j] : j \in 1..(i - 1)}
    /\ image \cup Range(plan) # {} => BaseNames \subseteq image \cup Range(plan)

ContentsInv == RootsFit /\ ImageFits

\* The recipes do not change.
LEMMA RecipesStay ==
    ASSUME UNCHANGED given
    PROVE  /\ \A n : Recipe(n)' = Recipe(n) /\ NeededBy(n)' = NeededBy(n)
           /\ Names' = Names /\ BaseNames' = BaseNames
<1>1. Shelf' = Shelf /\ graph' = graph
  BY DEF given, Shelf
<1>2. Names' = Names /\ BaseNames' = BaseNames
  BY <1>1 DEF Names, BaseNames
<1>3. \A n : Recipe(n)' = Recipe(n)
  BY <1>1 DEF Recipe
<1>4. BuildNeeds(Names)' = BuildNeeds(Names)
  BY <1>1 DEF BuildNeeds, Names, Recipe
<1>5. \A n : Below(n)' = Below(n)
  BY <1>1, <1>4 DEF Below
<1>6. \A S : SharedIn(S)' = SharedIn(S)
  BY <1>1 DEF SharedIn, Recipe
<1>7. \A n : NeededBy(n)' = NeededBy(n)
  BY <1>3, <1>5, <1>6 DEF NeededBy
<1> QED
  BY <1>2, <1>3, <1>7

\* A step that neither builds a root nor installs anything.
LEMMA ContentsStay ==
    ASSUME ContentsInv, UNCHANGED given, UNCHANGED roots, UNCHANGED image, UNCHANGED plan,
           UNCHANGED asked \/ stage' # "resolve",
           stage' \in {"sort", "select", "build", "upload"} =>
               stage \in {"sort", "select", "build", "upload"},
           stage' = "resolve" => stage = "resolve"
    PROVE  ContentsInv'
<1>1. RootsFit'
  BY RecipesStay DEF ContentsInv, RootsFit
<1>2. PICK h : h = InstallNeeds(DOMAIN roots)
  OBVIOUS
<1>3. InstallNeeds(DOMAIN roots)' = h
  BY <1>2, InstallNeedsStay
<1>4. BaseNames' = BaseNames
  BY RecipesStay
<1>5. ImageFits'
  BY <1>2, <1>3, <1>4 DEF ContentsInv, ImageFits
<1> QED
  BY <1>1, <1>5 DEF ContentsInv

\* Nothing is built, planned or installed at first.
LEMMA InitContents ==
    Init => ContentsInv
<1> SUFFICES ASSUME Init PROVE ContentsInv
  OBVIOUS
<1>1. /\ DOMAIN roots = {} /\ image = {} /\ plan = <<>> /\ stage = "sort"
      /\ Range(plan) = {}
  BY DEF Init, Range
<1>2. RootsFit
  BY <1>1 DEF RootsFit
<1>3. ImageFits
  BY <1>1 DEF ImageFits, IsClosed
<1> QED
  BY <1>2, <1>3 DEF ContentsInv

\* The sysroot a recipe is built in has the whole closure of its requirements.
LEMMA SysrootIsWhole ==
    ASSUME IInv, work.pc \in {"configure", "check"}
    PROVE  /\ work.sysroot = Below(work.recipe) /\ work.sysroot \subseteq DOMAIN roots
           /\ work.recipe \in Names /\ stage = "build" /\ work # Idle
<1>1. work # Idle
  BY DEF Idle
<1>2. PICK n : n = work.recipe
  OBVIOUS
<1>3. n \in catalog /\ stage = "build" /\ Closure(Reqs, Reqs[n]) \subseteq DOMAIN roots
  BY <1>1, <1>2, WorkIsDue
<1>4. IsClosed(Reqs, catalog) /\ catalog \subseteq Names
  BY <1>3 DEF IInv, SettledFits, GivenFits
<1>5. work.sysroot = Closure(Reqs, Reqs[n])
  BY <1>1, <1>2 DEF IInv, WorkFits
<1> QED
  BY <1>1, <1>2, <1>3, <1>4, <1>5, BelowIsClosure

\* A root is built.
LEMMA CheckScriptsContents ==
    IInv /\ ContentsInv /\ CheckScripts => ContentsInv'
<1> SUFFICES ASSUME IInv, ContentsInv, CheckScripts PROVE ContentsInv'
  OBVIOUS
<1>1. /\ work.pc = "check" /\ UNCHANGED given /\ UNCHANGED image /\ UNCHANGED plan
      /\ UNCHANGED asked /\ UNCHANGED stage
  BY DEF CheckScripts, Fail
<1>2. /\ work.sysroot = Below(work.recipe) /\ work.recipe \in Names /\ stage = "build"
  BY <1>1, SysrootIsWhole
<1>3. CASE UNCHANGED roots
  BY <1>1, <1>3, ContentsStay
<1>4. CASE ~UNCHANGED roots
  <2>1. PICK n : n = work.recipe
    OBVIOUS
  <2>2. roots' = [m \in DOMAIN roots \cup {n} |-> IF m = n THEN NeededBy(n) ELSE roots[m]]
    BY <1>2, <1>4, <2>1 DEF CheckScripts, Fail, Linked, NeededBy
  <2>3. RootsFit'
    BY <1>1, <2>2, RecipesStay DEF ContentsInv, RootsFit
  <2>4. image = {} /\ plan = <<>> /\ Range(<<>>) = {}
    BY <1>2 DEF ContentsInv, ImageFits, Range
  <2>5. ImageFits'
    BY <1>1, <1>2, <2>4 DEF ImageFits, IsClosed
  <2> QED
    BY <2>3, <2>5 DEF ContentsInv
<1> QED
  BY <1>3, <1>4

\* Until pup has a plan nothing is in the image that was not there before.
LEMMA ResolveStarts ==
    ASSUME IInv, ContentsInv, AssembleBase \/ \E n \in Names : Request(n)
    PROVE  ContentsInv'
<1>1. /\ UNCHANGED given /\ UNCHANGED progress /\ UNCHANGED image /\ UNCHANGED plan
      /\ plan = <<>> /\ stage' = "resolve"
      /\ asked' = Nobody => ~(BaseNames \subseteq image)
  BY GivenLists DEF AssembleBase, Request, IInv
<1>2. UNCHANGED roots
  BY <1>1 DEF progress
<1>3. RootsFit'
  BY <1>1, <1>2, RecipesStay DEF ContentsInv, RootsFit
<1>4. PICK h : h = InstallNeeds(DOMAIN roots)
  OBVIOUS
<1>5. InstallNeeds(DOMAIN roots)' = h
  BY <1>1, <1>2, <1>4, InstallNeedsStay
<1>6. BaseNames' = BaseNames /\ (asked' = Nobody => BaseNames = Range(Base))
  BY <1>1, RecipesStay DEF BaseNames
<1>7. ImageFits'
  BY <1>1, <1>2, <1>4, <1>5, <1>6 DEF ContentsInv, ImageFits
<1> QED
  BY <1>3, <1>7 DEF ContentsInv

\* The plan pup returns completes the image.
LEMMA ResolveDoneContents ==
    IInv /\ ContentsInv /\ ResolveDone => ContentsInv'
<1> SUFFICES ASSUME IInv, ContentsInv, ResolveDone PROVE ContentsInv'
  OBVIOUS
<1>1. /\ UNCHANGED given /\ UNCHANGED progress /\ UNCHANGED image /\ UNCHANGED asked
      /\ stage = "resolve" /\ Ended(walk) /\ stage' \in {"published", "refused"}
  BY DEF ResolveDone
<1>2. UNCHANGED roots
  BY <1>1 DEF progress
<1>3. CASE UNCHANGED plan
  BY <1>1, <1>2, <1>3, ContentsStay
<1>4. CASE ~UNCHANGED plan
  <2>1. PICK h, out, B : h = InstallNeeds(DOMAIN roots) /\ out = walk.out /\ B = BaseNames
    OBVIOUS
  <2>2. plan' = out /\ walk.error = "none"
    BY <1>4, <2>1 DEF ResolveDone
  <2>3. Visiting(h, Wish, walk) /\ DOMAIN roots \subseteq Names
    BY <1>1, <2>1 DEF IInv, ResolveFits
  <2>4. IsFiniteSet(DOMAIN h) /\ DOMAIN h = DOMAIN roots
    BY <2>1, <2>3, GraphNeeds DEF IInv
  <2>5. /\ IsOrder(h, out) /\ Range(out) = Closure(h, Wish) /\ out \in Seq(Closure(h, Wish))
        /\ Resolvable(h, Wish)
    BY <1>1, <2>1, <2>2, <2>3, <2>4, VisitEnds
  <2>6. Closure(h, Wish) \subseteq DOMAIN roots /\ Wish \subseteq Range(out)
    BY <2>4, <2>5, ClosureIsLeast DEF Resolvable
  <2>7. out \in Seq(DOMAIN roots)
    BY <2>5, <2>6
  <2>8. \A i \in 1..Len(out) : h[out[i]] \subseteq {out[j] : j \in 1..(i - 1)}
    BY <2>5 DEF IsOrder
  <2>9. B \subseteq image \cup Range(out)
    <3>1. CASE asked = Nobody
      BY <1>1, <2>1, <2>6, <3>1 DEF ContentsInv, ImageFits, Wish
    <3>2. CASE asked # Nobody
      BY <2>1, <3>2 DEF IInv, ResolveFits
    <3> QED
      BY <3>1, <3>2
  <2>10. RootsFit'
    BY <1>1, <1>2, RecipesStay DEF ContentsInv, RootsFit
  <2>11. InstallNeeds(DOMAIN roots)' = h /\ BaseNames' = B
    BY <1>1, <1>2, <2>1, InstallNeedsStay, RecipesStay
  <2>12. image \subseteq DOMAIN roots /\ IsClosed(h, image)
    BY <2>1 DEF ContentsInv, ImageFits
  <2>13. ImageFits'
    BY <1>1, <1>2, <2>2, <2>7, <2>8, <2>9, <2>11, <2>12 DEF ImageFits
  <2> QED
    BY <2>10, <2>13 DEF ContentsInv
<1> QED
  BY <1>3, <1>4

\* A package is added after what it depends on.
LEMMA InstallContents ==
    IInv /\ ContentsInv /\ Install => ContentsInv'
<1> SUFFICES ASSUME IInv, ContentsInv, Install PROVE ContentsInv'
  OBVIOUS
<1>1. /\ UNCHANGED given /\ UNCHANGED progress /\ UNCHANGED stage /\ UNCHANGED asked
      /\ plan # <<>> /\ image' = image \cup {Head(plan)} /\ plan' = Tail(plan)
  BY DEF Install
<1>2. UNCHANGED roots
  BY <1>1 DEF progress
<1>3. PICK h, p, t, x, L : /\ h = InstallNeeds(DOMAIN roots) /\ p = plan /\ t = Tail(plan)
                           /\ x = Head(plan) /\ L = Len(plan)
  OBVIOUS
<1>4. /\ p \in Seq(DOMAIN roots) /\ image \subseteq DOMAIN roots /\ IsClosed(h, image)
      /\ \A i \in 1..L : h[p[i]] \subseteq image \cup {p[j] : j \in 1..(i - 1)}
      /\ image \cup Range(p) # {} => BaseNames \subseteq image \cup Range(p)
      /\ stage \notin {"sort", "select", "build", "upload", "resolve"}
  BY <1>1, <1>3 DEF ContentsInv, ImageFits
<1>5. /\ L \in Nat \ {0} /\ x \in DOMAIN roots /\ t \in Seq(DOMAIN roots) /\ x = p[1]
      /\ Len(t) = L - 1 /\ \A i \in 1..(L - 1) : t[i] = p[i + 1]
  BY <1>1, <1>3, <1>4
<1>6. Range(p) = Range(t) \cup {x}
  BY <1>1, <1>3, <1>4, SequenceEnds
<1>7. IsClosed(h, image \cup {x})
  <2>1. 1 \in 1..L /\ 1 - 1 = 0 /\ 1..0 = {}
    BY <1>5
  <2>2. h[p[1]] \subseteq image \cup {p[j] : j \in 1..0}
    BY <1>4, <2>1
  <2>3. h[x] \subseteq image
    BY <1>5, <2>1, <2>2
  <2> QED
    BY <1>4, <2>3 DEF IsClosed
<1>8. ASSUME NEW i \in 1..(L - 1)
      PROVE  h[t[i]] \subseteq image \cup {x} \cup {t[j] : j \in 1..(i - 1)}
  <2>1. t[i] = p[i + 1] /\ i + 1 \in 1..L /\ (i + 1) - 1 = i
    BY <1>5
  <2>2. h[p[i + 1]] \subseteq image \cup {p[j] : j \in 1..i}
    BY <1>4, <2>1
  <2>3. ASSUME NEW j \in 1..i
        PROVE  p[j] = x \/ \E k \in 1..(i - 1) : p[j] = t[k]
    <3>1. CASE j = 1
      BY <1>5, <3>1
    <3>2. CASE j # 1
      <4>1. j - 1 \in 1..(i - 1) /\ j - 1 \in 1..(L - 1) /\ (j - 1) + 1 = j
        BY <1>5, <3>2
      <4> QED
        BY <1>5, <4>1
    <3> QED
      BY <3>1, <3>2
  <2> QED
    BY <2>1, <2>2, <2>3
<1>9. InstallNeeds(DOMAIN roots)' = h /\ BaseNames' = BaseNames
  BY <1>1, <1>2, <1>3, InstallNeedsStay, RecipesStay
<1>10. RootsFit'
  BY <1>1, <1>2, RecipesStay DEF ContentsInv, RootsFit
<1>11. image' = image \cup {x} /\ plan' = t /\ DOMAIN roots' = DOMAIN roots
  BY <1>1, <1>2, <1>3
<1>12. image' \cup Range(plan') = image \cup Range(p)
  BY <1>6, <1>11
<1>13. /\ image' \subseteq DOMAIN roots' /\ IsClosed(h, image') /\ plan' \in Seq(DOMAIN roots')
       /\ \A i \in 1..Len(plan') :
             h[plan'[i]] \subseteq image' \cup {plan'[j] : j \in 1..(i - 1)}
  BY <1>4, <1>5, <1>7, <1>8, <1>11
<1>14. image' \cup Range(plan') # {} => BaseNames' \subseteq image' \cup Range(plan')
  BY <1>4, <1>9, <1>12
<1>15. ImageFits'
  BY <1>1, <1>4, <1>9, <1>13, <1>14 DEF ImageFits
<1> QED
  BY <1>10, <1>15 DEF ContentsInv

\* What is in the sysroots and images, in every run.
LEMMA Contents == Spec => []ContentsInv
<1>1. ASSUME IInv, ContentsInv, [Next]_vars
      PROVE  ContentsInv'
  <2>1. CASE SortStep \/ SortDone \/ SelectStep \/ SelectNext \/ SelectDone
    BY <1>1, <2>1, ContentsStay
    DEF SortStep, SortDone, SelectStep, SelectNext, SelectDone, progress
  <2>2. CASE Block \/ PrepareSysroot \/ SysrootStep \/ SysrootDone \/ Build \/ Accident
    BY <1>1, <2>2, ContentsStay
    DEF Block, PrepareSysroot, SysrootStep, SysrootDone, Build, Accident, Fail, progress
  <2>3. CASE CheckScripts
    BY <1>1, <2>3, CheckScriptsContents
  <2>4. CASE StartUpload \/ UploadStep \/ UploadDone \/ ResolveStep
    BY <1>1, <2>4, ContentsStay DEF StartUpload, UploadStep, UploadDone, ResolveStep, progress
  <2>5. CASE AssembleBase \/ \E n \in Names : Request(n)
    BY <1>1, <2>5, ResolveStarts
  <2>6. CASE ResolveDone
    BY <1>1, <2>6, ResolveDoneContents
  <2>7. CASE Install
    BY <1>1, <2>7, InstallContents
  <2>8. CASE UNCHANGED vars
    BY <1>1, <2>8, ContentsStay DEF vars, progress
  <2> QED
    BY <1>1, <2>1, <2>2, <2>3, <2>4, <2>5, <2>6, <2>7, <2>8 DEF Next
<1> QED
  BY Inductive, InitContents, <1>1, PTL DEF Spec

\* A recipe that lists what its steps name lacks nothing when it is built.
LEMMA NothingLacks ==
    ASSUME IInv, ContentsInv, RequirementsAreListed, work.pc = "configure"
    PROVE  Lacks = {}
<1>1. PICK n, B : n = work.recipe /\ B = Below(work.recipe)
  OBVIOUS
<1>2. n \in Names /\ work.sysroot = B /\ B \subseteq DOMAIN roots /\ B = Below(n)
  BY <1>1, SysrootIsWhole
<1>3. /\ Recipe(n).links \subseteq LibrariesIn(B) /\ Recipe(n).reads \subseteq FilesIn(B)
      /\ \A m \in B : Recipe(m).shared \cap NeededBy(n) # {} => NeededBy(m) \subseteq SharedIn(B)
  BY <1>2 DEF RequirementsAreListed
<1>4. Linked = NeededBy(n)
  BY <1>1, <1>2 DEF Linked, NeededBy
<1>5. \A m \in B : roots[m] = NeededBy(m)
  BY <1>2 DEF ContentsInv, RootsFit
<1>6. \A m \in B : Recipe(m).shared \cap Linked # {} => roots[m] \subseteq SharedIn(B)
  BY <1>3, <1>4, <1>5
<1>7. ASSUME NEW x \in Lacks
      PROVE  FALSE
  <2>1. \/ x \in Recipe(n).links \ LibrariesIn(B) \/ x \in Recipe(n).reads \ FilesIn(B)
        \/ \E m \in B : /\ Recipe(m).shared \cap Linked # {}
                        /\ x \in roots[m] /\ x \notin SharedIn(B)
    BY <1>1, <1>2, <1>7 DEF Lacks
  <2> QED
    BY <1>3, <1>6, <2>1
<1> QED
  BY <1>7

\* If every recipe lists what its steps name, a build fails by accident only:
\* neither the order of the wave nor a lost file or an earlier failure lets a
\* recipe come to its steps without what they name.
THEOREM BuildsHaveWhatTheyName ==
    Spec /\ []RequirementsAreListed => []BuildsLackNothing
<1>1. Init => BuildsLackNothing
  BY DEF Init, BuildsLackNothing
<1>2. ASSUME IInv, ContentsInv, RequirementsAreListed, BuildsLackNothing, [Next]_vars
      PROVE  BuildsLackNothing'
  <2>1. CASE UNCHANGED failed /\ UNCHANGED accidents
    BY <1>2, <2>1 DEF BuildsLackNothing
  <2>2. CASE SysrootDone
    <3>1. PICK below : below = Closure(Reqs, Reqs[work.recipe])
      OBVIOUS
    <3>2. walk.error = "none" /\ Range(walk.out) \subseteq DOMAIN roots
      BY <1>2, <2>2, <3>1, SysrootIsBelow DEF SysrootDone
    <3> QED
      BY <2>1, <2>2, <3>2 DEF SysrootDone
  <2>3. CASE Build
    <3>1. Lacks = {}
      BY <1>2, <2>3, NothingLacks DEF Build
    <3> QED
      BY <2>1, <2>3, <3>1 DEF Build
  <2>4. CASE CheckScripts
    <3>1. work.recipe \in Names
      BY <1>2, <2>4, SysrootIsWhole DEF CheckScripts
    <3>2. Recipe(work.recipe).scripts
              \subseteq Range(Recipe(work.recipe).installs) \cup {work.recipe}
      BY <1>2, <3>1 DEF RequirementsAreListed
    <3> QED
      BY <2>1, <2>4, <3>2 DEF CheckScripts
  <2>5. CASE Accident
    BY <1>2, <2>5 DEF Accident, Fail, BuildsLackNothing
  <2>6. CASE \/ SortStep \/ SortDone \/ SelectStep \/ SelectNext \/ SelectDone \/ Block
             \/ PrepareSysroot \/ SysrootStep \/ StartUpload \/ UploadStep \/ UploadDone
    BY <2>1, <2>6
    DEF SortStep, SortDone, SelectStep, SelectNext, SelectDone, Block, PrepareSysroot,
        SysrootStep, StartUpload, UploadStep, UploadDone, progress
  <2>7. CASE \/ AssembleBase \/ ResolveStep \/ ResolveDone \/ Install
             \/ (\E n \in Names : Request(n)) \/ UNCHANGED vars
    BY <2>1, <2>7
    DEF AssembleBase, ResolveStep, ResolveDone, Install, Request, vars, progress
  <2> QED
    BY <1>2, <2>2, <2>3, <2>4, <2>5, <2>6, <2>7 DEF Next
<1> QED
  BY Inductive, Contents, <1>1, <1>2, PTL DEF Spec

\* What is in the image leads to nothing outside it.
LEMMA ImageIsClosed ==
    ASSUME IInv, ContentsInv, NEW S, S \subseteq image
    PROVE  Closure(InstallNeeds(Names), S) \subseteq image /\ image \subseteq Names
<1>1. PICK all, h : all = InstallNeeds(Names) /\ h = InstallNeeds(DOMAIN roots)
  OBVIOUS
<1>2. /\ DOMAIN roots \subseteq Names /\ image \subseteq DOMAIN roots /\ IsClosed(h, image)
      /\ DOMAIN h = DOMAIN roots
  BY <1>1 DEF IInv, ResolveFits, ContentsInv, ImageFits, InstallNeeds
<1>3. DOMAIN all = Names /\ IsFiniteSet(DOMAIN all)
  BY <1>1, GraphNeeds DEF IInv
<1>4. \A n \in DOMAIN roots : all[n] = h[n]
  BY <1>1, <1>2 DEF InstallNeeds
<1>5. IsClosed(all, image)
  BY <1>2, <1>4 DEF IsClosed
<1> QED
  BY <1>1, <1>2, <1>3, <1>5, ClosureWithin

\* If the libraries of each package are below it in install_deps, they are in
\* the image before it, whatever is asked for and at every moment.
LEMMA LibrariesAreInTime == Spec /\ []LibrariesAreListed => []LibrariesComeFirst
<1>1. ASSUME IInv, ContentsInv, LibrariesAreListed
      PROVE  LibrariesComeFirst
  <2> SUFFICES ASSUME NEW n \in image PROVE roots[n] \subseteq SharedIn(image)
    BY DEF LibrariesComeFirst
  <2>1. PICK C : C = Closure(InstallNeeds(Names), {n})
    OBVIOUS
  <2>2. C \subseteq image /\ n \in Names
    BY <1>1, <2>1, ImageIsClosed
  <2>3. roots[n] = NeededBy(n)
    BY <1>1 DEF ContentsInv, RootsFit, ImageFits
  <2>4. NeededBy(n) \subseteq SharedIn(C)
    BY <1>1, <2>1, <2>2 DEF LibrariesAreListed
  <2>5. SharedIn(C) \subseteq SharedIn(image)
    BY <2>2 DEF SharedIn
  <2> QED
    BY <2>3, <2>4, <2>5
<1> QED
  BY Inductive, Contents, <1>1, PTL

\* If what each package uses is below it or in the base image, it is there
\* whenever pup has done what it was asked.
LEMMA UsesAreInTime == Spec /\ []UsesAreListed => []ProgramsFindWhatTheyUse
<1>1. ASSUME IInv, ContentsInv, UsesAreListed
      PROVE  ProgramsFindWhatTheyUse
  <2> SUFFICES ASSUME plan = <<>>, NEW n \in image
               PROVE  /\ Recipe(n).runs \subseteq FilesIn(image)
                      /\ Recipe(n).scripts \subseteq image
    BY DEF ProgramsFindWhatTheyUse
  <2>1. BaseNames \subseteq image
    <3>1. Range(plan) = {}
      BY DEF Range
    <3> QED
      BY <1>1, <3>1 DEF ContentsInv, ImageFits
  <2>2. PICK C : C = WithBase({n})
    OBVIOUS
  <2>3. C \subseteq image /\ n \in Names
    BY <1>1, <2>1, <2>2, ImageIsClosed DEF WithBase
  <2>4. Recipe(n).runs \subseteq FilesIn(C) /\ Recipe(n).scripts \subseteq C
    BY <1>1, <2>2, <2>3 DEF UsesAreListed
  <2>5. FilesIn(C) \subseteq FilesIn(image)
    BY <2>3 DEF FilesIn
  <2> QED
    BY <2>3, <2>4, <2>5
<1> QED
  BY Inductive, Contents, <1>1, PTL

\* With lists that lead to all a package was linked with and all it uses, what
\* is installed runs, whatever is lost, fails or is asked for.
THEOREM ProgramsRun ==
    Spec /\ []LibrariesAreListed /\ []UsesAreListed => []InstalledProgramsRun
<1>1. LibrariesComeFirst /\ ProgramsFindWhatTheyUse => InstalledProgramsRun
  BY DEF InstalledProgramsRun
<1> QED
  BY LibrariesAreInTime, UsesAreInTime, <1>1, PTL
=============================================================================
