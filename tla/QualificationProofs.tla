------------------------- MODULE QualificationProofs -------------------------
(***************************************************************************)
(* What the verdict of a qualification is worth, for every suite, any      *)
(* output of its cases and any number of kernel messages: a pass is        *)
(* earned by every case, and a failure of the output is deserved.          *)
(*                                                                         *)
(* First the operators of evaluate_output, by induction over the log; then *)
(* the shape of the text that the boot script writes; then the runner.     *)
(* The integration test of Codex is at the end.                            *)
(***************************************************************************)
EXTENDS Qualification, CodexIntegration, NaturalRecursion, FiniteSetTheorems,
        SequenceTheorems

-----------------------------------------------------------------------------
(* The operators of evaluate_output.                                       *)

Keeps(kept, s, set) ==
    /\ kept[0] = <<>>
    /\ \A i \in 1..Len(s) :
          kept[i] = IF i \in set THEN Append(kept[i - 1], s[i]) ELSE kept[i - 1]

\* The recursion of ElementsAt, as a function that exists.
LEMMA ElementsAtRecursion ==
    ASSUME NEW V, NEW s \in Seq(V), NEW set
    PROVE  \E kept \in [0..Len(s) -> Seq(V)] :
              Keeps(kept, s, set) /\ ElementsAt(s, set) = kept[Len(s)]
<1> DEFINE n == Len(s)
    Step(i, v) == IF i \in set THEN Append(v, s[i]) ELSE v
    step == [p \in (1..n) \X Seq(V) |-> Step(p[1], p[2])]
    Is(f) == f = [i \in 0..n |-> IF i = 0 THEN <<>> ELSE Step(i, f[i - 1])]
<1>1. n \in Nat
  OBVIOUS
<1>2. step \in [(1..n) \X Seq(V) -> Seq(V)]
  <2>1. \A i \in 1..n, v \in Seq(V) : Step(i, v) \in Seq(V)
    OBVIOUS
  <2> HIDE DEF Step, n
  <2> QED
    BY <2>1
<1>3. PICK f \in [0..n -> Seq(V)] : Recursive(f, n, <<>>, step)
  <2> DEFINE W == Seq(V)
        empty == <<>>
  <2>1. empty \in W /\ step \in [(1..n) \X W -> W]
    BY <1>2
  <2> HIDE DEF step, n, W, empty
  <2>2. \E f \in [0..n -> W] : Recursive(f, n, empty, step)
    BY <1>1, <2>1, Recursion
  <2> QED
    BY <2>2 DEF W, empty
<1>4. f[0] = <<>> /\ \A i \in 1..n : f[i] = Step(i, f[i - 1])
  <2>0. f[0] = <<>>
    BY <1>3 DEF Recursive
  <2> SUFFICES \A i \in 1..n : f[i] = Step(i, f[i - 1])
    BY <2>0
  <2> TAKE i \in 1..n
  <2> HIDE DEF Step, n
  <2>1. i - 1 \in 0..n
    BY <1>1
  <2>2. f[i - 1] \in Seq(V)
    BY <1>3, <2>1
  <2> QED
    BY <1>3, <2>2 DEF Recursive
<1>5. Is(f)
  <2> HIDE DEF Step, n
  <2> QED
    BY <1>1, <1>3, <1>4
<1>6. PICK kept : Is(kept) /\ kept = CHOOSE g : Is(g)
  BY <1>5
<1>7. ElementsAt(s, set) = kept[n]
  BY <1>6 DEF ElementsAt
<1>8. kept[0] = <<>> /\ \A i \in 1..n : kept[i] = Step(i, kept[i - 1])
  <2> HIDE DEF Step, n
  <2>1. ASSUME NEW i \in 0..n
        PROVE  kept[i] = IF i = 0 THEN <<>> ELSE Step(i, kept[i - 1])
    BY <1>6
  <2>2. 0 \in 0..n /\ \A i \in 1..n : i \in 0..n /\ i # 0
    BY <1>1
  <2> HIDE DEF Is
  <2> QED
    BY <2>1, <2>2
<1>9. kept \in [0..n -> Seq(V)]
  <2> DEFINE S == {i \in Nat : i <= n => kept[i] \in Seq(V)}
  <2>1. 0 \in S
    <3>1. kept[0] \in Seq(V)
      BY <1>8
    <3> QED
      BY <3>1
  <2>2. ASSUME NEW i \in Nat, i \in S
        PROVE  i + 1 \in S
    <3>1. SUFFICES ASSUME i + 1 <= n PROVE kept[i + 1] \in Seq(V)
      OBVIOUS
    <3>2. kept[i] \in Seq(V) /\ kept[i + 1] = Step(i + 1, kept[i])
      <4> HIDE DEF Step, n
      <4> QED
        BY <1>1, <1>8, <2>2, <3>1
    <3> QED
      BY <3>1, <3>2
  <2>3. Nat \subseteq S
    <3> HIDE DEF S
    <3> QED
      BY <2>1, <2>2, NatInduct
  <2> HIDE DEF Step, n
  <2>4. kept = [i \in 0..n |-> kept[i]]
    BY <1>6
  <2>5. \A i \in 0..n : kept[i] \in Seq(V)
    BY <1>1, <2>3
  <2> HIDE DEF Is
  <2> QED
    BY <2>4, <2>5
<1> QED
  BY <1>7, <1>8, <1>9 DEF Keeps

\* One more element is taken or left out.
LEMMA ElementsAtAppend ==
    ASSUME NEW V, NEW s \in Seq(V), NEW x \in V, NEW set, NEW more,
           \A i \in 1..Len(s) : i \in set <=> i \in more
    PROVE  /\ ElementsAt(s, set) \in Seq(V)
           /\ ElementsAt(Append(s, x), more) =
                 IF Len(s) + 1 \in more THEN Append(ElementsAt(s, set), x) ELSE ElementsAt(s, set)
<1> DEFINE n == Len(s)
    t == Append(s, x)
<1>1. n \in Nat /\ t \in Seq(V) /\ Len(t) = n + 1 /\ t[n + 1] = x
  OBVIOUS
<1>2. \A i \in 1..n : t[i] = s[i]
  OBVIOUS
<1>3. PICK f \in [0..n -> Seq(V)] :
         /\ f[0] = <<>>
         /\ \A i \in 1..n : f[i] = IF i \in set THEN Append(f[i - 1], s[i]) ELSE f[i - 1]
         /\ ElementsAt(s, set) = f[n]
  <2>1. PICK f \in [0..Len(s) -> Seq(V)] : Keeps(f, s, set) /\ ElementsAt(s, set) = f[Len(s)]
    BY ElementsAtRecursion
  <2> QED
    BY <2>1 DEF Keeps
<1>4. PICK g \in [0..(n + 1) -> Seq(V)] :
         /\ g[0] = <<>>
         /\ \A i \in 1..(n + 1) : g[i] = IF i \in more THEN Append(g[i - 1], t[i]) ELSE g[i - 1]
         /\ ElementsAt(t, more) = g[n + 1]
  <2> HIDE DEF t
  <2>1. PICK g \in [0..Len(t) -> Seq(V)] : Keeps(g, t, more) /\ ElementsAt(t, more) = g[Len(t)]
    BY <1>1, ElementsAtRecursion
  <2> QED
    BY <1>1, <2>1 DEF Keeps
<1> HIDE DEF t, n
<1> DEFINE S == {i \in Nat : i <= n => f[i] = g[i]}
<1>5. 0 \in S
  BY <1>3, <1>4
<1>6. ASSUME NEW i \in Nat, i \in S
      PROVE  i + 1 \in S
  <2>1. SUFFICES ASSUME i + 1 <= n PROVE f[i + 1] = g[i + 1]
    OBVIOUS
  <2>2. i + 1 \in 1..n /\ i + 1 \in 1..(n + 1) /\ (i + 1) - 1 = i
    BY <1>1, <2>1
  <2>3. f[i] = g[i] /\ t[i + 1] = s[i + 1] /\ (i + 1 \in set <=> i + 1 \in more)
    BY <1>1, <1>2, <1>6, <2>1, <2>2 DEF n
  <2>4. f[i + 1] = IF i + 1 \in set THEN Append(f[i], s[i + 1]) ELSE f[i]
    BY <1>3, <2>2
  <2>5. g[i + 1] = IF i + 1 \in more THEN Append(g[i], t[i + 1]) ELSE g[i]
    BY <1>4, <2>2
  <2> QED
    BY <2>3, <2>4, <2>5
<1>7. f[n] = g[n]
  <2>1. Nat \subseteq S
    <3> HIDE DEF S
    <3> QED
      BY <1>5, <1>6, NatInduct
  <2> QED
    BY <1>1, <2>1
<1>8. g[n + 1] = IF n + 1 \in more THEN Append(g[n], x) ELSE g[n]
  BY <1>1, <1>4
<1>9. f[n] \in Seq(V)
  BY <1>1, <1>3
<1> QED
  BY <1>3, <1>4, <1>7, <1>8, <1>9 DEF n, t

LEMMA ElementsAtEmpty ==
    ASSUME NEW set
    PROVE  ElementsAt(<<>>, set) = <<>>
<1>1. PICK s : s = <<>>
  OBVIOUS
<1>2. s \in Seq({}) /\ Len(s) = 0
  BY <1>1
<1> HIDE <1>1
<1>3. PICK kept \in [0..Len(s) -> Seq({})] : Keeps(kept, s, set) /\ ElementsAt(s, set) = kept[Len(s)]
  BY <1>2, ElementsAtRecursion
<1>4. ElementsAt(s, set) = <<>>
  BY <1>2, <1>3 DEF Keeps
<1> QED
  BY <1>1, <1>4

\* The pieces a log is made of.
Pieces == [part : {"whole", "first", "rest"}, line : Line] \cup {Log, Fatal}

Joined == {"whole", "rest"}

\* A piece that completes a line adds it to the text, and no other does.
LEMMA SerialLinesAppend ==
    ASSUME NEW s \in Seq(Pieces), NEW p \in Pieces, SerialLines(s) \in Seq(Line)
    PROVE  /\ SerialLines(Append(s, p)) =
                 IF p.part \in Joined THEN Append(SerialLines(s), p.line) ELSE SerialLines(s)
           /\ SerialLines(Append(s, p)) \in Seq(Line)
<1> DEFINE At(q) == {i \in 1..Len(q) : q[i].part \in Joined}
    t == Append(s, p)
    old == ElementsAt(s, At(s))
    new == ElementsAt(t, At(t))
<1>1. t \in Seq(Pieces) /\ Len(t) = Len(s) + 1 /\ t[Len(s) + 1] = p
  OBVIOUS
<1>2. \A i \in 1..Len(s) : t[i] = s[i]
  OBVIOUS
<1>3. \A i \in 1..Len(s) : i \in At(s) <=> i \in At(t)
  BY <1>1, <1>2
<1>4. Len(s) + 1 \in At(t) <=> p.part \in Joined
  BY <1>1
<1>5. /\ old \in Seq(Pieces)
      /\ new = IF Len(s) + 1 \in At(t) THEN Append(old, p) ELSE old
  <2> HIDE DEF At
  <2> QED
    BY <1>3, ElementsAtAppend
<1>6. SerialLines(s) = [i \in 1..Len(old) |-> old[i].line]
  BY DEF SerialLines, Joined
<1>7. SerialLines(t) = [i \in 1..Len(new) |-> new[i].line]
  <2> HIDE DEF t
  <2> QED
    BY DEF SerialLines, Joined
<1> HIDE DEF old, new, t, At
<1>8. ASSUME p.part \notin Joined
      PROVE  SerialLines(t) = SerialLines(s)
  BY <1>4, <1>5, <1>6, <1>7, <1>8
<1>9. ASSUME p.part \in Joined
      PROVE  SerialLines(t) = Append(SerialLines(s), p.line) /\ p.line \in Line
  <2>1. new = Append(old, p)
    BY <1>4, <1>5, <1>9
  <2>2. p.line \in Line
    BY <1>9 DEF Pieces, Joined, Log, Fatal, Piece
  <2>3. Len(new) = Len(old) + 1 /\ new[Len(old) + 1] = p /\ \A i \in 1..Len(old) : new[i] = old[i]
    BY <1>5, <2>1
  <2>4. Len(SerialLines(s)) = Len(old) /\ Len(old) \in Nat
    BY <1>5, <1>6
  <2>5. PICK u : u = Append(SerialLines(s), p.line)
    OBVIOUS
  <2>6. /\ u \in Seq(Line) /\ Len(u) = Len(old) + 1 /\ u[Len(old) + 1] = p.line
        /\ \A i \in 1..Len(old) : u[i] = old[i].line
    BY <1>6, <2>2, <2>4, <2>5
  <2>7. u = [i \in 1..(Len(old) + 1) |-> u[i]]
    BY <2>6
  <2>8. \A i \in 1..(Len(old) + 1) : u[i] = new[i].line
    BY <2>3, <2>4, <2>6
  <2> QED
    BY <1>7, <2>2, <2>3, <2>5, <2>7, <2>8
<1>10. t = Append(s, p)
  BY DEF t
<1>11. CASE p.part \in Joined
  <2>1. Append(SerialLines(s), p.line) \in Seq(Line)
    BY <1>9, <1>11
  <2> QED
    BY <1>9, <1>10, <1>11, <2>1
<1>12. CASE p.part \notin Joined
  BY <1>8, <1>10, <1>12
<1> QED
  BY <1>11, <1>12

LEMMA SerialLinesEmpty ==
    SerialLines(<<>>) = <<>>
<1>1. PICK s : s = <<>>
  OBVIOUS
<1>2. Len(s) = 0
  BY <1>1
<1>3. ElementsAt(s, {i \in 1..Len(s) : s[i].part \in Joined}) = <<>>
  BY <1>1, ElementsAtEmpty
<1>4. PICK kept : kept = <<>> /\ SerialLines(s) = [i \in 1..Len(kept) |-> kept[i].line]
  BY <1>3 DEF SerialLines, Joined
<1>5. SerialLines(s) \in Seq({}) /\ Len(SerialLines(s)) = 0
  BY <1>4
<1> QED
  BY <1>1, <1>5

LEMMA SerialLinesType ==
    ASSUME NEW s \in Seq(Pieces)
    PROVE  SerialLines(s) \in Seq(Line)
<1> DEFINE P(n) == \A q \in Seq(Pieces) : Len(q) = n => SerialLines(q) \in Seq(Line)
    S == {n \in Nat : P(n)}
<1>1. P(0)
  <2> SUFFICES ASSUME NEW q \in Seq(Pieces), Len(q) = 0
               PROVE  SerialLines(q) \in Seq(Line)
    OBVIOUS
  <2>1. q = <<>>
    OBVIOUS
  <2>2. SerialLines(q) = <<>>
    BY <2>1, SerialLinesEmpty
  <2> QED
    BY <2>2
<1>2. ASSUME NEW n \in Nat, P(n)
      PROVE  P(n + 1)
  <2> SUFFICES ASSUME NEW q \in Seq(Pieces), Len(q) = n + 1
               PROVE  SerialLines(q) \in Seq(Line)
    OBVIOUS
  <2>1. PICK r \in Seq(Pieces), p \in Pieces : q = Append(r, p)
    <3>1. q # <<>>
      OBVIOUS
    <3> QED
      BY <3>1, SequenceEmptyOrAppend
  <2>2. Len(r) = n
    BY <2>1
  <2>3. SerialLines(r) \in Seq(Line)
    BY <1>2, <2>2
  <2> QED
    BY <2>1, <2>3, SerialLinesAppend
<1>3. Nat \subseteq S
  <2>1. 0 \in S /\ \A n \in Nat : n \in S => n + 1 \in S
    <3> HIDE DEF P
    <3> QED
      BY <1>1, <1>2
  <2> HIDE DEF S
  <2> QED
    BY <2>1, NatInduct
<1>4. Len(s) \in Nat
  OBVIOUS
<1>5. P(Len(s))
  <2> HIDE DEF P
  <2> QED
    BY <1>3, <1>4
<1> QED
  BY <1>5

\* So does a status line to the statuses.
LEMMA StatusesAppend ==
    ASSUME NEW t \in Seq(Line), NEW l \in Line
    PROVE  /\ Statuses(t) \in Seq(Line)
           /\ Statuses(Append(t, l)) =
                 IF l[1] = "status" THEN Append(Statuses(t), l) ELSE Statuses(t)
<1> DEFINE At(q) == {i \in 1..Len(q) : q[i][1] = "status"}
    u == Append(t, l)
<1>1. u \in Seq(Line) /\ Len(u) = Len(t) + 1 /\ u[Len(t) + 1] = l
  OBVIOUS
<1>2. \A i \in 1..Len(t) : u[i] = t[i]
  OBVIOUS
<1>3. \A i \in 1..Len(t) : i \in At(t) <=> i \in At(u)
  BY <1>1, <1>2
<1>4. Len(t) + 1 \in At(u) <=> l[1] = "status"
  BY <1>1
<1>5. /\ ElementsAt(t, At(t)) \in Seq(Line)
      /\ ElementsAt(u, At(u)) =
            IF Len(t) + 1 \in At(u) THEN Append(ElementsAt(t, At(t)), l) ELSE ElementsAt(t, At(t))
  <2> HIDE DEF At
  <2> QED
    BY <1>3, ElementsAtAppend
<1> QED
  BY <1>4, <1>5 DEF Statuses

LEMMA StatusesEmpty ==
    Statuses(<<>>) = <<>>
BY ElementsAtEmpty DEF Statuses

-----------------------------------------------------------------------------
(* Searching in the text.                                                  *)

\* IndexFrom finds the first line that is l, and 0 says that there is none.
LEMMA IndexFromFinds ==
    ASSUME NEW t \in Seq(Line), NEW l, NEW from \in Nat \ {0},
           NEW i, i = IndexFrom(t, l, from)
    PROVE  /\ i = 0 => \A k \in from..Len(t) : t[k] # l
           /\ i # 0 => /\ i \in from..Len(t) /\ t[i] = l
                       /\ \A k \in from..Len(t) : t[k] = l => i <= k
<1> DEFINE found == {k \in from..Len(t) : t[k] = l}
<1>1. CASE found = {}
  BY <1>1 DEF IndexFrom
<1>2. CASE found # {}
  <2>1. PICK m \in found : \A k \in found : m <= k
    <3>1. found \in SUBSET Nat
      OBVIOUS
    <3> HIDE DEF found
    <3> QED
      BY <1>2, <3>1, LeastNat
  <2>2. i = Min(found)
    BY <1>2 DEF IndexFrom
  <2>3. i \in found /\ \A k \in found : i <= k
    <3> HIDE DEF found
    <3> QED
      BY <2>1, <2>2 DEF Min
  <2> QED
    BY <2>3
<1> QED
  BY <1>1, <1>2

\* Count is 0 or 1 when it should.
LEMMA CountsOnce ==
    ASSUME NEW t \in Seq(Line), NEW l
    PROVE  /\ Count(t, l) = 0 <=> \A k \in 1..Len(t) : t[k] # l
           /\ \A k \in 1..Len(t) :
                 t[k] = l /\ (\A j \in 1..Len(t) : t[j] = l => j = k) => Count(t, l) = 1
<1> DEFINE found == {k \in 1..Len(t) : t[k] = l}
<1>1. IsFiniteSet(found)
  <2>1. IsFiniteSet(1..Len(t))
    BY FS_Interval
  <2> QED
    BY <2>1, FS_Subset
<1>2. Count(t, l) = Cardinality(found)
  BY DEF Count
<1>3. Cardinality(found) = 0 <=> found = {}
  <2> HIDE DEF found
  <2> QED
    BY <1>1, FS_EmptySet
<1>4. ASSUME NEW k \in 1..Len(t), t[k] = l, \A j \in 1..Len(t) : t[j] = l => j = k
      PROVE  Cardinality(found) = 1
  <2>1. found = {k}
    BY <1>4
  <2> HIDE DEF found
  <2> QED
    BY <2>1, FS_Singleton
<1>5. found = {} <=> \A k \in 1..Len(t) : t[k] # l
  OBVIOUS
<1> HIDE DEF found
<1> QED
  BY <1>2, <1>3, <1>4, <1>5

\* A section of case c: its first and last lines, and its markers in between.
IsSection(t, c, start, end) ==
    /\ t[start] = <<"begin", c>> /\ t[end] = <<"status", c, "0">>
    /\ \A m \in Markers[c] : \E i \in (start + 1)..(end - 1) : t[i] = <<"out", m>>

\* What Section finds is a section at or after cursor.
LEMMA SectionFinds ==
    ASSUME NEW t \in Seq(Line), NEW c, NEW cursor \in Nat \ {0}
    PROVE  /\ Section(t, c, cursor) \in Nat
           /\ Section(t, c, cursor) # 0 =>
                 \E start \in cursor..Len(t) : \E end \in (start + 1)..Len(t) :
                    IsSection(t, c, start, end)
<1> DEFINE start == IndexFrom(t, <<"begin", c>>, cursor)
    end == IndexFrom(t, <<"status", c, "0">>, start + 1)
    Marked == \A m \in Markers[c] : \E i \in (start + 1)..(end - 1) : t[i] = <<"out", m>>
<1>1. start # 0 => start \in cursor..Len(t) /\ t[start] = <<"begin", c>>
  BY IndexFromFinds
<1>2. start # 0 /\ end # 0 => end \in (start + 1)..Len(t) /\ t[end] = <<"status", c, "0">>
  <2> HIDE DEF start
  <2>1. start # 0 => start + 1 \in Nat \ {0}
    BY <1>1
  <2> QED
    BY <2>1, IndexFromFinds
<1>3. CASE start = 0 \/ end = 0 \/ ~Marked
  <2>1. Section(t, c, cursor) = 0
    BY <1>3 DEF Section
  <2> QED
    BY <2>1
<1>4. CASE start # 0 /\ end # 0 /\ Marked
  <2>1. Section(t, c, cursor) = end + 1
    BY <1>4 DEF Section
  <2>2. start \in cursor..Len(t) /\ end \in (start + 1)..Len(t)
    BY <1>1, <1>2, <1>4
  <2>3. t[start] = <<"begin", c>> /\ t[end] = <<"status", c, "0">>
    BY <1>1, <1>2, <1>4
  <2>4. Marked
    BY <1>4
  <2>5. end + 1 \in Nat
    BY <2>2
  <2> HIDE DEF start, end
  <2>6. \E x \in cursor..Len(t) : \E y \in (x + 1)..Len(t) : IsSection(t, c, x, y)
    <3> USE <2>2
    <3> WITNESS start \in cursor..Len(t)
    <3> WITNESS end \in (start + 1)..Len(t)
    <3> QED
      BY <2>3, <2>4 DEF IsSection
  <2> QED
    BY <2>1, <2>5, <2>6
<1> QED
  BY <1>3, <1>4

\* Case c has one section in t, from b to e, and all its markers in there.
OnlySection(t, c, cursor, b, e) ==
    /\ t \in Seq(Line) /\ cursor \in Nat \ {0}
    /\ b \in cursor..Len(t) /\ e \in (b + 1)..Len(t)
    /\ t[b] = <<"begin", c>> /\ t[e] = <<"status", c, "0">>
    /\ \A i \in 1..Len(t) : t[i] = <<"begin", c>> => i = b
    /\ \A i \in (b + 1)..(e - 1) : t[i] # <<"status", c, "0">>
    /\ \A m \in Markers[c] : \E i \in (b + 1)..(e - 1) : t[i] = <<"out", m>>

\* The only section of a case is found.
LEMMA SectionIsFound ==
    ASSUME NEW t, NEW c, NEW cursor, NEW b, NEW e, OnlySection(t, c, cursor, b, e)
    PROVE  Section(t, c, cursor) = e + 1
<1> USE DEF OnlySection
<1> DEFINE start == IndexFrom(t, <<"begin", c>>, cursor)
    end == IndexFrom(t, <<"status", c, "0">>, start + 1)
<1>1. start = b
  <2>1. start = 0 => \A k \in cursor..Len(t) : t[k] # <<"begin", c>>
    BY IndexFromFinds
  <2>2. start # 0 => start \in cursor..Len(t) /\ t[start] = <<"begin", c>>
    BY IndexFromFinds
  <2> HIDE DEF start
  <2> QED
    BY <2>1, <2>2
<1>2. b \in Nat \ {0} /\ b + 1 \in Nat \ {0}
  OBVIOUS
<1>3. end = e
  <2>1. PICK l : l = <<"status", c, "0">>
    OBVIOUS
  <2>2. PICK from : from = b + 1
    OBVIOUS
  <2>3. PICK f : f = IndexFrom(t, l, from)
    OBVIOUS
  <2>4. end = f
    BY <1>1, <2>1, <2>2, <2>3
  <2>5. /\ from \in Nat \ {0} /\ e \in from..Len(t) /\ t[e] = l
        /\ \A i \in from..(e - 1) : t[i] # l
    BY <1>2, <2>1, <2>2
  <2> HIDE DEF end, start
  <2>6. /\ f = 0 => \A k \in from..Len(t) : t[k] # l
        /\ f # 0 => /\ f \in from..Len(t) /\ t[f] = l
                     /\ \A k \in from..Len(t) : t[k] = l => f <= k
    BY <2>3, <2>5, IndexFromFinds
  <2>7. f # 0 /\ f <= e
    BY <2>5, <2>6
  <2>8. f \in from..Len(t) /\ t[f] = l
    BY <2>6, <2>7
  <2>9. f \notin from..(e - 1)
    BY <2>5, <2>8
  <2> QED
    BY <2>4, <2>5, <2>7, <2>8, <2>9
<1>4. e # 0 /\ b # 0
  BY <1>2
<1>5. Section(t, c, cursor) =
         IF end # 0 /\ \A m \in Markers[c] : \E i \in (start + 1)..(end - 1) : t[i] = <<"out", m>>
         THEN end + 1 ELSE 0
  BY <1>1, <1>4 DEF Section
<1> HIDE DEF start, end
<1> QED
  BY <1>1, <1>3, <1>4, <1>5

\* The recursion of Cursor, as a function that exists.
Follows(after, t) ==
    /\ after[0] = IndexFrom(t, <<"BEGIN">>, 1) + 1
    /\ \A i \in 1..Len(Cases) :
          after[i] = IF after[i - 1] = 0 THEN 0 ELSE Section(t, Cases[i], after[i - 1])

LEMMA CursorRecursion ==
    ASSUME NEW t \in Seq(Line), Len(Cases) \in Nat
    PROVE  \E after \in [0..Len(Cases) -> Nat] :
              Follows(after, t) /\ Cursor(t) = after[Len(Cases)]
<1> DEFINE n == Len(Cases)
    v0 == IndexFrom(t, <<"BEGIN">>, 1) + 1
    Step(i, v) == IF v = 0 THEN 0 ELSE Section(t, Cases[i], v)
    step == [p \in (1..n) \X Nat |-> Step(p[1], p[2])]
    Is(f) == f = [i \in 0..n |-> IF i = 0 THEN v0 ELSE Step(i, f[i - 1])]
<1>1. v0 \in Nat
  <2>1. IndexFrom(t, <<"BEGIN">>, 1) \in Nat
    BY IndexFromFinds
  <2> QED
    BY <2>1
<1>2. \A i \in 1..n, v \in Nat : Step(i, v) \in Nat
  BY SectionFinds
<1> HIDE DEF v0, n, Step
<1>3. n \in Nat
  BY DEF n
<1>4. step \in [(1..n) \X Nat -> Nat]
  BY <1>2
<1>5. PICK f \in [0..n -> Nat] : Recursive(f, n, v0, step)
  <2> HIDE DEF step
  <2> QED
    BY <1>1, <1>3, <1>4, Recursion
<1>6. f[0] = v0 /\ \A i \in 1..n : f[i] = Step(i, f[i - 1])
  <2>0. f[0] = v0
    BY <1>5 DEF Recursive
  <2> SUFFICES \A i \in 1..n : f[i] = Step(i, f[i - 1])
    BY <2>0
  <2> TAKE i \in 1..n
  <2>1. i - 1 \in 0..n
    BY <1>3
  <2>2. f[i - 1] \in Nat
    BY <1>5, <2>1
  <2> QED
    BY <1>5, <2>2 DEF Recursive
<1>7. Is(f)
  BY <1>3, <1>5, <1>6
<1>8. PICK after : Is(after) /\ after = CHOOSE g : Is(g)
  BY <1>7
<1>9. Cursor(t) = after[n]
  BY <1>8 DEF Cursor, v0, n, Step
<1>10. after[0] = v0 /\ \A i \in 1..n : after[i] = Step(i, after[i - 1])
  <2>1. ASSUME NEW i \in 0..n
        PROVE  after[i] = IF i = 0 THEN v0 ELSE Step(i, after[i - 1])
    BY <1>8
  <2>2. 0 \in 0..n /\ \A i \in 1..n : i \in 0..n /\ i # 0
    BY <1>3
  <2> HIDE DEF Is
  <2> QED
    BY <2>1, <2>2
<1>11. after \in [0..n -> Nat]
  <2> DEFINE S == {i \in Nat : i <= n => after[i] \in Nat}
  <2>1. 0 \in S
    BY <1>1, <1>10
  <2>2. ASSUME NEW i \in Nat, i \in S
        PROVE  i + 1 \in S
    <3>1. SUFFICES ASSUME i + 1 <= n PROVE after[i + 1] \in Nat
      OBVIOUS
    <3>2. after[i] \in Nat /\ i + 1 \in 1..n /\ (i + 1) - 1 = i
      BY <1>3, <2>2, <3>1
    <3>3. after[i + 1] = Step(i + 1, after[i])
      BY <1>10, <3>2
    <3> QED
      BY <1>2, <3>2, <3>3
  <2>3. Nat \subseteq S
    <3> HIDE DEF S
    <3> QED
      BY <2>1, <2>2, NatInduct
  <2>4. after = [i \in 0..n |-> after[i]]
    BY <1>8
  <2>5. \A i \in 0..n : after[i] \in Nat
    BY <1>3, <2>3
  <2> HIDE DEF Is
  <2> QED
    BY <2>4, <2>5
<1>12. Follows(after, t)
  BY <1>10 DEF Follows, v0, n, Step
<1> QED
  BY <1>9, <1>11, <1>12 DEF n

-----------------------------------------------------------------------------
(* The text of the guest: the inductive invariant.                         *)

\* The lines written so far, with the one that is still in parts.
Text == IF half = None THEN SerialLines(serial) ELSE Append(SerialLines(serial), half)

\* What the log is made of.
LogOK ==
    /\ serial \in Seq(Pieces)
    /\ half \in Line \cup {None}
    /\ half # None => serial # <<>>

\* Cases before at have passed, and the one that stopped the script failed.
ScriptOK ==
    /\ stage \in {"off", "boot", "begin", "run", "end", "over"}
    /\ at \in 1..(Len(Cases) + 1)
    /\ stage \in {"off", "boot"} => at = 1
    /\ stage \in {"begin", "run"} => at <= Len(Cases)
    /\ stage = "end" => at = Len(Cases) + 1
    /\ exit \in [Names -> {"none", "0", "1"}]
    /\ \A i \in 1..Len(Cases) :
          exit[Cases[i]] = IF i < at THEN "0"
                           ELSE IF i = at /\ stage = "over" THEN "1" ELSE "none"
    /\ printed \in [Names -> SUBSET Lines]
    /\ \A i \in at..Len(Cases) :
          i > at \/ stage \in {"off", "boot", "begin"} => printed[Cases[i]] = {}

\* Lines k of t: the beginning of case i, a status of case i, output.
IsBegin(t, k, i) == t[k][1] = "begin" /\ t[k][2] = Cases[i]
IsStatus(t, k, i) == t[k][1] = "status" /\ t[k][2] = Cases[i]
IsOut(t, k) == t[k][1] = "out"

\* Nothing but output between two lines.
OutsBetween(t, b, e) == \A k \in (b + 1)..(e - 1) : IsOut(t, k)

\* These lines, and nothing else, were printed between b and e.
PrintedBetween(t, lines, b, e) ==
    /\ OutsBetween(t, b, e)
    /\ \A l \in lines : \E k \in (b + 1)..(e - 1) : IsOut(t, k) /\ t[k][2] = l

\* The section of a case that ended with this code.
HasSection(t, i, code, lines) ==
    \E b, e \in 1..Len(t) :
       /\ b < e /\ IsBegin(t, b, i)
       /\ IsStatus(t, e, i) /\ t[e][3] = code
       /\ PrintedBetween(t, lines, b, e)

\* BEGIN is the first line, and END PASS the last one of a script that is over.
Framed(t) ==
    /\ Len(t) = 0 <=> stage \in {"off", "boot"}
    /\ \A k \in 1..Len(t) : t[k][1] = "BEGIN" <=> k = 1
    /\ \A k \in 1..Len(t) :
          t[k][1] = "END" => k = Len(t) /\ stage = "over" /\ at = Len(Cases) + 1

\* The cases that have begun.
Begun(i) ==
    \/ i < at
    \/ i = at /\ stage \in {"run", "over"}

\* A case begins when it is its turn, and once.
BegunOnce(t) ==
    /\ \A b \in 1..Len(t), i \in 1..Len(Cases) : IsBegin(t, b, i) => Begun(i)
    /\ \A a, b \in 1..Len(t), i \in 1..Len(Cases) : IsBegin(t, a, i) /\ IsBegin(t, b, i) => a = b

\* Every line of output belongs to the case begun before it.
OutputOfACase(t) ==
    \A k \in 1..Len(t) : IsOut(t, k) =>
        \E i \in 1..Len(Cases), b \in 1..(k - 1) :
           IsBegin(t, b, i) /\ t[k][2] \in printed[Cases[i]] /\ OutsBetween(t, b, k)

\* A status follows the beginning of its case, and precedes later cases.
StatusOfACase(t) ==
    /\ \A e \in 1..Len(t), i \in 1..Len(Cases) :
          IsStatus(t, e, i) => \E b \in 1..(e - 1) : IsBegin(t, b, i) /\ OutsBetween(t, b, e)
    /\ \A e, b \in 1..Len(t), i, j \in 1..Len(Cases) :
          IsStatus(t, e, i) /\ IsBegin(t, b, j) /\ i < j => e < b

\* The case that runs, and those that have ended.
RunningCase(t) ==
    stage = "run" =>
        \E b \in 1..Len(t) : IsBegin(t, b, at) /\ PrintedBetween(t, printed[Cases[at]], b, Len(t) + 1)

EndedCases(t) ==
    \A i \in 1..Len(Cases) :
       exit[Cases[i]] # "none" => HasSection(t, i, exit[Cases[i]], printed[Cases[i]])

\* How many cases have ended, and that their statuses are in order.
Ended == IF stage = "over" /\ at <= Len(Cases) THEN at ELSE at - 1

StatusesInOrder(t) ==
    /\ Len(Statuses(t)) = Ended
    /\ \A k \in 1..Ended : Statuses(t)[k][2] = Cases[k] /\ Statuses(t)[k][3] = exit[Cases[k]]

TextOK(t) ==
    /\ t \in Seq(Line)
    /\ Framed(t) /\ BegunOnce(t) /\ OutputOfACase(t) /\ StatusOfACase(t)
    /\ RunningCase(t) /\ EndedCases(t) /\ StatusesInOrder(t)

\* What is left of that when a case hides its status in the middle of a line:
\* its name is in no status that can be read.
HiddenOK(t) ==
    /\ t \in Seq(Line)
    /\ \A c \in unended : \E i \in 1..Ended : c = Cases[i]
    /\ \A k \in 1..Len(Statuses(t)) :
          /\ Statuses(t)[k][2] \notin unended
          /\ \E i \in 1..Ended : Statuses(t)[k][2] = Cases[i]

-----------------------------------------------------------------------------
(* The runner.                                                             *)

Installed == \A p \in Payload : disk[p] = "new"

Earned == stage = "over" /\ \A c \in Names : exit[c] = "0" /\ Markers[c] \subseteq printed[c]

Deserved ==
    \/ \E c \in Names : exit[c] = "1"
    \/ \E i \in 1..Len(serial) : serial[i] = Fatal
    \/ stage = "over" /\ \E c \in Names : ~(Markers[c] \subseteq printed[c])
    \/ unended # {}

RunnerOK ==
    /\ pc \in {"prepare", "inject", "verify", "boot"} => stage = "off" /\ status = "none"
    /\ pc = "boot" \/ status \notin {"none", "error"} => Installed
    /\ pc \in {"read", "poll", "clock"} => status = "pending"
    /\ status = "pass" => Earned
    /\ status = "fail" /\ reason = "output" => Deserved
    /\ result # "none" => pc = "done" /\ result = status

-----------------------------------------------------------------------------
(* The lines that the script writes keep the text in this shape.           *)

LEMMA SuiteFacts ==
    /\ Len(Cases) \in Nat \ {0}
    /\ \A i \in 1..Len(Cases) : Cases[i] \in Names
    /\ \A c \in Names : \E i \in 1..Len(Cases) : c = Cases[i]
    /\ \A i, j \in 1..Len(Cases) : Cases[i] = Cases[j] => i = j
    /\ None \notin Line
<1>1. Cases \in Seq(Names) /\ Cases # <<>>
  BY SuiteAssumption
<1>2. DOMAIN Cases = 1..Len(Cases) /\ Len(Cases) \in Nat \ {0}
  BY <1>1
<1>3. \A c \in Names : \E i \in 1..Len(Cases) : c = Cases[i]
  BY <1>2 DEF Names, ToSet
<1>4. \A i, j \in 1..Len(Cases) : Cases[i] = Cases[j] => i = j
  BY <1>2, SuiteAssumption DEF IsInjective
<1> QED
  BY <1>1, <1>2, <1>3, <1>4, SuiteAssumption
\* A line is told by its first word and what follows that.
LEMMA LineKinds ==
    ASSUME NEW l \in Line
    PROVE  /\ l[1] \in {"BEGIN", "END", "begin", "out", "status", "glued"}
           /\ l[1] = "BEGIN" <=> l = <<"BEGIN">>
           /\ l[1] = "END" <=> l = <<"END">>
           /\ \A c : (l[1] = "begin" /\ l[2] = c) <=> l = <<"begin", c>>
           /\ \A o : (l[1] = "out" /\ l[2] = o) <=> l = <<"out", o>>
           /\ \A c, code : (l[1] = "status" /\ l[2] = c /\ l[3] = code) <=> l = <<"status", c, code>>
           /\ l[1] = "status" => l[3] \in {"0", "1"}
           /\ l[1] \in {"begin", "status"} => l[2] \in Names
           /\ l[1] = "out" => l[2] \in Lines
<1>1. \/ l \in {<<"BEGIN">>, <<"END">>}
      \/ l \in {"begin"} \X Names
      \/ l \in {"out"} \X Lines
      \/ l \in {"status", "glued"} \X Names \X {"0", "1"}
  BY DEF Line
<1>2. CASE l \in {<<"BEGIN">>, <<"END">>}
  <2>1. CASE l = <<"BEGIN">>
    BY <2>1
  <2>2. CASE l = <<"END">>
    BY <2>2
  <2> QED
    BY <1>2, <2>1, <2>2
<1>3. CASE l \in {"begin"} \X Names
  <2>1. l = <<"begin", l[2]>> /\ l[2] \in Names
    BY <1>3
  <2>2. PICK c \in Names : l = <<"begin", c>>
    BY <2>1
  <2> HIDE <2>1
  <2> QED
    BY <2>2
<1>4. CASE l \in {"out"} \X Lines
  <2>1. l = <<"out", l[2]>> /\ l[2] \in Lines
    BY <1>4
  <2>2. PICK o \in Lines : l = <<"out", o>>
    BY <2>1
  <2> HIDE <2>1
  <2> QED
    BY <2>2
<1>5. CASE l \in {"status", "glued"} \X Names \X {"0", "1"}
  <2>1. /\ l = <<l[1], l[2], l[3]>>
        /\ l[1] \in {"status", "glued"} /\ l[2] \in Names /\ l[3] \in {"0", "1"}
    BY <1>5
  <2>2. PICK kind \in {"status", "glued"}, c \in Names, code \in {"0", "1"} : l = <<kind, c, code>>
    BY <2>1
  <2> HIDE <2>1
  <2> QED
    BY <2>2
<1> QED
  BY <1>1, <1>2, <1>3, <1>4, <1>5

LEMMA LineSpelled ==
    ASSUME NEW l \in Line
    PROVE  /\ l[1] = "begin" => l = <<"begin", l[2]>>
           /\ l[1] = "out" => l = <<"out", l[2]>>
           /\ l[1] = "status" => l = <<"status", l[2], l[3]>>
<1>1. l[1] = "begin" => l = <<"begin", l[2]>>
  BY LineKinds
<1>2. l[1] = "out" => l = <<"out", l[2]>>
  BY LineKinds
<1>3. l[1] = "status" => l = <<"status", l[2], l[3]>>
  BY LineKinds
<1> QED
  BY <1>1, <1>2, <1>3

\* The lines that the script writes.
LEMMA ScriptLines ==
    /\ <<"BEGIN">> \in Line /\ <<"END">> \in Line
    /\ \A c \in Names : <<"begin", c>> \in Line
    /\ \A l \in Lines : <<"out", l>> \in Line
    /\ \A kind \in {"status", "glued"}, c \in Names, code \in {"0", "1"} :
          <<kind, c, code>> \in Line
<1>1. \A c \in Names : <<"begin", c>> \in Line
  BY DEF Line
<1>2. \A l \in Lines : <<"out", l>> \in Line
  BY DEF Line
<1>3. \A kind \in {"status", "glued"}, c \in Names, code \in {"0", "1"} :
         <<kind, c, code>> \in Line
  BY DEF Line
<1>4. <<"BEGIN">> \in Line /\ <<"END">> \in Line
  BY DEF Line
<1> QED
  BY <1>1, <1>2, <1>3, <1>4

\* A text with one more line.
LEMMA Grows ==
    ASSUME NEW t \in Seq(Line), NEW l \in Line, NEW u, u = Append(t, l)
    PROVE  /\ u \in Seq(Line) /\ Len(t) \in Nat /\ Len(u) = Len(t) + 1 /\ u[Len(t) + 1] = l
           /\ \A k \in 1..Len(t) : u[k] = t[k] /\ k # Len(t) + 1 /\ k \in 1..(Len(t) + 1)
           /\ \A k \in 1..(Len(t) + 1) : k \in 1..Len(t) \/ k = Len(t) + 1
<1>1. /\ u \in Seq(Line) /\ Len(t) \in Nat /\ Len(u) = Len(t) + 1 /\ u[Len(t) + 1] = l
      /\ \A k \in 1..Len(t) : u[k] = t[k]
  OBVIOUS
<1> QED
  BY <1>1

\* What was before the new line is as it was.
LEMMA GrowsBetween ==
    ASSUME NEW t \in Seq(Line), NEW l \in Line, NEW u, u = Append(t, l),
           NEW b \in Nat, NEW e \in 1..(Len(t) + 1), OutsBetween(t, b, e)
    PROVE  OutsBetween(u, b, e)
<1>1. \A k \in (b + 1)..(e - 1) : k \in 1..Len(t)
  OBVIOUS
<1> QED
  BY <1>1, Grows DEF OutsBetween, IsOut

LEMMA GrowsBegun ==
    ASSUME NEW t \in Seq(Line), NEW l \in Line, NEW u, u = Append(t, l), BegunOnce(t),
           l[1] # "begin", \A i \in 1..Len(Cases) : Begun(i) => Begun(i)'
    PROVE  BegunOnce(u)'
<1>1. \A k \in 1..(Len(t) + 1), i \in 1..Len(Cases) :
         IsBegin(u, k, i) => k \in 1..Len(t) /\ IsBegin(t, k, i)
  BY Grows DEF IsBegin
<1>2. \A b \in 1..Len(u), i \in 1..Len(Cases) : IsBegin(u, b, i) => Begun(i)'
  BY <1>1, Grows DEF BegunOnce
<1>3. \A a, b \in 1..Len(u), i \in 1..Len(Cases) : IsBegin(u, a, i) /\ IsBegin(u, b, i) => a = b
  BY <1>1, Grows DEF BegunOnce
<1> QED
  BY <1>2, <1>3 DEF BegunOnce, IsBegin

LEMMA GrowsOutput ==
    ASSUME NEW t \in Seq(Line), NEW l \in Line, NEW u, u = Append(t, l), OutputOfACase(t),
           l[1] # "out", \A i \in 1..Len(Cases) : printed[Cases[i]] \subseteq printed'[Cases[i]]
    PROVE  OutputOfACase(u)'
<1> SUFFICES ASSUME NEW k \in 1..Len(u), IsOut(u, k)
             PROVE  \E i \in 1..Len(Cases), b \in 1..(k - 1) :
                       IsBegin(u, b, i) /\ u[k][2] \in printed'[Cases[i]] /\ OutsBetween(u, b, k)
  BY DEF OutputOfACase, IsBegin, IsOut, OutsBetween
<1>1. k \in 1..Len(t) /\ u[k] = t[k]
  BY Grows DEF IsOut
<1>2. PICK i \in 1..Len(Cases), b \in 1..(k - 1) :
         IsBegin(t, b, i) /\ t[k][2] \in printed[Cases[i]] /\ OutsBetween(t, b, k)
  BY <1>1 DEF OutputOfACase, IsOut
<1>3. b \in Nat /\ b \in 1..Len(t) /\ k \in 1..(Len(t) + 1)
  BY <1>1, Grows
<1>4. IsBegin(u, b, i)
  BY <1>2, <1>3, Grows DEF IsBegin
<1>5. OutsBetween(u, b, k)
  BY <1>2, <1>3, GrowsBetween
<1> QED
  BY <1>1, <1>2, <1>4, <1>5

LEMMA GrowsStatus ==
    ASSUME NEW t \in Seq(Line), NEW l \in Line, NEW u, u = Append(t, l), StatusOfACase(t),
           l[1] # "status"
    PROVE  StatusOfACase(u)'
<1>1. \A e \in 1..Len(u), i \in 1..Len(Cases) :
         IsStatus(u, e, i) => e \in 1..Len(t) /\ IsStatus(t, e, i)
  BY Grows DEF IsStatus
<1>2. ASSUME NEW e \in 1..Len(u), NEW i \in 1..Len(Cases), IsStatus(u, e, i)
      PROVE  \E b \in 1..(e - 1) : IsBegin(u, b, i) /\ OutsBetween(u, b, e)
  <2>1. PICK b \in 1..(e - 1) : IsBegin(t, b, i) /\ OutsBetween(t, b, e)
    BY <1>1, <1>2 DEF StatusOfACase
  <2>2. b \in Nat /\ b \in 1..Len(t) /\ e \in 1..(Len(t) + 1)
    BY <1>1, <1>2, Grows
  <2>3. OutsBetween(u, b, e)
    BY <2>1, <2>2, GrowsBetween
  <2>4. IsBegin(u, b, i)
    BY <2>1, <2>2, Grows DEF IsBegin
  <2> QED
    BY <2>3, <2>4
<1>3. ASSUME NEW e \in 1..Len(u), NEW b \in 1..Len(u), NEW i \in 1..Len(Cases), NEW j \in 1..Len(Cases),
             IsStatus(u, e, i), IsBegin(u, b, j), i < j
      PROVE  e < b
  <2>1. e \in 1..Len(t) /\ IsStatus(t, e, i)
    BY <1>1, <1>3
  <2>2. CASE b = Len(t) + 1
    BY <2>1, <2>2
  <2>3. CASE b \in 1..Len(t)
    <3>1. IsBegin(t, b, j)
      BY <1>3, <2>3, Grows DEF IsBegin
    <3> QED
      BY <1>3, <2>1, <2>3, <3>1 DEF StatusOfACase
  <2> QED
    BY <2>2, <2>3, Grows
<1>4. StatusOfACase(u)
  BY <1>2, <1>3 DEF StatusOfACase
<1> QED
  BY <1>4 DEF StatusOfACase, IsStatus, IsBegin, IsOut, OutsBetween

\* Cases that ended before keep what they printed where it was.
LEMMA GrowsSection ==
    ASSUME NEW t \in Seq(Line), NEW l \in Line, NEW u, u = Append(t, l),
           NEW i, NEW code, NEW lines, HasSection(t, i, code, lines)
    PROVE  HasSection(u, i, code, lines)
<1>1. PICK b \in 1..Len(t), e \in 1..Len(t) :
         /\ b < e /\ IsBegin(t, b, i)
         /\ IsStatus(t, e, i) /\ t[e][3] = code
         /\ PrintedBetween(t, lines, b, e)
  BY DEF HasSection
<1>2. b \in 1..Len(u) /\ e \in 1..Len(u) /\ b \in Nat /\ e \in 1..(Len(t) + 1)
  BY Grows
<1>3. OutsBetween(u, b, e)
  BY <1>1, <1>2, GrowsBetween DEF PrintedBetween
<1>4. IsBegin(u, b, i) /\ IsStatus(u, e, i) /\ u[e][3] = t[e][3]
  BY <1>1, Grows DEF IsBegin, IsStatus
<1>5. \A o \in lines : \E k \in (b + 1)..(e - 1) : IsOut(u, k) /\ u[k][2] = o
  <2> TAKE o \in lines
  <2>1. PICK k \in (b + 1)..(e - 1) : IsOut(t, k) /\ t[k][2] = o
    BY <1>1 DEF PrintedBetween
  <2>2. k \in 1..Len(t)
    BY <1>2
  <2> QED
    BY <2>1, <2>2, Grows DEF IsOut
<1> QED
  BY <1>1, <1>2, <1>3, <1>4, <1>5 DEF HasSection, PrintedBetween

LEMMA GrowsEnded ==
    ASSUME NEW t \in Seq(Line), NEW l \in Line, NEW u, u = Append(t, l), EndedCases(t), exit' = exit,
           \A i \in 1..Len(Cases) :
              exit[Cases[i]] # "none" => printed'[Cases[i]] = printed[Cases[i]]
    PROVE  EndedCases(u)'
<1>1. ASSUME NEW i \in 1..Len(Cases), exit'[Cases[i]] # "none"
      PROVE  HasSection(u, i, exit'[Cases[i]], printed'[Cases[i]])
  <2>1. HasSection(t, i, exit[Cases[i]], printed[Cases[i]])
    BY <1>1 DEF EndedCases
  <2>2. HasSection(u, i, exit[Cases[i]], printed[Cases[i]])
    BY <2>1, GrowsSection
  <2> QED
    BY <1>1, <2>2
<1> QED
  BY <1>1 DEF EndedCases, HasSection, PrintedBetween, OutsBetween, IsBegin, IsStatus, IsOut

LEMMA GrowsInOrder ==
    ASSUME NEW t \in Seq(Line), NEW l \in Line, NEW u, u = Append(t, l), StatusesInOrder(t),
           l[1] # "status", exit' = exit, Ended' = Ended
    PROVE  StatusesInOrder(u)'
<1>1. Statuses(u) = Statuses(t)
  BY StatusesAppend
<1>2. Statuses(u)' = Statuses(u)
  BY DEF Statuses, ElementsAt
<1> QED
  BY <1>1, <1>2 DEF StatusesInOrder

\* The five lines of the script, one by one.
LEMMA BeginText ==
    ASSUME ScriptOK, NEW t, TextOK(t), NEW l \in Line, NEW u, u = Append(t, l),
           stage = "boot", l[1] = "BEGIN",
           stage' = "begin", at' = at, exit' = exit, printed' = printed
    PROVE  TextOK(u)'
<1>1. t \in Seq(Line)
  BY DEF TextOK
<1>2. Framed(u)'
  <2>1. Len(t) = 0
    BY DEF TextOK, Framed
  <2>2. Len(u) = 1 /\ u[1][1] = "BEGIN"
    BY <1>1, <2>1, Grows
  <2>3. \A k \in 1..Len(u) : k = 1
    BY <2>2
  <2> QED
    BY <2>2, <2>3 DEF Framed
<1>3. BegunOnce(u)'
  <2>1. \A i \in 1..Len(Cases) : Begun(i) => Begun(i)'
    BY DEF Begun
  <2> QED
    BY <1>1, <2>1, GrowsBegun DEF TextOK
<1>4. OutputOfACase(u)'
  BY <1>1, GrowsOutput DEF TextOK
<1>5. StatusOfACase(u)'
  BY <1>1, GrowsStatus DEF TextOK
<1>6. RunningCase(u)'
  BY DEF RunningCase
<1>7. EndedCases(u)'
  BY <1>1, GrowsEnded DEF TextOK
<1>8. StatusesInOrder(u)'
  <2>1. Ended' = Ended
    BY DEF Ended
  <2> QED
    BY <1>1, <2>1, GrowsInOrder DEF TextOK
<1>9. (u \in Seq(Line))'
  BY <1>1, Grows DEF Line, Names
<1> QED
  BY <1>2, <1>3, <1>4, <1>5, <1>6, <1>7, <1>8, <1>9 DEF TextOK

LEMMA EndScriptText ==
    ASSUME ScriptOK, NEW t, TextOK(t), NEW l \in Line, NEW u, u = Append(t, l),
           stage = "end", l[1] = "END",
           stage' = "over", at' = at, exit' = exit, printed' = printed
    PROVE  TextOK(u)'
<1>1. t \in Seq(Line) /\ at = Len(Cases) + 1 /\ Len(Cases) \in Nat
  BY SuiteFacts DEF TextOK, ScriptOK
<1>2. Framed(u)'
  <2>1. Len(t) # 0 /\ \A k \in 1..Len(t) : t[k][1] # "END"
    BY DEF TextOK, Framed
  <2>2. \A k \in 1..Len(t) : t[k][1] = "BEGIN" <=> k = 1
    BY DEF TextOK, Framed
  <2>3. Len(t) \in Nat /\ Len(u) = Len(t) + 1 /\ u[Len(t) + 1] = l
    BY <1>1, Grows
  <2>4. \A k \in 1..Len(u) : (k \in 1..Len(t) /\ u[k] = t[k] /\ k # Len(t) + 1) \/ k = Len(t) + 1
    BY <1>1, <2>3, Grows
  <2>5. \A k \in 1..Len(u) : u[k][1] = "BEGIN" <=> k = 1
    BY <2>1, <2>2, <2>3, <2>4
  <2>6. \A k \in 1..Len(u) : u[k][1] = "END" => k = Len(u)
    BY <2>1, <2>3, <2>4
  <2> QED
    BY <1>1, <2>3, <2>5, <2>6 DEF Framed
<1>3. BegunOnce(u)'
  <2>1. \A i \in 1..Len(Cases) : Begun(i) => Begun(i)'
    BY <1>1 DEF Begun
  <2> QED
    BY <1>1, <2>1, GrowsBegun DEF TextOK
<1>4. OutputOfACase(u)'
  BY <1>1, GrowsOutput DEF TextOK
<1>5. StatusOfACase(u)'
  BY <1>1, GrowsStatus DEF TextOK
<1>6. RunningCase(u)'
  BY DEF RunningCase
<1>7. EndedCases(u)'
  BY <1>1, GrowsEnded DEF TextOK
<1>8. StatusesInOrder(u)'
  <2>1. Ended = at - 1
    BY DEF Ended
  <2>2. Ended' = at' - 1
    BY <1>1 DEF Ended
  <2> QED
    BY <1>1, <2>1, <2>2, GrowsInOrder DEF TextOK
<1>9. (u \in Seq(Line))'
  BY <1>1, Grows DEF Line, Names
<1> QED
  BY <1>2, <1>3, <1>4, <1>5, <1>6, <1>7, <1>8, <1>9 DEF TextOK

LEMMA BeginCaseText ==
    ASSUME ScriptOK, NEW t, TextOK(t), NEW l \in Line, NEW u, u = Append(t, l),
           stage = "begin", l[1] = "begin", l[2] = Cases[at],
           stage' = "run", at' = at, exit' = exit, printed' = printed
    PROVE  TextOK(u)'
<1>1. t \in Seq(Line) /\ at \in 1..Len(Cases) /\ Len(Cases) \in Nat
  BY SuiteFacts DEF TextOK, ScriptOK
<1>2. Framed(u)'
  <2>1. Len(t) # 0 /\ \A k \in 1..Len(t) : t[k][1] # "END"
    BY DEF TextOK, Framed
  <2>2. \A k \in 1..Len(t) : t[k][1] = "BEGIN" <=> k = 1
    BY DEF TextOK, Framed
  <2>3. \A k \in 1..Len(u) : u[k][1] = "BEGIN" <=> k = 1
    BY <1>1, <2>1, <2>2, Grows
  <2>4. \A k \in 1..Len(u) : u[k][1] # "END"
    BY <1>1, <2>1, Grows
  <2> QED
    BY <1>1, <2>3, <2>4, Grows DEF Framed
<1>3. BegunOnce(u)'
  <2>1. \A k \in 1..Len(t), i \in 1..Len(Cases) : IsBegin(t, k, i) => i < at
    BY <1>1 DEF TextOK, BegunOnce, Begun
  <2>2. \A k \in 1..Len(u), i \in 1..Len(Cases) :
           IsBegin(u, k, i) => \/ k \in 1..Len(t) /\ IsBegin(t, k, i) /\ i < at
                               \/ k = Len(t) + 1 /\ i = at
    BY <1>1, <2>1, Grows, SuiteFacts DEF IsBegin
  <2>3. \A k \in 1..Len(u), i \in 1..Len(Cases) : IsBegin(u, k, i) => Begun(i)'
    BY <2>2 DEF Begun
  <2>4. \A a, b \in 1..Len(u), i \in 1..Len(Cases) : IsBegin(u, a, i) /\ IsBegin(u, b, i) => a = b
    BY <1>1, <2>2 DEF TextOK, BegunOnce
  <2> QED
    BY <2>3, <2>4 DEF BegunOnce, IsBegin
<1>4. OutputOfACase(u)'
  BY <1>1, GrowsOutput DEF TextOK
<1>5. StatusOfACase(u)'
  BY <1>1, GrowsStatus DEF TextOK
<1>6. RunningCase(u)'
  <2>1. printed[Cases[at]] = {}
    BY <1>1 DEF ScriptOK
  <2>2. Len(u) \in 1..Len(u) /\ IsBegin(u, Len(u), at)
    BY <1>1, Grows DEF IsBegin
  <2>3. PrintedBetween(u, {}, Len(u), Len(u) + 1)
    BY <2>2 DEF PrintedBetween, OutsBetween
  <2> QED
    BY <2>1, <2>2, <2>3 DEF RunningCase, IsBegin, PrintedBetween, OutsBetween, IsOut
<1>7. EndedCases(u)'
  BY <1>1, GrowsEnded DEF TextOK
<1>8. StatusesInOrder(u)'
  <2>1. Ended' = Ended
    BY DEF Ended
  <2> QED
    BY <1>1, <2>1, GrowsInOrder DEF TextOK
<1>9. (u \in Seq(Line))'
  BY <1>1, Grows DEF Line, Names
<1> QED
  BY <1>2, <1>3, <1>4, <1>5, <1>6, <1>7, <1>8, <1>9 DEF TextOK

LEMMA PrintLineText ==
    ASSUME ScriptOK, NEW t, TextOK(t), NEW l \in Line, NEW u, u = Append(t, l),
           stage = "run", l[1] = "out",
           stage' = "run", at' = at, exit' = exit,
           printed'[Cases[at]] = printed[Cases[at]] \cup {l[2]},
           \A i \in 1..Len(Cases) : i # at => printed'[Cases[i]] = printed[Cases[i]]
    PROVE  TextOK(u)'
<1>1. t \in Seq(Line) /\ at \in 1..Len(Cases) /\ Len(Cases) \in Nat
  BY SuiteFacts DEF TextOK, ScriptOK
<1>2. Framed(u)'
  <2>1. Len(t) # 0 /\ \A k \in 1..Len(t) : t[k][1] # "END"
    BY DEF TextOK, Framed
  <2>2. \A k \in 1..Len(t) : t[k][1] = "BEGIN" <=> k = 1
    BY DEF TextOK, Framed
  <2>3. \A k \in 1..Len(u) : u[k][1] = "BEGIN" <=> k = 1
    BY <1>1, <2>1, <2>2, Grows
  <2>4. \A k \in 1..Len(u) : u[k][1] # "END"
    BY <1>1, <2>1, Grows
  <2> QED
    BY <1>1, <2>3, <2>4, Grows DEF Framed
<1>3. BegunOnce(u)'
  <2>1. \A i \in 1..Len(Cases) : Begun(i) => Begun(i)'
    BY DEF Begun
  <2> QED
    BY <1>1, <2>1, GrowsBegun DEF TextOK
<1>4. PICK b \in 1..Len(t) : IsBegin(t, b, at) /\ PrintedBetween(t, printed[Cases[at]], b, Len(t) + 1)
  BY DEF TextOK, RunningCase
<1>5. /\ b \in 1..Len(u) /\ b \in Nat /\ b \in 1..((Len(t) + 1) - 1)
      /\ IsBegin(u, b, at) /\ OutsBetween(u, b, Len(t) + 1)
  <2>1. b \in 1..Len(u) /\ b \in Nat /\ Len(t) + 1 \in 1..(Len(t) + 1) /\ b \in 1..((Len(t) + 1) - 1)
    BY <1>1, Grows
  <2>2. IsBegin(u, b, at)
    BY <1>1, <1>4, Grows DEF IsBegin
  <2>3. OutsBetween(u, b, Len(t) + 1)
    BY <1>1, <1>4, <2>1, GrowsBetween DEF PrintedBetween
  <2> QED
    BY <2>1, <2>2, <2>3
<1>6. OutputOfACase(u)'
  <2> SUFFICES ASSUME NEW k \in 1..Len(u), IsOut(u, k)
               PROVE  \E i \in 1..Len(Cases), a \in 1..(k - 1) :
                         IsBegin(u, a, i) /\ u[k][2] \in printed'[Cases[i]] /\ OutsBetween(u, a, k)
    BY DEF OutputOfACase, IsBegin, IsOut, OutsBetween
  <2>1. CASE k \in 1..Len(t)
    <3>1. u[k] = t[k] /\ IsOut(t, k)
      BY <1>1, <2>1, Grows DEF IsOut
    <3>2. PICK i \in 1..Len(Cases), a \in 1..(k - 1) :
             IsBegin(t, a, i) /\ t[k][2] \in printed[Cases[i]] /\ OutsBetween(t, a, k)
      BY <2>1, <3>1 DEF TextOK, OutputOfACase
    <3>3. a \in Nat /\ a \in 1..Len(t) /\ k \in 1..(Len(t) + 1)
      BY <1>1, <2>1, Grows
    <3>4. IsBegin(u, a, i)
      BY <1>1, <3>2, <3>3, Grows DEF IsBegin
    <3>5. OutsBetween(u, a, k)
      BY <1>1, <3>2, <3>3, GrowsBetween
    <3>6. t[k][2] \in printed'[Cases[i]]
      BY <3>2
    <3> QED
      BY <3>1, <3>4, <3>5, <3>6
  <2>2. CASE k = Len(t) + 1
    <3>1. u[k][2] \in printed'[Cases[at]]
      BY <1>1, <2>2, Grows
    <3> QED
      BY <1>1, <1>5, <2>2, <3>1
  <2> QED
    BY <1>1, <2>1, <2>2, Grows
<1>7. StatusOfACase(u)'
  BY <1>1, GrowsStatus DEF TextOK
<1>8. RunningCase(u)'
  <2>1. OutsBetween(u, b, Len(u) + 1)
    BY <1>1, <1>5, Grows DEF OutsBetween, IsOut
  <2>2. ASSUME NEW o \in printed'[Cases[at]]
        PROVE  \E k \in (b + 1)..((Len(u) + 1) - 1) : IsOut(u, k) /\ u[k][2] = o
    <3>1. CASE o \in printed[Cases[at]]
      <4>1. PICK k \in (b + 1)..((Len(t) + 1) - 1) : IsOut(t, k) /\ t[k][2] = o
        BY <1>4, <3>1 DEF PrintedBetween
      <4>2. k \in 1..Len(t) /\ k \in (b + 1)..((Len(u) + 1) - 1)
        BY <1>1, <1>5, <4>1, Grows
      <4> QED
        BY <1>1, <4>1, <4>2, Grows DEF IsOut
    <3>2. CASE o = l[2]
      <4>1. Len(u) \in (b + 1)..((Len(u) + 1) - 1) /\ u[Len(u)] = l
        BY <1>1, <1>5, Grows
      <4> QED
        BY <3>2, <4>1 DEF IsOut
    <3> QED
      BY <2>2, <3>1, <3>2
  <2> QED
    BY <1>5, <2>1, <2>2 DEF RunningCase, IsBegin, PrintedBetween, OutsBetween, IsOut
<1>9. EndedCases(u)'
  <2>1. \A i \in 1..Len(Cases) : exit[Cases[i]] # "none" => i # at
    BY DEF ScriptOK
  <2> QED
    BY <1>1, <2>1, GrowsEnded DEF TextOK
<1>10. StatusesInOrder(u)'
  <2>1. Ended' = Ended
    BY DEF Ended
  <2> QED
    BY <1>1, <2>1, GrowsInOrder DEF TextOK
<1>11. (u \in Seq(Line))'
  BY <1>1, Grows DEF Line, Names
<1> QED
  BY <1>2, <1>3, <1>6, <1>7, <1>8, <1>9, <1>10, <1>11 DEF TextOK

LEMMA EndCaseText ==
    ASSUME ScriptOK, NEW t, TextOK(t), NEW l \in Line, NEW u, u = Append(t, l),
           stage = "run", l[1] = "status", l[2] = Cases[at], printed' = printed,
           exit'[Cases[at]] = l[3],
           \A i \in 1..Len(Cases) : i # at => exit'[Cases[i]] = exit[Cases[i]],
           \/ at' = at + 1 /\ stage' \in {"begin", "end"}
           \/ at' = at /\ stage' = "over"
    PROVE  TextOK(u)'
<1>1. t \in Seq(Line) /\ at \in 1..Len(Cases) /\ Len(Cases) \in Nat
  BY SuiteFacts DEF TextOK, ScriptOK
<1>2. Framed(u)'
  <2>1. Len(t) # 0 /\ \A k \in 1..Len(t) : t[k][1] # "END"
    BY DEF TextOK, Framed
  <2>2. \A k \in 1..Len(t) : t[k][1] = "BEGIN" <=> k = 1
    BY DEF TextOK, Framed
  <2>3. \A k \in 1..Len(u) : u[k][1] = "BEGIN" <=> k = 1
    BY <1>1, <2>1, <2>2, Grows
  <2>4. \A k \in 1..Len(u) : u[k][1] # "END"
    BY <1>1, <2>1, Grows
  <2> QED
    BY <1>1, <2>3, <2>4, Grows DEF Framed
<1>3. BegunOnce(u)'
  <2>1. \A i \in 1..Len(Cases) : Begun(i) => Begun(i)'
    BY <1>1 DEF Begun
  <2> QED
    BY <1>1, <2>1, GrowsBegun DEF TextOK
<1>4. PICK b \in 1..Len(t) : IsBegin(t, b, at) /\ PrintedBetween(t, printed[Cases[at]], b, Len(t) + 1)
  BY DEF TextOK, RunningCase
<1>5. /\ b \in 1..Len(u) /\ b \in Nat /\ b \in 1..((Len(t) + 1) - 1)
      /\ IsBegin(u, b, at) /\ OutsBetween(u, b, Len(t) + 1)
  <2>1. b \in 1..Len(u) /\ b \in Nat /\ Len(t) + 1 \in 1..(Len(t) + 1) /\ b \in 1..((Len(t) + 1) - 1)
    BY <1>1, Grows
  <2>2. IsBegin(u, b, at)
    BY <1>1, <1>4, Grows DEF IsBegin
  <2>3. OutsBetween(u, b, Len(t) + 1)
    BY <1>1, <1>4, <2>1, GrowsBetween DEF PrintedBetween
  <2> QED
    BY <2>1, <2>2, <2>3
<1>6. OutputOfACase(u)'
  BY <1>1, GrowsOutput DEF TextOK
<1>7. StatusOfACase(u)'
  <2>1. \A e \in 1..Len(u), i \in 1..Len(Cases) :
           IsStatus(u, e, i) => \/ e \in 1..Len(t) /\ IsStatus(t, e, i)
                                \/ e = Len(t) + 1 /\ i = at
    <3> TAKE e \in 1..Len(u), i \in 1..Len(Cases)
    <3>1. CASE e \in 1..Len(t)
      BY <1>1, <3>1, Grows DEF IsStatus
    <3>2. CASE e = Len(t) + 1
      <4>1. u[e] = l
        BY <1>1, <3>2, Grows
      <4>2. IsStatus(u, e, i) => Cases[i] = Cases[at]
        BY <4>1 DEF IsStatus
      <4> QED
        BY <1>1, <3>2, <4>2, SuiteFacts
    <3> QED
      BY <1>1, <3>1, <3>2, Grows
  <2>2. ASSUME NEW e \in 1..Len(u), NEW i \in 1..Len(Cases), IsStatus(u, e, i)
        PROVE  \E a \in 1..(e - 1) : IsBegin(u, a, i) /\ OutsBetween(u, a, e)
    <3>1. CASE e \in 1..Len(t) /\ IsStatus(t, e, i)
      <4>1. PICK a \in 1..(e - 1) : IsBegin(t, a, i) /\ OutsBetween(t, a, e)
        BY <3>1 DEF TextOK, StatusOfACase
      <4>2. a \in Nat /\ a \in 1..Len(t) /\ e \in 1..(Len(t) + 1)
        BY <1>1, <3>1, Grows
      <4>3. OutsBetween(u, a, e)
        BY <1>1, <4>1, <4>2, GrowsBetween
      <4>4. IsBegin(u, a, i)
        BY <1>1, <4>1, <4>2, Grows DEF IsBegin
      <4> QED
        BY <4>3, <4>4
    <3>2. CASE e = Len(t) + 1 /\ i = at
      BY <1>5, <3>2
    <3> QED
      BY <2>1, <2>2, <3>1, <3>2
  <2>3. ASSUME NEW e \in 1..Len(u), NEW a \in 1..Len(u), NEW i \in 1..Len(Cases), NEW j \in 1..Len(Cases),
               IsStatus(u, e, i), IsBegin(u, a, j), i < j
        PROVE  e < a
    <3>1. a \in 1..Len(t) /\ IsBegin(t, a, j)
      BY <1>1, <2>3, Grows DEF IsBegin
    <3>2. j <= at
      BY <1>1, <3>1 DEF TextOK, BegunOnce, Begun
    <3>3. e \in 1..Len(t) /\ IsStatus(t, e, i)
      BY <1>1, <2>1, <2>3, <3>2
    <3> QED
      BY <2>3, <3>1, <3>3 DEF TextOK, StatusOfACase
  <2>4. StatusOfACase(u)
    BY <2>2, <2>3 DEF StatusOfACase
  <2> QED
    BY <2>4 DEF StatusOfACase, IsStatus, IsBegin, IsOut, OutsBetween
<1>8. RunningCase(u)'
  BY DEF RunningCase
<1>9. EndedCases(u)'
  <2>1. ASSUME NEW i \in 1..Len(Cases), exit'[Cases[i]] # "none"
        PROVE  HasSection(u, i, exit'[Cases[i]], printed'[Cases[i]])
    <3>1. CASE i # at
      <4>1. HasSection(t, i, exit[Cases[i]], printed[Cases[i]])
        BY <2>1, <3>1 DEF TextOK, EndedCases
      <4>2. HasSection(u, i, exit[Cases[i]], printed[Cases[i]])
        BY <1>1, <4>1, GrowsSection
      <4> QED
        BY <3>1, <4>2
    <3>2. CASE i = at
      <4> DEFINE e == Len(t) + 1
      <4>1. e \in 1..Len(u) /\ b < e /\ IsStatus(u, e, at) /\ u[e][3] = exit'[Cases[at]]
        BY <1>1, <1>5, Grows DEF IsStatus
      <4>2. ASSUME NEW o \in printed[Cases[at]]
            PROVE  \E k \in (b + 1)..(e - 1) : IsOut(u, k) /\ u[k][2] = o
        <5>1. PICK k \in (b + 1)..(e - 1) : IsOut(t, k) /\ t[k][2] = o
          BY <1>4 DEF PrintedBetween
        <5>2. k \in 1..Len(t)
          BY <1>1, <1>5, <5>1, Grows
        <5> QED
          BY <1>1, <5>1, <5>2, Grows DEF IsOut
      <4>3. PrintedBetween(u, printed[Cases[at]], b, e)
        BY <1>5, <4>2 DEF PrintedBetween
      <4> HIDE DEF e
      <4> QED
        BY <1>5, <3>2, <4>1, <4>3 DEF HasSection
    <3> QED
      BY <3>1, <3>2
  <2> QED
    BY <2>1 DEF EndedCases, HasSection, PrintedBetween, OutsBetween, IsBegin, IsStatus, IsOut
<1>10. StatusesInOrder(u)'
  <2>1. Ended = at - 1 /\ Ended' = at
    BY <1>1 DEF Ended
  <2>2. Statuses(t) \in Seq(Line) /\ Statuses(u) = Append(Statuses(t), l)
    BY <1>1, StatusesAppend
  <2>3. PICK old : old = Statuses(t)
    OBVIOUS
  <2>4. PICK new : new = Statuses(u)
    OBVIOUS
  <2>5. old \in Seq(Line) /\ new = Append(old, l)
    BY <2>2, <2>3, <2>4
  <2>6. Len(old) = at - 1 /\ \A k \in 1..(at - 1) : old[k][2] = Cases[k] /\ old[k][3] = exit[Cases[k]]
    BY <2>1, <2>3 DEF TextOK, StatusesInOrder
  <2>7. Len(new) = at /\ new[at] = l /\ \A k \in 1..(at - 1) : new[k] = old[k]
    BY <1>1, <2>5, <2>6
  <2>8. \A k \in 1..at : new[k][2] = Cases[k] /\ new[k][3] = exit'[Cases[k]]
    <3> TAKE k \in 1..at
    <3>1. CASE k = at
      BY <2>7, <3>1
    <3>2. CASE k \in 1..(at - 1)
      <4>1. k \in 1..Len(Cases) /\ k # at
        BY <1>1, <3>2
      <4> QED
        BY <2>6, <2>7, <3>2, <4>1
    <3> QED
      BY <1>1, <3>1, <3>2
  <2>9. Statuses(u)' = new
    BY <2>4 DEF Statuses, ElementsAt
  <2> QED
    BY <2>1, <2>7, <2>8, <2>9 DEF StatusesInOrder
<1>11. (u \in Seq(Line))'
  BY <1>1, Grows DEF Line, Names
<1> QED
  BY <1>2, <1>3, <1>6, <1>7, <1>8, <1>9, <1>10, <1>11 DEF TextOK

\* A line that is no status, one that is, and one that hides it.
LEMMA HiddenText ==
    ASSUME ScriptOK, NEW t, HiddenOK(t), NEW l \in Line, NEW u, u = Append(t, l),
           \/ l[1] # "status" /\ unended' = unended /\ Ended' = Ended
           \/ /\ stage = "run" /\ l[2] = Cases[at] /\ Ended' = at
              /\ \/ l[1] = "status" /\ unended' = unended
                 \/ l[1] = "glued" /\ unended' = unended \cup {Cases[at]}
    PROVE  HiddenOK(u)'
<1>1. PICK s : s = Statuses(t)
  OBVIOUS
<1>2. PICK r : r = Statuses(u)
  OBVIOUS
<1>3. t \in Seq(Line) /\ u \in Seq(Line)
  BY DEF HiddenOK
<1>4. s \in Seq(Line) /\ r = IF l[1] = "status" THEN Append(s, l) ELSE s
  BY <1>1, <1>2, <1>3, StatusesAppend
<1>5. /\ \A c \in unended : \E i \in 1..Ended : c = Cases[i]
      /\ \A k \in 1..Len(s) : s[k][2] \notin unended /\ \E i \in 1..Ended : s[k][2] = Cases[i]
  BY <1>1 DEF HiddenOK
<1>6. /\ \A c \in unended' : \E i \in 1..Ended' : c = Cases[i]
      /\ \A k \in 1..Len(r) : r[k][2] \notin unended' /\ \E i \in 1..Ended' : r[k][2] = Cases[i]
  <2>1. CASE l[1] # "status" /\ unended' = unended /\ Ended' = Ended
    BY <1>4, <1>5, <2>1
  <2>2. CASE stage = "run" /\ l[2] = Cases[at] /\ Ended' = at
    <3>1. /\ at \in 1..Len(Cases) /\ Len(Cases) \in Nat /\ Ended = at - 1
          /\ \A i \in 1..Ended : i \in 1..at /\ Cases[i] # Cases[at]
      BY <2>2, SuiteFacts DEF ScriptOK, Ended
    <3>2. /\ \A c \in unended : c # Cases[at] /\ \E i \in 1..at : c = Cases[i]
          /\ \A k \in 1..Len(s) : s[k][2] # Cases[at] /\ \E i \in 1..at : s[k][2] = Cases[i]
      BY <1>5, <3>1
    <3>3. CASE l[1] = "status" /\ unended' = unended
      <4>1. \A k \in 1..Len(r) : (k \in 1..Len(s) /\ r[k] = s[k]) \/ r[k] = l
        BY <1>4, <3>3
      <4>2. l[2] \notin unended /\ \E i \in 1..at : l[2] = Cases[i]
        BY <2>2, <3>1, <3>2
      <4>3. \A k \in 1..Len(r) : r[k][2] \notin unended
        BY <1>5, <4>1, <4>2
      <4>4. \A k \in 1..Len(r) : \E i \in 1..at : r[k][2] = Cases[i]
        BY <3>2, <4>1, <4>2
      <4> QED
        BY <2>2, <3>2, <3>3, <4>3, <4>4
    <3>4. CASE l[1] = "glued" /\ unended' = unended \cup {Cases[at]}
      <4>1. r = s
        BY <1>4, <3>4
      <4>2. \A k \in 1..Len(r) : r[k][2] \notin unended'
        BY <1>5, <3>2, <3>4, <4>1
      <4>3. \A c \in unended' : \E i \in 1..at : c = Cases[i]
        BY <3>1, <3>2, <3>4
      <4> QED
        BY <2>2, <3>2, <4>1, <4>2, <4>3
    <3> QED
      BY <2>1, <2>2, <3>3, <3>4
  <2> QED
    BY <2>1, <2>2
<1>7. Statuses(u)' = r
  BY <1>2 DEF Statuses, ElementsAt
<1>8. (u \in Seq(Line))'
  BY <1>3 DEF Line, Names
<1> QED
  BY <1>6, <1>7, <1>8 DEF HiddenOK

-----------------------------------------------------------------------------
(* What happens to the log.                                                *)

LEMMA PiecesAreMade ==
    /\ \A l \in Line, part \in {"whole", "first", "rest"} :
          /\ Piece(part, l) \in Pieces
          /\ Piece(part, l).part = part /\ Piece(part, l).line = l
    /\ \A p \in {Log, Fatal} : p \in Pieces /\ p.part \notin Joined
BY DEF Pieces, Piece, Log, Fatal, Joined

LEMMA Completes ==
    ASSUME NEW s \in Seq(Pieces), NEW l \in Line, NEW part \in Joined
    PROVE  SerialLines(Append(s, Piece(part, l))) = Append(SerialLines(s), l)
<1>1. PICK p : p = Piece(part, l)
  OBVIOUS
<1>2. p \in Pieces /\ p.part \in Joined /\ p.line = l
  BY <1>1, PiecesAreMade DEF Joined
<1>3. SerialLines(s) \in Seq(Line)
  BY SerialLinesType
<1>4. SerialLines(Append(s, p)) = Append(SerialLines(s), l)
  BY <1>2, <1>3, SerialLinesAppend
<1> QED
  BY <1>1, <1>4

\* The script adds a line to the text, whether it is whole or in parts.
LEMMA EmitAppends ==
    ASSUME LogOK, half = None, NEW l \in Line, Emit(l)
    PROVE  LogOK' /\ Text' = Append(Text, l)
<1>1. serial \in Seq(Pieces) /\ SerialLines(serial) \in Seq(Line) /\ l # None
  BY SerialLinesType, SuiteFacts DEF LogOK
<1>2. CASE serial' = Append(serial, Piece("whole", l)) /\ half' = None
  <2>1. SerialLines(serial') = Append(SerialLines(serial), l)
    BY <1>1, <1>2, Completes DEF Joined
  <2>2. serial' \in Seq(Pieces)
    BY <1>1, <1>2, PiecesAreMade
  <2>3. LogOK'
    BY <1>2, <2>2 DEF LogOK
  <2>4. Text' = SerialLines(serial') /\ Text = SerialLines(serial)
    BY <1>2 DEF Text
  <2> QED
    BY <2>1, <2>3, <2>4
<1>3. CASE serial' = Append(serial, Piece("first", l)) /\ half' = l
  <2>0. PICK p : p = Piece("first", l)
    OBVIOUS
  <2>5. p \in Pieces /\ p.part \notin Joined
    BY <2>0, PiecesAreMade DEF Joined
  <2>6. SerialLines(Append(serial, p)) = SerialLines(serial)
    BY <1>1, <2>5, SerialLinesAppend
  <2>1. SerialLines(serial') = SerialLines(serial)
    BY <1>3, <2>0, <2>6
  <2>2. serial' \in Seq(Pieces) /\ serial' # <<>>
    BY <1>1, <1>3, PiecesAreMade
  <2>3. LogOK'
    BY <1>3, <2>2 DEF LogOK, Line, Names
  <2>4. Text' = Append(SerialLines(serial'), l) /\ Text = SerialLines(serial)
    BY <1>1, <1>3 DEF Text
  <2> QED
    BY <2>1, <2>3, <2>4
<1> QED
  BY <1>2, <1>3 DEF Emit

\* The rest of a line changes what is complete, and not what was written.
LEMMA RestKeepsText ==
    ASSUME LogOK, WriteRest
    PROVE  /\ LogOK' /\ Text' = Text
           /\ \A i \in 1..Len(serial) : serial[i] = Fatal => i \in 1..Len(serial') /\ serial'[i] = Fatal
<1>1. serial \in Seq(Pieces) /\ half \in Line /\ half # None /\ serial # <<>> /\ half' = None
  BY DEF LogOK, WriteRest
<1>2. CASE Last(serial).part = "first"
  <2>1. PICK r \in Seq(Pieces), p \in Pieces : serial = Append(r, p)
    BY <1>1, SequenceEmptyOrAppend
  <2>2. Front(serial) = r /\ Last(serial) = p
    BY <2>1 DEF Front, Last
  <2>3. serial' = Append(r, Piece("whole", half))
    BY <1>2, <2>2 DEF WriteRest
  <2>4. SerialLines(serial) = SerialLines(r)
    BY <1>2, <2>1, <2>2, SerialLinesType, SerialLinesAppend DEF Joined
  <2>5. SerialLines(serial') = Append(SerialLines(r), half)
    BY <1>1, <2>3, Completes DEF Joined
  <2>6. serial' \in Seq(Pieces)
    BY <1>1, <2>3, PiecesAreMade
  <2>7. p # Fatal
    BY <1>2, <2>2 DEF Fatal, Piece
  <2>8. \A i \in 1..Len(serial) : serial[i] = Fatal => i \in 1..Len(serial') /\ serial'[i] = Fatal
    BY <2>1, <2>3, <2>7
  <2>9. Text = Append(SerialLines(serial), half) /\ Text' = SerialLines(serial')
    BY <1>1 DEF Text
  <2> QED
    BY <1>1, <2>4, <2>5, <2>6, <2>8, <2>9 DEF LogOK
<1>3. CASE Last(serial).part # "first"
  <2>1. serial' = Append(serial, Piece("rest", half))
    BY <1>3 DEF WriteRest
  <2>2. SerialLines(serial') = Append(SerialLines(serial), half)
    BY <1>1, <2>1, Completes DEF Joined
  <2>3. serial' \in Seq(Pieces)
    BY <1>1, <2>1, PiecesAreMade
  <2>4. \A i \in 1..Len(serial) : serial[i] = Fatal => i \in 1..Len(serial') /\ serial'[i] = Fatal
    BY <1>1, <2>1
  <2>5. Text = Append(SerialLines(serial), half) /\ Text' = SerialLines(serial')
    BY <1>1 DEF Text
  <2> QED
    BY <1>1, <2>2, <2>3, <2>4, <2>5 DEF LogOK
<1> QED
  BY <1>2, <1>3

\* Messages of the kernel are cut out of the text.
LEMMA KernelKeepsText ==
    ASSUME LogOK, Kernel
    PROVE  /\ LogOK' /\ Text' = Text
           /\ \A i \in 1..Len(serial) : serial[i] = Fatal => i \in 1..Len(serial') /\ serial'[i] = Fatal
<1>1. serial \in Seq(Pieces) /\ half' = half
  BY DEF LogOK, Kernel
<1>2. PICK p \in {Log, Fatal} : serial' = Append(serial, p)
  BY DEF Kernel
<1>3. SerialLines(serial') = SerialLines(serial)
  BY <1>1, <1>2, PiecesAreMade, SerialLinesType, SerialLinesAppend
<1>4. serial' \in Seq(Pieces) /\ serial' # <<>>
  BY <1>1, <1>2, PiecesAreMade
<1>5. \A i \in 1..Len(serial) : serial[i] = Fatal => i \in 1..Len(serial') /\ serial'[i] = Fatal
  BY <1>1, <1>2, PiecesAreMade
<1>6. Text' = Text
  BY <1>1, <1>3 DEF Text
<1>7. LogOK'
  BY <1>1, <1>4 DEF LogOK, Line, Names
<1> QED
  BY <1>5, <1>6, <1>7

-----------------------------------------------------------------------------
(* What evaluate_output says of such a text.                               *)

\* Step by step, the search passes a case only if it printed its markers.
LEMMA CursorPassed ==
    ASSUME ScriptOK, NEW t, TextOK(t), Cursor(t) # 0,
           NEW i \in 1..Len(Cases)
    PROVE  Markers[Cases[i]] \subseteq printed[Cases[i]]
<1> DEFINE N == Len(Cases)
<1>1. t \in Seq(Line) /\ N \in Nat /\ Len(t) \in Nat
  BY SuiteFacts DEF TextOK
<1>2. PICK after \in [0..N -> Nat] : Follows(after, t) /\ Cursor(t) = after[N]
  BY <1>1, CursorRecursion
<1>3. ASSUME NEW d \in Nat
      PROVE  d <= N => after[N - d] # 0
  <2> DEFINE S == {x \in Nat : x <= N => after[N - x] # 0}
  <2>1. 0 \in S
    BY <1>1, <1>2
  <2>2. ASSUME NEW x \in Nat, x \in S
        PROVE  x + 1 \in S
    <3>1. SUFFICES ASSUME x + 1 <= N PROVE after[N - (x + 1)] # 0
      OBVIOUS
    <3>2. after[N - x] # 0 /\ N - x \in 1..N /\ (N - x) - 1 = N - (x + 1)
      BY <1>1, <2>2, <3>1
    <3>3. after[(N - x) - 1] = 0 => after[N - x] = 0
      BY <1>2, <3>2 DEF Follows
    <3> QED
      BY <3>2, <3>3
  <2>3. Nat \subseteq S
    <3> HIDE DEF S
    <3> QED
      BY <2>1, <2>2, NatInduct
  <2> QED
    BY <2>3
<1>4. after[i - 1] \in Nat \ {0} /\ after[i] # 0
  <2>1. N - (N - i) = i /\ N - ((N - i) + 1) = i - 1 /\ N - i \in Nat /\ (N - i) + 1 \in Nat
        /\ N - i <= N /\ (N - i) + 1 <= N /\ i - 1 \in 0..N
    BY <1>1
  <2>2. after[N - (N - i)] # 0 /\ after[N - ((N - i) + 1)] # 0
    BY <1>3, <2>1
  <2> QED
    BY <1>2, <2>1, <2>2
<1>5. Section(t, Cases[i], after[i - 1]) # 0
  BY <1>2, <1>4 DEF Follows
<1>0. PICK start \in after[i - 1]..Len(t) :
         \E end \in (start + 1)..Len(t) : IsSection(t, Cases[i], start, end)
  <2>1. PICK cursor \in Nat \ {0} : cursor = after[i - 1]
    BY <1>4
  <2>2. PICK c : c = Cases[i]
    OBVIOUS
  <2>3. Section(t, c, cursor) # 0
    BY <1>5, <2>1, <2>2
  <2>4. \E start \in cursor..Len(t) : \E end \in (start + 1)..Len(t) : IsSection(t, c, start, end)
    BY <1>1, <2>3, SectionFinds
  <2> QED
    BY <2>1, <2>2, <2>4
<1>6. PICK end \in (start + 1)..Len(t) :
         /\ t[start] = <<"begin", Cases[i]>> /\ t[end] = <<"status", Cases[i], "0">>
         /\ \A m \in Markers[Cases[i]] : \E k \in (start + 1)..(end - 1) : t[k] = <<"out", m>>
  BY <1>0 DEF IsSection
<1>7. /\ start \in 1..Len(t) /\ end \in 1..Len(t) /\ start \in Nat /\ end \in Nat
      /\ IsBegin(t, start, i) /\ IsStatus(t, end, i)
  BY <1>1, <1>4, <1>6 DEF IsBegin, IsStatus
<1>8. OutsBetween(t, start, end)
  <2>1. PICK b \in 1..(end - 1) : IsBegin(t, b, i) /\ OutsBetween(t, b, end)
    BY <1>7 DEF TextOK, StatusOfACase
  <2>2. b \in 1..Len(t)
    BY <1>1, <1>7
  <2>3. b = start
    BY <1>7, <2>1, <2>2 DEF TextOK, BegunOnce
  <2> QED
    BY <2>1, <2>3
<1>9. ASSUME NEW m \in Markers[Cases[i]]
      PROVE  m \in printed[Cases[i]]
  <2>1. PICK k \in (start + 1)..(end - 1) : t[k] = <<"out", m>>
    BY <1>6
  <2>2. k \in 1..Len(t) /\ IsOut(t, k) /\ t[k][2] = m
    BY <1>1, <1>7, <2>1 DEF IsOut
  <2>3. PICK j \in 1..N, a \in 1..(k - 1) :
           IsBegin(t, a, j) /\ t[k][2] \in printed[Cases[j]] /\ OutsBetween(t, a, k)
    BY <2>2 DEF TextOK, OutputOfACase
  <2>4. ~(a < start)
    <3>1. a < start => start \in (a + 1)..(k - 1)
      BY <1>7, <2>1
    <3> QED
      BY <1>7, <2>3, <3>1 DEF OutsBetween, IsOut, IsBegin
  <2>5. ~(a > start)
    <3>1. a > start => a \in (start + 1)..(end - 1)
      BY <1>7, <2>1
    <3> QED
      BY <1>8, <2>3, <3>1 DEF OutsBetween, IsOut, IsBegin
  <2>6. a = start
    BY <1>7, <2>4, <2>5
  <2>7. Cases[j] = Cases[i]
    BY <1>7, <2>3, <2>6 DEF IsBegin
  <2> QED
    BY <2>2, <2>3, <2>7
<1> QED
  BY <1>9

\* And it passes all of them if they did.
LEMMA CursorPasses ==
    ASSUME ScriptOK, NEW t, TextOK(t), stage = "over", at = Len(Cases) + 1,
           Len(t) # 0, t[Len(t)][1] = "END",
           \A c \in Names : Markers[c] \subseteq printed[c]
    PROVE  Cursor(t) # 0 /\ Cursor(t) <= Len(t)
<1> DEFINE N == Len(Cases)
<1>1. t \in Seq(Line) /\ N \in Nat \ {0} /\ Len(t) \in Nat \ {0}
  BY SuiteFacts DEF TextOK
<1>2. PICK after \in [0..N -> Nat] : Follows(after, t) /\ Cursor(t) = after[N]
  BY <1>1, CursorRecursion
<1>3. after[0] = 2 /\ 2 <= Len(t)
  <2>1. t[1][1] = "BEGIN"
    BY <1>1 DEF TextOK, Framed
  <2>2. t[1] = <<"BEGIN">>
    BY <1>1, <2>1, LineKinds
  <2>3. PICK f : f = IndexFrom(t, <<"BEGIN">>, 1)
    OBVIOUS
  <2>4. PICK l : l = <<"BEGIN">>
    OBVIOUS
  <2>5. /\ f = 0 => \A k \in 1..Len(t) : t[k] # l
        /\ f # 0 => f \in 1..Len(t) /\ t[f] = l
    <3>1. t \in Seq(Line) /\ f = IndexFrom(t, l, 1) /\ 1 \in Nat \ {0}
      BY <1>1, <2>3, <2>4
    <3> QED
      BY <3>1, IndexFromFinds
  <2>6. f = 1
    <3>1. f # 0
      BY <1>1, <2>2, <2>4, <2>5
    <3>2. f \in 1..Len(t) /\ t[f][1] = "BEGIN"
      BY <2>4, <2>5, <3>1
    <3> QED
      BY <3>2 DEF TextOK, Framed
  <2>7. Len(t) # 1
    BY <2>1
  <2> QED
    BY <1>1, <1>2, <2>3, <2>6, <2>7 DEF Follows
<1> DEFINE P(i) == /\ after[i] \in 2..Len(t)
                   /\ i # 0 => IsStatus(t, after[i] - 1, i)
<1>4. P(0)
  BY <1>1, <1>3
<1>5. ASSUME NEW i \in Nat, i < N, P(i)
      PROVE  P(i + 1)
  <2>1. i + 1 \in 1..N /\ (i + 1) - 1 = i
    BY <1>1, <1>5
  <2>2. HasSection(t, i + 1, "0", printed[Cases[i + 1]])
    <3>1. exit[Cases[i + 1]] = "0"
      BY <1>1, <2>1 DEF ScriptOK
    <3> QED
      BY <2>1, <3>1 DEF TextOK, EndedCases
  <2>3. PICK b \in 1..Len(t), e \in 1..Len(t) :
           /\ b < e /\ IsBegin(t, b, i + 1)
           /\ IsStatus(t, e, i + 1) /\ t[e][3] = "0"
           /\ PrintedBetween(t, printed[Cases[i + 1]], b, e)
    BY <2>2 DEF HasSection
  <2>4. b \in after[i]..Len(t)
    <3>1. CASE i = 0
      <4>1. b # 1
        BY <1>1, <2>3 DEF TextOK, Framed, IsBegin
      <4> QED
        BY <1>3, <2>3, <3>1, <4>1
    <3>2. CASE i # 0
      <4>1. i \in 1..N /\ after[i] - 1 \in 1..Len(t) /\ i < i + 1
        BY <1>1, <1>5, <3>2
      <4>2. after[i] - 1 < b
        BY <1>5, <2>1, <2>3, <3>2, <4>1 DEF TextOK, StatusOfACase
      <4> QED
        BY <1>1, <1>5, <4>2
    <3> QED
      BY <3>1, <3>2
  <2>5. e \in (b + 1)..Len(t) /\ after[i] \in Nat \ {0}
    BY <1>1, <1>5, <2>3
  <2>6. t[b] = <<"begin", Cases[i + 1]>> /\ t[e] = <<"status", Cases[i + 1], "0">>
    <3>1. t[b] \in Line /\ t[e] \in Line
      BY <1>1
    <3>2. t[b] = <<"begin", t[b][2]>> /\ t[e] = <<"status", t[e][2], t[e][3]>>
      BY <2>3, <3>1, LineSpelled DEF IsBegin, IsStatus
    <3> QED
      BY <2>3, <3>2 DEF IsBegin, IsStatus
  <2>7. \A k \in 1..Len(t) : t[k] = <<"begin", Cases[i + 1]>> => k = b
    <3>1. \A k \in 1..Len(t) : t[k] = <<"begin", Cases[i + 1]>> => IsBegin(t, k, i + 1)
      BY DEF IsBegin
    <3> QED
      BY <2>1, <2>3, <3>1 DEF TextOK, BegunOnce
  <2>8. \A k \in (b + 1)..(e - 1) : t[k] # <<"status", Cases[i + 1], "0">>
    BY <2>3 DEF PrintedBetween, OutsBetween, IsOut
  <2>9. \A m \in Markers[Cases[i + 1]] : \E k \in (b + 1)..(e - 1) : t[k] = <<"out", m>>
    <3> TAKE m \in Markers[Cases[i + 1]]
    <3>1. m \in printed[Cases[i + 1]]
      BY <2>1, SuiteFacts
    <3>2. PICK k \in (b + 1)..(e - 1) : IsOut(t, k) /\ t[k][2] = m
      BY <2>3, <3>1 DEF PrintedBetween
    <3>3. t[k] \in Line
      BY <1>1, <2>3
    <3>4. t[k] = <<"out", t[k][2]>>
      BY <3>2, <3>3, LineSpelled DEF IsOut
    <3> QED
      BY <3>2, <3>4
  <2>10. Section(t, Cases[i + 1], after[i]) = e + 1
    <3>1. PICK c : c = Cases[i + 1]
      OBVIOUS
    <3>2. PICK cursor : cursor = after[i]
      OBVIOUS
    <3>3. OnlySection(t, c, cursor, b, e)
      BY <1>1, <2>4, <2>5, <2>6, <2>7, <2>8, <2>9, <3>1, <3>2 DEF OnlySection
    <3>4. Section(t, c, cursor) = e + 1
      BY <3>3, SectionIsFound
    <3> QED
      BY <3>1, <3>2, <3>4
  <2>11. after[i + 1] = e + 1
    BY <1>2, <2>1, <2>5, <2>10 DEF Follows
  <2>12. e # Len(t)
    BY <2>3 DEF IsStatus
  <2> QED
    BY <1>1, <2>3, <2>11, <2>12
<1>6. P(N)
  <2> DEFINE S == {i \in Nat : i <= N => P(i)}
  <2> HIDE DEF P
  <2>1. 0 \in S
    BY <1>4
  <2>2. \A i \in Nat : i \in S => i + 1 \in S
    BY <1>1, <1>5
  <2>3. Nat \subseteq S
    <3> HIDE DEF S
    <3> QED
      BY <2>1, <2>2, NatInduct
  <2> QED
    BY <1>1, <2>3
<1> QED
  BY <1>1, <1>2, <1>6

\* The complete lines are the text, or all of it but the last line.
LEMMA CompleteLines ==
    ASSUME LogOK, NEW lines, lines = SerialLines(serial)
    PROVE  /\ lines \in Seq(Line)
           /\ Text # lines => half \in Line /\ Text = Append(lines, half)
<1>1. lines \in Seq(Line)
  BY SerialLinesType DEF LogOK
<1> QED
  BY <1>1 DEF LogOK, Text

\* Once END can be read, everything can.
LEMMA EndIsRead ==
    ASSUME LogOK, TextOK(Text), NEW lines, lines = SerialLines(serial),
           Count(lines, <<"END">>) # 0
    PROVE  /\ lines = Text /\ stage = "over" /\ at = Len(Cases) + 1
           /\ Len(lines) # 0 /\ lines[Len(lines)][1] = "END"
<1>1. PICK t : t = Text
  OBVIOUS
<1>2. lines \in Seq(Line) /\ t \in Seq(Line) /\ Framed(t)
  BY <1>1, CompleteLines DEF TextOK
<1>3. PICK k \in 1..Len(lines) : lines[k] = <<"END">>
  BY <1>2, CountsOnce
<1>4. k \in 1..Len(t) /\ t[k] = lines[k]
  BY <1>1, <1>2, <1>3, CompleteLines, Grows
<1>5. k = Len(t) /\ stage = "over" /\ at = Len(Cases) + 1
  BY <1>2, <1>3, <1>4 DEF Framed
<1>6. lines = t
  <2>1. CASE lines # t
    <3>1. half \in Line /\ t = Append(lines, half)
      BY <1>1, <2>1, CompleteLines
    <3>2. Len(t) = Len(lines) + 1
      BY <1>2, <3>1
    <3> QED
      BY <1>2, <1>3, <1>5, <3>2
  <2> QED
    BY <2>1
<1> QED
  BY <1>1, <1>3, <1>5, <1>6

\* The statuses that can be read are those of the first cases.
LEMMA StatusesRead ==
    ASSUME LogOK, ScriptOK, TextOK(Text), NEW lines, lines = SerialLines(serial),
           NEW s, s = Statuses(lines)
    PROVE  /\ s \in Seq(Line) /\ Len(s) \in 0..Len(Cases)
           /\ lines = Text => Len(s) = Ended
           /\ \A k \in 1..Len(s) : s[k][2] = Cases[k] /\ s[k][3] = exit[Cases[k]] /\ s[k][3] # "none"
<1>1. PICK t : t = Text
  OBVIOUS
<1>2. lines \in Seq(Line) /\ t \in Seq(Line) /\ StatusesInOrder(t)
  BY <1>1, CompleteLines DEF TextOK
<1>3. PICK r : r = Statuses(t)
  OBVIOUS
<1>4. /\ Ended \in 0..Len(Cases)
      /\ \A k \in 1..Ended : exit[Cases[k]] # "none"
  BY SuiteFacts DEF Ended, ScriptOK
<1>5. Len(r) = Ended /\ \A k \in 1..Ended : r[k][2] = Cases[k] /\ r[k][3] = exit[Cases[k]]
  BY <1>2, <1>3 DEF StatusesInOrder
<1>6. CASE lines = t
  <2>1. s = r /\ s \in Seq(Line)
    BY <1>2, <1>3, <1>6, StatusesAppend, ScriptLines
  <2> QED
    BY <1>1, <1>4, <1>5, <1>6, <2>1
<1>7. CASE lines # t
  <2>1. half \in Line /\ t = Append(lines, half)
    BY <1>1, <1>7, CompleteLines
  <2>2. s \in Seq(Line) /\ r = IF half[1] = "status" THEN Append(s, half) ELSE s
    BY <1>2, <1>3, <2>1, StatusesAppend
  <2>3. Len(s) \in Nat /\ Len(s) <= Len(r) /\ \A k \in 1..Len(s) : s[k] = r[k]
    BY <2>1, <2>2
  <2> QED
    BY <1>1, <1>4, <1>5, <1>7, <2>2, <2>3
<1> QED
  BY <1>6, <1>7

\* A pass is earned.
LEMMA PassIsDue ==
    ASSUME LogOK, ScriptOK, TextOK(Text), EvaluateOutput(serial) = "pass"
    PROVE  Earned
<1>1. PICK lines : lines = SerialLines(serial)
  OBVIOUS
<1>2. Count(lines, <<"END">>) # 0 /\ Cursor(lines) # 0
  BY <1>1 DEF EvaluateOutput
<1>3. lines = Text /\ stage = "over" /\ at = Len(Cases) + 1
  BY <1>1, <1>2, EndIsRead
<1>4. PICK t : t = Text
  OBVIOUS
<1>5. ASSUME NEW c \in Names
      PROVE  exit[c] = "0" /\ Markers[c] \subseteq printed[c]
  <2>1. PICK i \in 1..Len(Cases) : c = Cases[i]
    BY SuiteFacts
  <2>2. exit[Cases[i]] = "0"
    BY <1>3, <2>1, SuiteFacts DEF ScriptOK
  <2>3. TextOK(t) /\ Cursor(t) # 0
    BY <1>2, <1>3, <1>4
  <2>4. Markers[Cases[i]] \subseteq printed[Cases[i]]
    BY <2>3, CursorPassed
  <2> QED
    BY <2>1, <2>2, <2>4
<1> QED
  BY <1>3, <1>5 DEF Earned

\* A case whose status is hidden is missed: there is no pass.
LEMMA HiddenIsMissed ==
    ASSUME LogOK, ScriptOK, HiddenOK(Text), unended # {}
    PROVE  EvaluateOutput(serial) # "pass"
<1>1. PICK lines : lines = SerialLines(serial)
  OBVIOUS
<1>2. PICK s : s = Statuses(lines)
  OBVIOUS
<1>3. PICK t : t = Text
  OBVIOUS
<1>4. PICK r : r = Statuses(t)
  OBVIOUS
<1>5. lines \in Seq(Line) /\ t \in Seq(Line)
  BY <1>1, <1>3, CompleteLines DEF HiddenOK
<1>6. s \in Seq(Line) /\ \A k \in 1..Len(s) : k \in 1..Len(r) /\ s[k] = r[k]
  <2>1. CASE lines = t
    BY <1>2, <1>4, <1>5, <2>1, StatusesAppend, ScriptLines
  <2>2. CASE lines # t
    <3>1. half \in Line /\ t = Append(lines, half)
      BY <1>1, <1>3, <2>2, CompleteLines
    <3>2. s \in Seq(Line) /\ r = IF half[1] = "status" THEN Append(s, half) ELSE s
      BY <1>2, <1>4, <1>5, <3>1, StatusesAppend
    <3> QED
      BY <3>1, <3>2
  <2> QED
    BY <2>1, <2>2
<1>7. PICK c : c \in unended
  OBVIOUS
<1>8. \A k \in 1..Len(s) : s[k][2] # c
  BY <1>3, <1>4, <1>6, <1>7 DEF HiddenOK
<1>9. PICK i \in 1..Ended : c = Cases[i]
  BY <1>7 DEF HiddenOK
<1>10. i \in 1..Len(Cases)
  BY SuiteFacts DEF Ended, ScriptOK
<1>11. PICK done : done = [k \in 1..Len(s) |-> s[k][2]]
  OBVIOUS
<1>12. done # Cases
  <2>1. Len(done) = Len(s) /\ \A k \in 1..Len(s) : done[k] = s[k][2]
    BY <1>6, <1>11
  <2> QED
    BY <1>8, <1>9, <1>10, <2>1
<1> QED
  BY <1>1, <1>2, <1>11, <1>12 DEF EvaluateOutput

\* A failure is deserved.
LEMMA FailIsDeserved ==
    ASSUME LogOK, ScriptOK, TextOK(Text), EvaluateOutput(serial) = "fail"
    PROVE  Deserved
<1>1. PICK lines : lines = SerialLines(serial)
  OBVIOUS
<1>2. PICK s : s = Statuses(lines)
  OBVIOUS
<1>3. /\ s \in Seq(Line) /\ Len(s) \in 0..Len(Cases)
      /\ lines = Text => Len(s) = Ended
      /\ \A k \in 1..Len(s) : s[k][2] = Cases[k] /\ s[k][3] = exit[Cases[k]] /\ s[k][3] # "none"
  BY <1>1, <1>2, StatusesRead
<1>4. PICK done : done = [i \in 1..Len(s) |-> s[i][2]]
  OBVIOUS
<1>5. CASE \E i \in 1..Len(serial) : serial[i].part = "fatal"
  <2>1. PICK i \in 1..Len(serial) : serial[i].part = "fatal"
    BY <1>5
  <2>2. serial[i] \in Pieces
    BY DEF LogOK
  <2>3. serial[i] = Fatal
    BY <2>1, <2>2 DEF Pieces, Log, Fatal, Piece
  <2> QED
    BY <2>3 DEF Deserved
<1>6. CASE \E i \in 1..Len(s) : s[i][3] # "0"
  <2>1. PICK i \in 1..Len(s) : s[i][3] # "0"
    BY <1>6
  <2>2. i \in 1..Len(Cases) /\ Cases[i] \in Names
    BY <1>3, SuiteFacts
  <2>3. exit[Cases[i]] = "1"
    BY <1>3, <2>1, <2>2 DEF ScriptOK
  <2> QED
    BY <2>2, <2>3 DEF Deserved
<1>7. IsPrefix(done, Cases) /\ (Len(s) = Len(Cases) => done = Cases)
  <2>1. Cases \in Seq(Names) /\ Len(Cases) \in Nat
    BY SuiteAssumption, SuiteFacts
  <2>2. done \in Seq(Names) /\ Len(done) = Len(s) /\ \A i \in 1..Len(done) : done[i] = Cases[i]
    BY <1>3, <1>4, <2>1
  <2>3. SubSeq(done, 1, Len(done)) = SubSeq(Cases, 1, Len(done))
    BY <1>3, <2>1, <2>2
  <2> QED
    BY <1>3, <2>1, <2>2, <2>3 DEF IsPrefix
<1>8. CASE Count(lines, <<"END">>) # 0
  <2>1. /\ lines = Text /\ stage = "over" /\ at = Len(Cases) + 1
        /\ Len(lines) # 0 /\ lines[Len(lines)][1] = "END"
    BY <1>1, <1>8, EndIsRead
  <2>2. TextOK(lines) /\ lines \in Seq(Line) /\ Framed(lines) /\ Len(Cases) \in Nat
    BY <2>1, SuiteFacts DEF TextOK
  <2>3. done = Cases
    BY <1>3, <1>7, <2>1, <2>2 DEF Ended
  <2>4. Count(lines, <<"BEGIN">>) = 1
    <3>1. 1 \in 1..Len(lines) /\ lines[1][1] = "BEGIN" /\ lines[1] \in Line
      BY <2>1, <2>2 DEF Framed
    <3>2. lines[1] = <<"BEGIN">>
      BY <3>1, LineKinds
    <3>3. \A k \in 1..Len(lines) : lines[k] = <<"BEGIN">> => k = 1
      BY <2>2 DEF Framed
    <3> QED
      BY <2>2, <3>1, <3>2, <3>3, CountsOnce
  <2>5. Len(lines) \in 1..Len(lines) /\ lines[Len(lines)] = <<"END">>
    <3>1. Len(lines) \in 1..Len(lines) /\ lines[Len(lines)] \in Line
      BY <2>1, <2>2
    <3> QED
      BY <2>1, <3>1, LineKinds
  <2>6. \A k \in 1..Len(lines) : lines[k] = <<"END">> => k = Len(lines)
    BY <2>2 DEF Framed
  <2>7. Count(lines, <<"END">>) = 1
    BY <2>2, <2>5, <2>6, CountsOnce
  <2>8. IndexFrom(lines, <<"END">>, 1) = Len(lines)
    <3>1. PICK f : f = IndexFrom(lines, <<"END">>, 1)
      OBVIOUS
    <3>2. f = 0 => \A k \in 1..Len(lines) : lines[k] # <<"END">>
      BY <2>2, <3>1, IndexFromFinds
    <3>3. f # 0 => f \in 1..Len(lines) /\ lines[f] = <<"END">>
      BY <2>2, <3>1, IndexFromFinds
    <3> QED
      BY <2>5, <2>6, <3>1, <3>2, <3>3
  <2>9. CASE \A c \in Names : Markers[c] \subseteq printed[c]
    <3>1. Cursor(lines) # 0 /\ Cursor(lines) <= Len(lines)
      BY <2>1, <2>2, <2>9, CursorPasses
    <3>2. \/ \E i \in 1..Len(serial) : serial[i].part = "fatal"
          \/ \E i \in 1..Len(s) : s[i][3] # "0"
      BY <1>1, <1>2, <1>4, <1>7, <1>8, <2>3, <2>4, <2>7, <2>8, <3>1 DEF EvaluateOutput
    <3> QED
      BY <1>5, <1>6, <3>2
  <2>10. CASE \E c \in Names : ~(Markers[c] \subseteq printed[c])
    BY <2>1, <2>10 DEF Deserved
  <2> QED
    BY <2>9, <2>10
<1>9. CASE Count(lines, <<"END">>) = 0
  <2>1. \/ \E i \in 1..Len(serial) : serial[i].part = "fatal"
        \/ \E i \in 1..Len(s) : s[i][3] # "0"
    BY <1>1, <1>2, <1>4, <1>7, <1>9 DEF EvaluateOutput
  <2> QED
    BY <1>5, <1>6, <2>1
<1> QED
  BY <1>8, <1>9

-----------------------------------------------------------------------------
(* The steps of the guest.                                                 *)

\* The inductive invariant of the guest.
TextInv(t) == HiddenOK(t) /\ (unended = {} => TextOK(t))

GuestOK == LogOK /\ ScriptOK /\ \E t : t = Text /\ TextInv(t)

\* The inductive invariant.
IInv == GuestOK /\ RunnerOK

LEMMA BeginKeeps ==
    ASSUME GuestOK, Begin, half = None
    PROVE  GuestOK'
<1>1. PICK t : t = Text /\ HiddenOK(t) /\ (unended = {} => TextOK(t))
  BY DEF GuestOK, TextInv
<1>2. PICK l \in Line : l = <<"BEGIN">> /\ l[1] = "BEGIN"
  BY ScriptLines
<1>3. PICK u : u = Append(t, l)
  OBVIOUS
<1>4. /\ stage = "boot" /\ Emit(l)
      /\ stage' = "begin" /\ at' = at /\ exit' = exit /\ printed' = printed
      /\ unended' = unended
  BY <1>2 DEF Begin
<1>5. LogOK' /\ Text' = u
  BY <1>1, <1>3, <1>4, EmitAppends DEF GuestOK
<1>6. unended' = {} => TextOK(u)'
  BY <1>1, <1>2, <1>3, <1>4, BeginText DEF GuestOK
<1>7. ScriptOK'
  BY <1>4, SuiteFacts DEF ScriptOK, GuestOK, Names
<1>8. HiddenOK(u)'
  BY <1>1, <1>2, <1>3, <1>4, HiddenText DEF GuestOK, Ended
<1> QED
  BY <1>5, <1>6, <1>7, <1>8 DEF GuestOK, TextInv

LEMMA BeginCaseKeeps ==
    ASSUME GuestOK, BeginCase, half = None
    PROVE  GuestOK'
<1>1. PICK t : t = Text /\ HiddenOK(t) /\ (unended = {} => TextOK(t))
  BY DEF GuestOK, TextInv
<1>2. stage = "begin" /\ at \in 1..Len(Cases) /\ Cases[at] \in Names
  BY SuiteFacts DEF GuestOK, ScriptOK, BeginCase
<1>3. PICK l \in Line : l = <<"begin", Cases[at]>> /\ l[1] = "begin" /\ l[2] = Cases[at]
  BY <1>2, ScriptLines
<1>4. PICK u : u = Append(t, l)
  OBVIOUS
<1>5. /\ Emit(l)
      /\ stage' = "run" /\ at' = at /\ exit' = exit /\ printed' = printed
      /\ unended' = unended
  BY <1>3 DEF BeginCase, Case
<1>6. LogOK' /\ Text' = u
  BY <1>1, <1>4, <1>5, EmitAppends DEF GuestOK
<1>7. unended' = {} => TextOK(u)'
  BY <1>1, <1>2, <1>3, <1>4, <1>5, BeginCaseText DEF GuestOK
<1>8. ScriptOK'
  BY <1>2, <1>5, SuiteFacts DEF ScriptOK, GuestOK, Names
<1>9. HiddenOK(u)'
  BY <1>1, <1>2, <1>3, <1>4, <1>5, HiddenText DEF GuestOK, Ended
<1> QED
  BY <1>6, <1>7, <1>8, <1>9 DEF GuestOK, TextInv

LEMMA PrintLineKeeps ==
    ASSUME GuestOK, PrintLine, half = None
    PROVE  GuestOK'
<1>1. PICK t : t = Text /\ HiddenOK(t) /\ (unended = {} => TextOK(t))
  BY DEF GuestOK, TextInv
<1>2. stage = "run" /\ at \in 1..Len(Cases) /\ Cases[at] \in Names
  BY SuiteFacts DEF GuestOK, ScriptOK, PrintLine
<1>3. PICK o \in Lines :
         Emit(<<"out", o>>) /\ printed' = [printed EXCEPT ![Cases[at]] = @ \cup {o}]
  BY DEF PrintLine, Case
<1>4. PICK l \in Line : l = <<"out", o>> /\ l[1] = "out" /\ l[2] = o
  BY ScriptLines
<1>5. PICK u : u = Append(t, l)
  OBVIOUS
<1>6. Emit(l) /\ stage' = "run" /\ at' = at /\ exit' = exit /\ unended' = unended
  BY <1>2, <1>3, <1>4 DEF PrintLine
<1>7. printed \in [Names -> SUBSET Lines]
  BY DEF GuestOK, ScriptOK
<1>8. /\ printed' \in [Names -> SUBSET Lines]
      /\ printed'[Cases[at]] = printed[Cases[at]] \cup {l[2]}
      /\ \A c \in Names : c # Cases[at] => printed'[c] = printed[c]
  BY <1>2, <1>3, <1>4, <1>7
<1>9. \A i \in 1..Len(Cases) : i # at => printed'[Cases[i]] = printed[Cases[i]]
  BY <1>2, <1>8, SuiteFacts
<1>10. LogOK' /\ Text' = u
  BY <1>1, <1>5, <1>6, EmitAppends DEF GuestOK
<1>11. unended' = {} => TextOK(u)'
  BY <1>1, <1>2, <1>4, <1>5, <1>6, <1>8, <1>9, PrintLineText DEF GuestOK
<1>12. ScriptOK'
  BY <1>2, <1>6, <1>8, <1>9, SuiteFacts DEF ScriptOK, GuestOK, Names
<1>13. HiddenOK(u)'
  BY <1>1, <1>2, <1>4, <1>5, <1>6, HiddenText DEF GuestOK, Ended
<1> QED
  BY <1>10, <1>11, <1>12, <1>13 DEF GuestOK, TextInv

LEMMA EndCaseKeeps ==
    ASSUME GuestOK, EndCase, half = None
    PROVE  GuestOK'
<1>1. PICK t : t = Text /\ HiddenOK(t) /\ (unended = {} => TextOK(t))
  BY DEF GuestOK, TextInv
<1>2. stage = "run" /\ at \in 1..Len(Cases) /\ Cases[at] \in Names /\ Len(Cases) \in Nat
  BY SuiteFacts DEF GuestOK, ScriptOK, EndCase
<1>3. PICK kind \in {"status", "glued"}, code \in {"0", "1"} :
         /\ Emit(<<kind, Cases[at], code>>)
         /\ unended' = IF kind = "status" THEN unended ELSE unended \cup {Cases[at]}
         /\ exit' = [exit EXCEPT ![Cases[at]] = code]
         /\ IF code = "0"
            THEN at' = at + 1 /\ stage' = IF at = Len(Cases) THEN "end" ELSE "begin"
            ELSE stage' = "over" /\ at' = at
  BY DEF EndCase, Case
<1>4. PICK l \in Line :
         l = <<kind, Cases[at], code>> /\ l[1] = kind /\ l[2] = Cases[at] /\ l[3] = code
  BY <1>2, ScriptLines
<1>5. PICK u : u = Append(t, l)
  OBVIOUS
<1>6. Emit(l) /\ printed' = printed
  BY <1>3, <1>4 DEF EndCase
<1>7. exit \in [Names -> {"none", "0", "1"}]
  BY DEF GuestOK, ScriptOK
<1>8. /\ exit' \in [Names -> {"none", "0", "1"}]
      /\ exit'[Cases[at]] = code
      /\ \A c \in Names : c # Cases[at] => exit'[c] = exit[c]
  BY <1>2, <1>3, <1>7
<1>9. \A i \in 1..Len(Cases) : i # at => exit'[Cases[i]] = exit[Cases[i]]
  BY <1>2, <1>8, SuiteFacts
<1>10. \/ at' = at + 1 /\ stage' \in {"begin", "end"}
       \/ at' = at /\ stage' = "over"
  BY <1>3
<1>11. LogOK' /\ Text' = u
  BY <1>1, <1>5, <1>6, EmitAppends DEF GuestOK
<1>12. unended' = {} => TextOK(u)'
  BY <1>1, <1>2, <1>3, <1>4, <1>5, <1>6, <1>8, <1>9, <1>10, EndCaseText DEF GuestOK
<1>13. ScriptOK'
  <2>1. ScriptOK
    BY DEF GuestOK
  <2>2. \A i \in 1..Len(Cases) :
           exit'[Cases[i]] = IF i < at' THEN "0"
                             ELSE IF i = at' /\ stage' = "over" THEN "1" ELSE "none"
    <3> TAKE i \in 1..Len(Cases)
    <3>1. CASE code = "0"
      BY <1>2, <1>3, <1>8, <1>9, <2>1, <3>1 DEF ScriptOK
    <3>2. CASE code = "1"
      BY <1>2, <1>3, <1>8, <1>9, <2>1, <3>2 DEF ScriptOK
    <3> QED
      BY <3>1, <3>2
  <2>3. \A i \in at'..Len(Cases) :
           i > at' \/ stage' \in {"off", "boot", "begin"} => printed'[Cases[i]] = {}
    <3> TAKE i \in at'..Len(Cases)
    <3>1. i > at' \/ stage' \in {"off", "boot", "begin"} => i \in at..Len(Cases) /\ i > at
      BY <1>2, <1>3
    <3> QED
      BY <1>6, <2>1, <3>1 DEF ScriptOK
  <2>4. /\ at' \in 1..(Len(Cases) + 1)
        /\ stage' \in {"begin", "end", "over"}
        /\ stage' = "begin" => at' <= Len(Cases)
        /\ stage' = "end" => at' = Len(Cases) + 1
    BY <1>2, <1>3
  <2>5. printed' \in [Names -> SUBSET Lines]
    BY <1>6, <2>1 DEF ScriptOK
  <2> QED
    BY <1>8, <2>2, <2>3, <2>4, <2>5 DEF ScriptOK, Names
<1>14. HiddenOK(u)'
  <2>1. Ended' = at
    BY <1>2, <1>10 DEF Ended
  <2> QED
    BY <1>1, <1>2, <1>3, <1>4, <1>5, <2>1, HiddenText DEF GuestOK
<1> QED
  BY <1>11, <1>12, <1>13, <1>14 DEF GuestOK, TextInv

LEMMA EndScriptKeeps ==
    ASSUME GuestOK, EndScript, half = None
    PROVE  GuestOK'
<1>1. PICK t : t = Text /\ HiddenOK(t) /\ (unended = {} => TextOK(t))
  BY DEF GuestOK, TextInv
<1>2. PICK l \in Line : l = <<"END">> /\ l[1] = "END"
  BY ScriptLines
<1>3. PICK u : u = Append(t, l)
  OBVIOUS
<1>4. /\ stage = "end" /\ Emit(l)
      /\ stage' = "over" /\ at' = at /\ exit' = exit /\ printed' = printed
      /\ unended' = unended
  BY <1>2 DEF EndScript
<1>5. LogOK' /\ Text' = u
  BY <1>1, <1>3, <1>4, EmitAppends DEF GuestOK
<1>6. unended' = {} => TextOK(u)'
  BY <1>1, <1>2, <1>3, <1>4, EndScriptText DEF GuestOK
<1>7. ScriptOK'
  BY <1>4, SuiteFacts DEF ScriptOK, GuestOK, Names
<1>8. HiddenOK(u)'
  <2>1. Ended' = Ended
    BY <1>4, SuiteFacts DEF GuestOK, ScriptOK, Ended
  <2> QED
    BY <1>1, <1>2, <1>3, <1>4, <2>1, HiddenText DEF GuestOK
<1> QED
  BY <1>5, <1>6, <1>7, <1>8 DEF GuestOK, TextInv

\* The script stands still, or is started.
LEMMA TextStays ==
    ASSUME NEW t, TextOK(t), at' = at, exit' = exit, printed' = printed,
           \/ stage' = stage
           \/ stage = "off" /\ stage' = "boot"
    PROVE  TextOK(t)'
<1>1. (t \in Seq(Line))'
  BY DEF TextOK, Line, Names
<1>2. Framed(t)'
  BY DEF TextOK, Framed
<1>3. BegunOnce(t)'
  <2>1. \A i \in 1..Len(Cases) : Begun(i) => Begun(i)'
    BY DEF Begun
  <2>2. \A b \in 1..Len(t), i \in 1..Len(Cases) : IsBegin(t, b, i) => Begun(i)'
    BY <2>1 DEF TextOK, BegunOnce
  <2> QED
    BY <2>2 DEF TextOK, BegunOnce, IsBegin
<1>4. OutputOfACase(t)'
  BY DEF TextOK, OutputOfACase, IsBegin, IsOut, OutsBetween
<1>5. StatusOfACase(t)'
  BY DEF TextOK, StatusOfACase, IsStatus, IsBegin, IsOut, OutsBetween
<1>6. RunningCase(t)'
  BY DEF TextOK, RunningCase, IsBegin, IsOut, PrintedBetween, OutsBetween
<1>7. EndedCases(t)'
  <2>1. ASSUME NEW i \in 1..Len(Cases), exit'[Cases[i]] # "none"
        PROVE  HasSection(t, i, exit'[Cases[i]], printed'[Cases[i]])
    BY <2>1 DEF TextOK, EndedCases
  <2> QED
    BY <2>1 DEF EndedCases, HasSection, IsBegin, IsStatus, IsOut, PrintedBetween, OutsBetween
<1>8. StatusesInOrder(t)'
  <2>1. Ended' = Ended
    BY DEF Ended
  <2>2. PICK s : s = Statuses(t)
    OBVIOUS
  <2>3. Statuses(t)' = s
    BY <2>2 DEF Statuses, ElementsAt
  <2>4. Len(s) = Ended /\ \A k \in 1..Ended : s[k][2] = Cases[k] /\ s[k][3] = exit[Cases[k]]
    BY <2>2 DEF TextOK, StatusesInOrder
  <2> QED
    BY <2>1, <2>3, <2>4 DEF StatusesInOrder
<1> QED
  BY <1>1, <1>2, <1>3, <1>4, <1>5, <1>6, <1>7, <1>8 DEF TextOK

LEMMA GuestStays ==
    ASSUME GuestOK, LogOK', Text' = Text, at' = at, exit' = exit, printed' = printed,
           unended' = unended,
           \/ stage' = stage
           \/ stage = "off" /\ stage' = "boot"
    PROVE  GuestOK'
<1>1. PICK t : t = Text /\ HiddenOK(t) /\ (unended = {} => TextOK(t))
  BY DEF GuestOK, TextInv
<1>2. unended' = {} => TextOK(t)'
  BY <1>1, TextStays
<1>3. ScriptOK'
  BY SuiteFacts DEF GuestOK, ScriptOK, Names
<1>4. HiddenOK(t)'
  <2>1. Ended' = Ended
    BY DEF Ended
  <2>2. PICK s : s = Statuses(t)
    OBVIOUS
  <2>3. Statuses(t)' = s
    BY <2>2 DEF Statuses, ElementsAt
  <2>4. (t \in Seq(Line))'
    BY <1>1 DEF HiddenOK, Line, Names
  <2> QED
    BY <1>1, <2>1, <2>2, <2>3, <2>4 DEF HiddenOK
<1> QED
  BY <1>1, <1>2, <1>3, <1>4 DEF GuestOK, TextInv

LEMMA LogStays ==
    ASSUME LogOK, serial' = serial, half' = half
    PROVE  LogOK' /\ Text' = Text
BY DEF LogOK, Text, Line, Names

LEMMA GuestStarts ==
    ASSUME Init
    PROVE  GuestOK
<1>1. serial = <<>> /\ half = None /\ stage = "off" /\ at = 1
  BY DEF Init
<1>2. Text = <<>>
  BY <1>1, SerialLinesEmpty DEF Text
<1>3. PICK t : t = <<>>
  OBVIOUS
<1>4. t \in Seq(Line) /\ Len(t) = 0 /\ t = Text
  BY <1>2, <1>3
<1>5. LogOK
  BY <1>1 DEF LogOK
<1>6. ScriptOK
  BY SuiteFacts DEF Init, ScriptOK, Names
<1>7. \A i \in 1..Len(Cases) : exit[Cases[i]] = "none"
  BY SuiteFacts DEF Init
<1>8. StatusesInOrder(t)
  <2>1. Statuses(t) = <<>>
    BY <1>3, StatusesEmpty
  <2>2. Ended = 0
    BY <1>1 DEF Ended
  <2> QED
    BY <2>1, <2>2 DEF StatusesInOrder
<1>9. TextOK(t)
  BY <1>1, <1>4, <1>7, <1>8
     DEF TextOK, Framed, BegunOnce, OutputOfACase, StatusOfACase, RunningCase, EndedCases
<1>10. HiddenOK(t)
  BY <1>3, <1>4, StatusesEmpty DEF HiddenOK, Init
<1> QED
  BY <1>4, <1>5, <1>6, <1>9, <1>10 DEF GuestOK, TextInv

\* Whatever the guest and the kernel do, and QEMU's end.
LEMMA GuestKeeps ==
    ASSUME GuestOK, Script \/ WriteRest \/ Kernel \/ Exit
    PROVE  /\ GuestOK'
           /\ stage = "off" => stage' = "off"
           /\ UNCHANGED runnerVars
           /\ Earned => Earned'
           /\ Deserved => Deserved'
<1>1. CASE Script
  <2>1. half = None /\ UNCHANGED runnerVars /\ stage \notin {"off", "over"}
    BY <1>1 DEF Script, Begin, BeginCase, PrintLine, EndCase, EndScript
  <2>2. GuestOK'
    BY <1>1, <2>1, BeginKeeps, BeginCaseKeeps, PrintLineKeeps, EndCaseKeeps, EndScriptKeeps DEF Script
  <2>3. \A c \in Names : exit[c] # "1"
    <3> TAKE c \in Names
    <3>1. PICK i \in 1..Len(Cases) : c = Cases[i]
      BY SuiteFacts
    <3> QED
      BY <2>1, <3>1 DEF GuestOK, ScriptOK
  <2>6. unended \subseteq unended'
    BY <1>1 DEF Script, Begin, BeginCase, PrintLine, EndCase, EndScript
  <2>4. serial \in Seq(Pieces) /\ \E p : serial' = Append(serial, p)
    BY <1>1 DEF GuestOK, LogOK, Script, Begin, BeginCase, PrintLine, EndCase, EndScript, Emit
  <2>5. \A i \in 1..Len(serial) : i \in 1..Len(serial') /\ serial'[i] = serial[i]
    BY <2>4
  <2> QED
    BY <2>1, <2>2, <2>3, <2>5, <2>6 DEF Earned, Deserved
<1>2. CASE WriteRest \/ Kernel
  <2>1. UNCHANGED <<stage, at, exit, printed, unended>> /\ UNCHANGED runnerVars
    BY <1>2 DEF WriteRest, Kernel
  <2>2. /\ LogOK' /\ Text' = Text
        /\ \A i \in 1..Len(serial) : serial[i] = Fatal => i \in 1..Len(serial') /\ serial'[i] = Fatal
    BY <1>2, RestKeepsText, KernelKeepsText DEF GuestOK
  <2>3. GuestOK'
    BY <2>1, <2>2, GuestStays
  <2> QED
    BY <2>1, <2>2, <2>3 DEF Earned, Deserved, Fatal, Piece
<1>3. CASE Exit
  <2>1. UNCHANGED <<serial, half, stage, at, exit, printed, unended>> /\ UNCHANGED runnerVars
    BY <1>3 DEF Exit, guestVars
  <2>2. LogOK' /\ Text' = Text
    BY <2>1, LogStays DEF GuestOK
  <2>3. GuestOK'
    BY <2>1, <2>2, GuestStays
  <2> QED
    BY <2>1, <2>3 DEF Earned, Deserved, Fatal, Piece
<1> QED
  BY <1>1, <1>2, <1>3

-----------------------------------------------------------------------------
(* The steps of the runner.                                                *)

\* A runner that leaves the guest alone leaves its invariant alone.
LEMMA GuestAlone ==
    ASSUME GuestOK, UNCHANGED guestVars
    PROVE  GuestOK' /\ (Earned => Earned') /\ (Deserved => Deserved') /\ stage' = stage
<1>1. UNCHANGED <<serial, half, stage, at, exit, printed, unended>>
  BY DEF guestVars
<1>2. LogOK' /\ Text' = Text
  BY <1>1, LogStays DEF GuestOK
<1>3. GuestOK'
  BY <1>1, <1>2, GuestStays
<1> QED
  BY <1>1, <1>3 DEF Earned, Deserved, Fatal, Piece

\* A step of the runner that judges nothing and changes neither the guest nor
\* the disk, once the disk is verified.
LEMMA VerdictStands ==
    ASSUME IInv, UNCHANGED guestVars, disk' = disk,
           pc' \notin {"prepare", "inject", "verify", "boot"},
           pc' \in {"read", "poll", "clock"} => status' = "pending",
           status' \in {status, "error"} \/ (status' = "fail" /\ reason' # "output"),
           reason' = reason \/ status' # status,
           status = "pending" \/ status' \in {status, "error"},
           result' # "none" => pc' = "done" /\ result' = status'
    PROVE  IInv'
<1>1. GuestOK' /\ (Earned => Earned') /\ (Deserved => Deserved')
  BY GuestAlone DEF IInv
<1>2. Installed => Installed'
  BY DEF Installed
<1>3. status' \notin {"none", "error"} => Installed'
  BY <1>2 DEF IInv, RunnerOK
<1>4. status' = "pass" => Earned'
  BY <1>1 DEF IInv, RunnerOK
<1>5. status' = "fail" /\ reason' = "output" => Deserved'
  BY <1>1 DEF IInv, RunnerOK
<1> QED
  BY <1>1, <1>3, <1>4, <1>5 DEF IInv, RunnerOK

LEMMA RunnerKeeps ==
    ASSUME IInv, Runner \/ Tick
    PROVE  IInv'
<1>1. CASE Prepare
  <2>1. /\ UNCHANGED guestVars /\ UNCHANGED <<reason, result>> /\ pc = "prepare"
        /\ \/ pc' = "done" /\ status' = "error"
           \/ pc' = "inject" /\ status' = status
    BY <1>1 DEF Prepare, Goto, Raise
  <2>2. GuestOK' /\ stage' = stage
    BY <2>1, GuestAlone DEF IInv
  <2>3. stage = "off" /\ status = "none" /\ result = "none"
    BY <2>1 DEF IInv, RunnerOK
  <2> QED
    BY <2>1, <2>2, <2>3 DEF IInv, RunnerOK
<1>2. CASE Inject
  <2>1. /\ UNCHANGED guestVars /\ UNCHANGED <<reason, result>> /\ pc = "inject"
        /\ \/ pc' = "done" /\ status' = "error"
           \/ pc' = "verify" /\ status' = status
    BY <1>2 DEF Inject, Goto, Raise
  <2>2. GuestOK' /\ stage' = stage
    BY <2>1, GuestAlone DEF IInv
  <2>3. stage = "off" /\ status = "none" /\ result = "none"
    BY <2>1 DEF IInv, RunnerOK
  <2> QED
    BY <2>1, <2>2, <2>3 DEF IInv, RunnerOK
<1>3. CASE Verify
  <2>1. /\ UNCHANGED guestVars /\ UNCHANGED <<disk, reason, result>> /\ pc = "verify"
        /\ \/ pc' = "done" /\ status' = "error"
           \/ pc' = "boot" /\ status' = status /\ Installed
    BY <1>3 DEF Verify, Goto, Raise, Installed
  <2>2. GuestOK' /\ stage' = stage
    BY <2>1, GuestAlone DEF IInv
  <2>3. stage = "off" /\ status = "none" /\ result = "none"
    BY <2>1 DEF IInv, RunnerOK
  <2>4. Installed => Installed'
    BY <2>1 DEF Installed
  <2> QED
    BY <2>1, <2>2, <2>3, <2>4 DEF IInv, RunnerOK
<1>4. CASE Boot
  <2>1. /\ pc = "boot" /\ stage = "off" /\ result = "none" /\ Installed
        /\ UNCHANGED <<disk, reason, result, serial, half, at, exit, printed, unended>>
    BY <1>4 DEF IInv, RunnerOK, Boot
  <2>2. \/ stage' = stage
        \/ stage = "off" /\ stage' = "boot"
    BY <1>4, <2>1 DEF Boot
  <2>3. LogOK' /\ Text' = Text
    BY <2>1, LogStays DEF IInv, GuestOK
  <2>4. GuestOK'
    BY <2>1, <2>2, <2>3, GuestStays DEF IInv
  <2>5. \/ pc' = "write" /\ status' = "prepared"
        \/ pc' = "read" /\ status' = "pending"
        \/ pc' = "done" /\ status' = "error"
    BY <1>4 DEF Boot, Goto, Raise
  <2>6. Installed'
    BY <2>1 DEF Installed
  <2> QED
    BY <2>1, <2>4, <2>5, <2>6 DEF IInv, RunnerOK
<1>5. CASE Read
  <2>1. /\ UNCHANGED guestVars /\ UNCHANGED <<disk, result>> /\ pc = "read"
        /\ \/ status' = "error" /\ pc' = "terminate"
           \/ status' = "pending" /\ pc' = "poll"
           \/ status' = "fail" /\ pc' = "drain" /\ EvaluateOutput(serial) = "fail"
           \/ status' = "pass" /\ pc' = "terminate" /\ EvaluateOutput(serial) = "pass"
    BY <1>5 DEF Read, Goto
  <2>2. /\ EvaluateOutput(serial) = "pass" => Earned
        /\ EvaluateOutput(serial) = "fail" => Deserved
    <3>1. LogOK /\ ScriptOK /\ HiddenOK(Text) /\ (unended = {} => TextOK(Text))
      BY DEF IInv, GuestOK, TextInv
    <3>2. CASE unended = {}
      BY <3>1, <3>2, PassIsDue, FailIsDeserved
    <3>3. CASE unended # {}
      BY <3>1, <3>3, HiddenIsMissed DEF Deserved
    <3> QED
      BY <3>2, <3>3
  <2>3. /\ GuestOK'
        /\ status' = "pass" => Earned'
        /\ status' = "fail" => Deserved'
    BY <2>1, <2>2, GuestAlone DEF IInv
  <2>4. result = "none" /\ Installed
    BY <2>1 DEF IInv, RunnerOK
  <2>5. Installed'
    BY <2>1, <2>4 DEF Installed
  <2> QED
    BY <2>1, <2>3, <2>4, <2>5 DEF IInv, RunnerOK
<1>6. CASE Poll \/ Clock
  <2>1. /\ UNCHANGED guestVars /\ UNCHANGED <<disk, result>> /\ pc \in {"poll", "clock"}
        /\ \/ pc' \in {"clock", "read"} /\ status' = status /\ reason' = reason
           \/ pc' = "terminate" /\ status' = "fail" /\ reason' \in {"exited", "timeout"}
    BY <1>6 DEF Poll, Clock, Goto
  <2>2. status = "pending" /\ result = "none"
    BY <2>1 DEF IInv, RunnerOK
  <2> QED
    BY <2>1, <2>2, VerdictStands
<1>7. CASE Drain \/ Terminate \/ Kill
  <2>1. /\ UNCHANGED guestVars /\ UNCHANGED <<disk, reason, result>>
        /\ pc \in {"drain", "terminate", "kill"} /\ pc' \in {"terminate", "kill", "write", "done"}
        /\ status' \in {status, "error"}
    BY <1>7 DEF Drain, Terminate, Kill, AfterStop, Goto, Raise
  <2>2. result = "none"
    BY <2>1 DEF IInv, RunnerOK
  <2> QED
    BY <2>1, <2>2, VerdictStands
<1>8. CASE WriteResult
  <2>1. /\ UNCHANGED guestVars /\ UNCHANGED <<disk, reason>> /\ pc = "write" /\ pc' = "done"
        /\ \/ result' = status /\ status' = status
           \/ result' = result /\ status' = "error"
    BY <1>8 DEF WriteResult, Goto, Raise
  <2>2. result = "none"
    BY <2>1 DEF IInv, RunnerOK
  <2> QED
    BY <2>1, <2>2, VerdictStands
<1>9. CASE Tick
  <2>1. /\ UNCHANGED guestVars /\ UNCHANGED <<pc, disk, status, reason, result>>
        /\ pc \in {"read", "poll", "clock"}
    BY <1>9 DEF Tick
  <2>2. status = "pending" /\ result = "none"
    BY <2>1 DEF IInv, RunnerOK
  <2> QED
    BY <2>1, <2>2, VerdictStands
<1> QED
  BY <1>1, <1>2, <1>3, <1>4, <1>5, <1>6, <1>7, <1>8, <1>9 DEF Runner

LEMMA NextKeeps ==
    ASSUME IInv, [Next]_vars
    PROVE  IInv'
<1>1. CASE Script \/ WriteRest \/ Kernel \/ Exit
  <2>1. /\ GuestOK' /\ UNCHANGED runnerVars
        /\ stage = "off" => stage' = "off"
        /\ Earned => Earned'
        /\ Deserved => Deserved'
    BY <1>1, GuestKeeps DEF IInv
  <2>2. UNCHANGED <<pc, disk, status, reason, result>>
    BY <2>1 DEF runnerVars
  <2>3. Installed => Installed'
    BY <2>2 DEF Installed
  <2> QED
    BY <2>1, <2>2, <2>3 DEF IInv, RunnerOK
<1>2. CASE UNCHANGED vars
  <2>1. UNCHANGED guestVars /\ UNCHANGED <<pc, disk, status, reason, result>>
    BY <1>2 DEF vars
  <2>2. GuestOK' /\ (Earned => Earned') /\ (Deserved => Deserved') /\ stage' = stage
    BY <2>1, GuestAlone DEF IInv
  <2>3. Installed => Installed'
    BY <2>1 DEF Installed
  <2> QED
    BY <2>1, <2>2, <2>3 DEF IInv, RunnerOK
<1> QED
  BY <1>1, <1>2, RunnerKeeps DEF Next

-----------------------------------------------------------------------------

\* Whatever the guest prints, wherever the kernel and the polls cut its lines,
\* the log spells the steps of the boot script, and a verdict taken from it
\* says what happened in the guest.
THEOREM Inductive == Spec => []IInv
<1>1. Init => IInv
  <2> SUFFICES ASSUME Init PROVE IInv
    OBVIOUS
  <2>1. GuestOK
    BY GuestStarts
  <2> QED
    BY <2>1 DEF Init, IInv, RunnerOK
<1>2. IInv /\ [Next]_vars => IInv'
  BY NextKeeps
<1> QED
  BY <1>1, <1>2, PTL DEF Spec

\* A result "pass" of evaluate_output and run_guest: every case of the suite
\* ran, exited with 0 and printed its markers itself.
THEOREM PassesAreReal == Spec => []PassIsReal
<1>1. IInv => PassIsReal
  BY DEF IInv, RunnerOK, Earned, PassIsReal
<1> QED
  BY <1>1, Inductive, PTL

\* What passes, or is prepared, is the payload that inject_suite installed and
\* verify_injected read back: a write that debugfs lost never goes unnoticed.
THEOREM PassesAreOfThePayload == Spec => []PassIsOfThePayload
<1>1. IInv => PassIsOfThePayload
  BY DEF IInv, RunnerOK, Installed, PassIsOfThePayload
<1> QED
  BY <1>1, Inductive, PTL

\* A run that is failed for its output had a case that failed, a crashed
\* kernel, a finished script without its markers or a case that ended in the
\* middle of a line: no poll reads a verdict out of half a log.
THEOREM FailuresAreJustified == Spec => []FailureIsJustified
<1>1. IInv => FailureIsJustified
  BY DEF IInv, RunnerOK, Deserved, FailureIsJustified
<1> QED
  BY <1>1, Inductive, PTL

-----------------------------------------------------------------------------
(* The integration test of Codex: its threads and its verdict, for any     *)
(* number of connections and whatever Codex sends, does or leaves undone.  *)

TypeOK ==
    /\ phase \in {"start", "wait", "kill", "raised", "shutdown", "close", "verdict", "done"}
    /\ codex \in {"off", "running", "exited"} /\ returncode \in {"none", "zero", "other"}
    /\ timedOut \in BOOLEAN /\ server \in {"up", "down"} /\ final \in BOOLEAN
    /\ conn \in [Connections -> {"none", "queued", "handled", "counted", "answered",
                                 "rejected", "dropped"}]
    /\ sent \in [Connections -> Request \cup {Unsent}]
    /\ requests \in Seq(Connections) /\ errors \subseteq Connections
    /\ proof \in {"none", "right", "wrong"} /\ outcome \in {"none", "pass", "fail"}

\* The requests are those of the handlers that have counted one, each once.
CountInv ==
    /\ \A i \in 1..Len(requests) : conn[requests[i]] \in {"counted", "answered", "rejected"}
    /\ \A i, j \in 1..Len(requests) : requests[i] = requests[j] => i = j
    /\ \A c \in Connections : conn[c] = "counted" => \E i \in 1..Len(requests) : requests[i] = c

\* What has its place in the exchange.
InPlace(c) ==
    \/ Len(requests) >= 1 /\ c = requests[1] /\ sent[c].advertises
    \/ Len(requests) >= 2 /\ c = requests[2] /\ sent[c].hasResult

AnswerInv ==
    \A c \in Connections : /\ conn[c] = "answered" => InPlace(c)
                           /\ conn[c] = "rejected" => c \in errors

\* After server_close no handler is under way and none can begin.
Over == phase \in {"verdict", "done"}
OverInv ==
    /\ phase \in {"close", "verdict", "done"} => server = "down"
    /\ Over => \A c \in Connections : conn[c] \notin {"handled", "counted"}

ExchangeInv ==
    /\ TypeOK /\ CountInv /\ AnswerInv /\ OverInv
    /\ outcome = "pass" => phase = "done"
    /\ PassIsEarned

-----------------------------------------------------------------------------

LEMMA InitEstablishes == ExchangeInit => ExchangeInv
<1> SUFFICES ASSUME ExchangeInit PROVE ExchangeInv
  OBVIOUS
<1>1. TypeOK
  <2>1. requests \in Seq(Connections) /\ errors \subseteq Connections
    BY DEF ExchangeInit
  <2>2. conn \in [Connections -> {"none", "queued", "handled", "counted", "answered",
                                 "rejected", "dropped"}]
    BY DEF ExchangeInit
  <2>3. sent \in [Connections -> Request \cup {Unsent}]
    <3> DEFINE R == Request \cup {Unsent}
    <3>1. Unsent \in R
      OBVIOUS
    <3> HIDE DEF R
    <3>2. sent \in [Connections -> R]
      BY <3>1 DEF ExchangeInit
    <3> QED
      BY <3>2 DEF R
  <2> QED
    BY <2>1, <2>2, <2>3 DEF ExchangeInit, TypeOK
<1>2. requests = <<>> /\ Len(<<>>) = 0 /\ \A i \in 1..0 : FALSE
  BY DEF ExchangeInit
<1>3. CountInv
  BY <1>2 DEF ExchangeInit, CountInv
<1> QED
  BY <1>1, <1>3 DEF ExchangeInit, ExchangeInv, AnswerInv, OverInv, Over, PassIsEarned

\* A step that moves no connection and counts no request.
LEMMA NothingCounted ==
    ASSUME ExchangeInv, TypeOK', UNCHANGED <<conn, requests, errors, sent>>,
           OverInv', outcome' = "pass" => phase' = "done", PassIsEarned'
    PROVE  ExchangeInv'
BY DEF ExchangeInv, CountInv, AnswerInv, InPlace

\* Codex connects, and the server accepts: nothing is counted yet.
LEMMA Arrives ==
    ASSUME ExchangeInv, NEW c \in Connections, Connect(c) \/ Accept(c)
    PROVE  ExchangeInv'
<1>1. TypeOK'
  <2>1. \A request \in Sendable : request \in Request
    BY ConnectionsAssumption
  <2> QED
    BY <2>1 DEF ExchangeInv, TypeOK, Connect, Accept, codexVars, testVars
<1>2. /\ conn[c] \in {"none", "queued"} /\ conn'[c] \in {"queued", "handled"}
      /\ conn'[c] = "handled" => server = "up"
      /\ \A d \in Connections : d # c => conn'[d] = conn[d] /\ sent'[d] = sent[d]
      /\ UNCHANGED <<requests, errors, phase, server, outcome>>
  BY DEF ExchangeInv, TypeOK, Connect, Accept, codexVars, testVars
<1>3. \A i \in 1..Len(requests) : requests[i] \in Connections /\ requests[i] # c
  <2>1. \A i \in 1..Len(requests) : requests[i] \in Connections
    BY DEF ExchangeInv, TypeOK
  <2> QED
    BY <1>2, <2>1 DEF ExchangeInv, CountInv
<1>4. CountInv'
  BY <1>2, <1>3 DEF ExchangeInv, CountInv
<1>5. AnswerInv'
  BY <1>2 DEF ExchangeInv, AnswerInv, InPlace
<1>6. OverInv'
  BY <1>2 DEF ExchangeInv, TypeOK, OverInv, Over
<1>7. outcome = "pass" => /\ Len(requests) = 2
                         /\ \A i \in 1..2 : i \in 1..Len(requests)
  BY DEF ExchangeInv, PassIsEarned
<1>8. PassIsEarned' /\ (outcome' = "pass" => phase' = "done")
  BY <1>2, <1>3, <1>7 DEF ExchangeInv, PassIsEarned
<1> QED
  BY <1>1, <1>4, <1>5, <1>6, <1>8 DEF ExchangeInv

\* A handler is at work: there is no verdict yet.
LEMMA NotOver ==
    ASSUME ExchangeInv, NEW c \in Connections, conn[c] \in {"handled", "counted"}
    PROVE  ~Over /\ outcome # "pass"
BY DEF ExchangeInv, OverInv, Over

LEMMA ReadKeeps ==
    ASSUME ExchangeInv, NEW c \in Connections, ReadRequest(c)
    PROVE  ExchangeInv'
<1>1. ~Over /\ outcome # "pass" /\ conn[c] = "handled"
  BY NotOver DEF ReadRequest
<1>2. UNCHANGED <<codex, returncode, sent, proof, final, phase, timedOut, server, outcome>>
  BY DEF ReadRequest, codexVars, testVars
<1>3. OverInv' /\ PassIsEarned' /\ (outcome' = "pass" => phase' = "done")
  BY <1>1, <1>2 DEF ExchangeInv, OverInv, Over, PassIsEarned
<1>4. /\ requests \in Seq(Connections) /\ Len(requests) \in Nat
      /\ \A i \in 1..Len(requests) : requests[i] \in Connections /\ requests[i] # c
  <2>1. requests \in Seq(Connections)
    BY DEF ExchangeInv, TypeOK
  <2> QED
    BY <1>1, <2>1 DEF ExchangeInv, CountInv
<1>5. CASE RejectRequest(c) /\ UNCHANGED requests
  <2>1. TypeOK'
    BY <1>2, <1>5 DEF ExchangeInv, TypeOK, RejectRequest
  <2>2. /\ conn'[c] = "rejected" /\ c \in errors' /\ errors \subseteq errors'
        /\ \A d \in Connections : d # c => conn'[d] = conn[d]
    BY <1>5 DEF ExchangeInv, TypeOK, RejectRequest
  <2>3. CountInv'
    BY <1>4, <1>5, <2>2 DEF ExchangeInv, CountInv
  <2>4. AnswerInv'
    BY <1>2, <1>5, <2>2 DEF ExchangeInv, AnswerInv, InPlace
  <2> QED
    BY <1>3, <2>1, <2>3, <2>4 DEF ExchangeInv
<1>6. CASE /\ requests' = Append(requests, c)
           /\ conn' = [conn EXCEPT ![c] = "counted"] /\ UNCHANGED errors
  <2>1. /\ requests' \in Seq(Connections) /\ Len(requests') = Len(requests) + 1
        /\ requests'[Len(requests')] = c
        /\ \A i \in 1..Len(requests) : requests'[i] = requests[i]
    BY <1>4, <1>6, AppendProperties
  <2>2. TypeOK'
    BY <1>2, <1>6, <2>1 DEF ExchangeInv, TypeOK
  <2>3. /\ conn'[c] = "counted"
        /\ \A d \in Connections : d # c => conn'[d] = conn[d]
    BY <1>6 DEF ExchangeInv, TypeOK
  <2>4. \A i \in 1..Len(requests') : i \in 1..Len(requests) \/ i = Len(requests')
    BY <1>4, <2>1
  <2>5. CountInv'
    <3>1. \A i \in 1..Len(requests') : conn'[requests'[i]] \in {"counted", "answered", "rejected"}
      BY <1>4, <2>1, <2>3, <2>4 DEF ExchangeInv, CountInv
    <3>2. \A i, j \in 1..Len(requests') : requests'[i] = requests'[j] => i = j
      BY <1>4, <2>1, <2>4 DEF ExchangeInv, CountInv
    <3>3. /\ Len(requests') \in 1..Len(requests')
          /\ \A i \in 1..Len(requests) : i \in 1..Len(requests')
      BY <1>4, <2>1
    <3>4. \A d \in Connections : conn'[d] = "counted" =>
             \E i \in 1..Len(requests') : requests'[i] = d
      BY <2>1, <2>3, <3>3 DEF ExchangeInv, CountInv
    <3> QED
      BY <3>1, <3>2, <3>4 DEF CountInv
  <2>6. AnswerInv'
    <3>1. ASSUME NEW d \in Connections, InPlace(d) PROVE InPlace(d)'
      <4>1. /\ Len(requests) >= 1 => 1 \in 1..Len(requests)
            /\ Len(requests) >= 2 => 2 \in 1..Len(requests)
        BY <1>4
      <4> QED
        BY <1>2, <1>4, <2>1, <3>1, <4>1 DEF InPlace
    <3> QED
      BY <1>6, <2>3, <3>1 DEF ExchangeInv, AnswerInv
  <2> QED
    BY <1>3, <2>2, <2>5, <2>6 DEF ExchangeInv
<1>7. CASE conn' = [conn EXCEPT ![c] = "dropped"] /\ UNCHANGED <<requests, errors>>
  <2>1. TypeOK'
    BY <1>2, <1>7 DEF ExchangeInv, TypeOK
  <2>2. conn'[c] = "dropped" /\ \A d \in Connections : d # c => conn'[d] = conn[d]
    BY <1>7 DEF ExchangeInv, TypeOK
  <2>3. CountInv'
    BY <1>4, <1>7, <2>2 DEF ExchangeInv, CountInv
  <2>4. AnswerInv'
    BY <1>2, <1>7, <2>2 DEF ExchangeInv, AnswerInv, InPlace
  <2> QED
    BY <1>3, <2>1, <2>3, <2>4 DEF ExchangeInv
<1> QED
  BY <1>5, <1>6, <1>7 DEF ReadRequest

LEMMA RespondKeeps ==
    ASSUME ExchangeInv, NEW c \in Connections, Respond(c)
    PROVE  ExchangeInv'
<1>1. ~Over /\ outcome # "pass" /\ conn[c] = "counted"
  BY NotOver DEF Respond
<1>2. UNCHANGED <<codex, returncode, sent, proof, final, phase, timedOut, server, outcome, requests>>
  BY DEF Respond, codexVars, testVars
<1>3. OverInv' /\ PassIsEarned' /\ (outcome' = "pass" => phase' = "done")
  BY <1>1, <1>2 DEF ExchangeInv, OverInv, Over, PassIsEarned
<1>4. \/ IsExpected(c) /\ conn' = [conn EXCEPT ![c] = "answered"] /\ errors' = errors
      \/ conn' = [conn EXCEPT ![c] = "rejected"] /\ errors' = errors \cup {c}
  BY DEF Respond, RejectRequest
<1>5. TypeOK'
  BY <1>2, <1>4 DEF ExchangeInv, TypeOK
<1>6. /\ conn'[c] \in {"answered", "rejected"}
      /\ \A d \in Connections : d # c => conn'[d] = conn[d]
      /\ errors \subseteq errors'
      /\ conn'[c] = "answered" => IsExpected(c)
      /\ conn'[c] = "rejected" => c \in errors'
  BY <1>4 DEF ExchangeInv, TypeOK
<1>7. CountInv'
  <2>1. \A i \in 1..Len(requests) : requests[i] \in Connections
    BY DEF ExchangeInv, TypeOK
  <2> QED
    BY <1>2, <1>6, <2>1 DEF ExchangeInv, CountInv
<1>8. Len(requests) \in Nat /\ Len(requests) >= 1
  <2>1. Len(requests) \in Nat
    BY DEF ExchangeInv, TypeOK
  <2>2. \E i \in 1..Len(requests) : requests[i] = c
    BY <1>1 DEF ExchangeInv, CountInv
  <2> QED
    BY <2>1, <2>2
<1>9. IsExpected(c) => InPlace(c)
  BY <1>8 DEF IsExpected, InPlace
<1>10. AnswerInv'
  BY <1>2, <1>6, <1>9 DEF ExchangeInv, AnswerInv, InPlace
<1> QED
  BY <1>3, <1>5, <1>7, <1>10 DEF ExchangeInv

\* Codex's own doings and the runner up to its verdict.
LEMMA TestKeeps ==
    ASSUME ExchangeInv, Work \/ CodexExits \/ Start \/ Wait \/ KillCodex \/ Shutdown \/ Close
    PROVE  ExchangeInv'
<1>1. UNCHANGED <<conn, requests, errors, sent, outcome>>
  BY DEF Work, CodexExits, Start, Wait, KillCodex, Shutdown, Close, codexVars, handlerVars, testVars
<1>2. TypeOK'
  BY DEF ExchangeInv, TypeOK, Work, CodexExits, Start, Wait, KillCodex, Shutdown, Close, GoOn, codexVars,
     handlerVars, testVars
<1>3. OverInv'
  BY DEF ExchangeInv, OverInv, Over, Work, CodexExits, Start, Wait, KillCodex, Shutdown, Close, GoOn,
     codexVars, handlerVars, testVars
<1>4. outcome' = "pass" => phase' = "done"
  BY DEF ExchangeInv, Work, CodexExits, Start, Wait, KillCodex, Shutdown, Close, GoOn, codexVars,
     handlerVars, testVars
<1>5. PassIsEarned'
  BY <1>1 DEF ExchangeInv, PassIsEarned
<1> QED
  BY <1>1, <1>2, <1>3, <1>4, <1>5, NothingCounted

LEMMA VerdictKeeps == ExchangeInv /\ Verdict => ExchangeInv'
<1> SUFFICES ASSUME ExchangeInv, Verdict PROVE ExchangeInv'
  OBVIOUS
<1>1. /\ UNCHANGED <<codex, returncode, sent, proof, final, conn, requests, errors, timedOut, server>>
      /\ phase = "verdict" /\ phase' = "done"
      /\ outcome' \in {"pass", "fail"} /\ (outcome' = "pass" => Passes)
  BY DEF Verdict, GoOn, codexVars, handlerVars
<1>2. TypeOK'
  BY <1>1 DEF ExchangeInv, TypeOK
<1>3. OverInv'
  BY <1>1 DEF ExchangeInv, OverInv, Over
<1>4. ASSUME Passes
      PROVE  /\ errors = {} /\ Len(requests) = 2
             /\ \A i \in 1..2 : conn[requests[i]] = "answered"
             /\ sent[requests[1]].advertises /\ sent[requests[2]].hasResult
  <2>1. errors = {} /\ Len(requests) = 2 /\ sent[requests[2]].hasResult
    BY <1>4 DEF Passes
  <2>2. requests[1] \in Connections /\ requests[2] \in Connections
    <3>1. requests \in Seq(Connections)
      BY DEF ExchangeInv, TypeOK
    <3> QED
      BY <2>1, <3>1
  <2>3. /\ conn[requests[1]] \in {"counted", "answered", "rejected"}
        /\ conn[requests[2]] \in {"counted", "answered", "rejected"}
        /\ requests[1] # requests[2]
    BY <2>1 DEF ExchangeInv, CountInv
  <2>4. conn[requests[1]] = "answered" /\ conn[requests[2]] = "answered"
    BY <1>1, <2>1, <2>2, <2>3 DEF ExchangeInv, AnswerInv, OverInv, Over
  <2>5. sent[requests[1]].advertises
    BY <2>2, <2>3, <2>4 DEF ExchangeInv, AnswerInv, InPlace
  <2>6. \A i \in 1..2 : i = 1 \/ i = 2
    OBVIOUS
  <2> QED
    BY <2>1, <2>4, <2>5, <2>6
<1>5. PassIsEarned'
  BY <1>1, <1>4 DEF PassIsEarned
<1> QED
  BY <1>1, <1>2, <1>3, <1>5, NothingCounted

LEMMA NextPreserves == ExchangeInv /\ [ExchangeNext]_exchangeVars => ExchangeInv'
<1> SUFFICES ASSUME ExchangeInv, [ExchangeNext]_exchangeVars PROVE ExchangeInv'
  OBVIOUS
<1>1. CASE UNCHANGED exchangeVars
  BY <1>1 DEF exchangeVars, codexVars, handlerVars, testVars, ExchangeInv, TypeOK, CountInv, AnswerInv,
     InPlace, OverInv, Over, PassIsEarned
<1> QED
  BY <1>1, Arrives, ReadKeeps, RespondKeeps, TestKeeps, VerdictKeeps
     DEF ExchangeNext, TestRunner, Handler

\* The provider's counts and answers agree in every state.
THEOREM ExchangeInductive == ExchangeSpec => []ExchangeInv
BY InitEstablishes, NextPreserves, PTL DEF ExchangeSpec

\* A run passes only after two checked requests that were both answered: the
\* verdict comes after server_close has joined every handler, and the place
\* of a request among those counted decides what it must be.
THEOREM PassEarned == ExchangeSpec => []PassIsEarned
<1>1. ExchangeInv => PassIsEarned
  BY DEF ExchangeInv
<1> QED
  BY <1>1, ExchangeInductive, PTL
=============================================================================
