------------------------- MODULE ArtifactAuditProofs -------------------------
(***************************************************************************)
(* The audit, for every selection, tree and archive: what it says of a     *)
(* package is what the tools, the kernel and an installation make of it,   *)
(* and it accepts what pup create wrote.                                   *)
(***************************************************************************)
EXTENDS ArtifactAudit, NaturalRecursion, FiniteSetTheorems, SequenceTheorems

-----------------------------------------------------------------------------
(* The inductive invariant.                                                *)

PhaseNames == {"presence", "marker", "root", "fhs", "links", "archive",
               "compare", "scripts", "formats"}

IsArchive(ms) == \E S : ms \in Seq(S) /\ \A m \in S : IsMember(m)

TypeOK ==
    /\ DOMAIN archive = Selected
    /\ \A p \in Selected :
         /\ IsTree(root[p]) /\ AreTwins(root[p], twins[p])
         /\ IsArchive(archive[p])
    /\ stage \in [Selected -> {"staged", "checked", "refused", "packed"}]
    /\ DOMAIN marker = Selected
    /\ edits \in Nat
    /\ phase \in PhaseNames \cup {"idle", "done"}
    /\ at \in Nat /\ (phase \in PhaseNames => at \in 1 .. Len(Packages))
    /\ reason \in [Selected -> PhaseNames \cup {"passed", None}]

\* pup create wrote this archive, of a root that the builder had checked.
Written(p, order) == [k \in DOMAIN order |-> Member(p, order, k)]
Created(p) == \E order \in WalkOrders(root[p]) : archive[p] = Written(p, order)

BuildInv ==
    \A p \in Selected :
        /\ stage[p] \in {"checked", "packed"} => CheckPasses(p)
        /\ edits = 0 => /\ marker[p] = "exact" /\ ~ torn[p]
                        /\ stage[p] = "packed" => Created(p)

NoSpecial(tree) == \A path \in DOMAIN tree : tree[path].kind # "special"
LinksOk(tree) == \A path \in Links(tree) : LinkOk(path, tree[path].target)
FormatsOk(tree) ==
    \A path \in Files(tree) : FormatOk(path, tree[path].data, Executable(tree[path]))

\* What the audit knows of a package when it comes to a phase.
Known(p, ph) ==
    /\ ph # "presence" => stage[p] = "packed"
    /\ ph \notin {"presence", "marker", "root"} => NoSpecial(root[p])
    /\ ph \in {"archive", "compare", "scripts", "formats"} => LinksOk(root[p])
    /\ ph \in {"compare", "scripts", "formats"} => MembersOk(archive[p])
    /\ ph \in {"scripts", "formats"} => SamePayload(root[p], PayloadOf(archive[p]))
    /\ ph = "formats" => ScriptsOk(p)

Audited(p) == Known(p, "formats") /\ FormatsOk(root[p])

AuditInv ==
    /\ phase \in PhaseNames => Known(Packages[at], phase)
    /\ phase = "compare" => payload = PayloadOf(archive[Packages[at]])
    /\ phase = "idle" => \A p \in Selected : reason[p] = None
    /\ phase # "idle" => \A p \in Selected : stage[p] \in {"packed", "refused"}
    /\ \A p \in Selected : reason[p] = "passed" => Audited(p)
    /\ status = "success" =>
         phase = "done" /\ \A p \in Selected : reason[p] = "passed"

IInv == TypeOK /\ BuildInv /\ AuditInv /\ OwnArchivePasses

-----------------------------------------------------------------------------
(* The steps of the audit.                                                 *)

LEMMA NextPhases ==
    /\ NextPhase("presence") = "marker" /\ NextPhase("marker") = "root"
    /\ NextPhase("root") = "fhs" /\ NextPhase("fhs") = "links"
    /\ NextPhase("links") = "archive" /\ NextPhase("archive") = "compare"
    /\ NextPhase("compare") = "scripts" /\ NextPhase("scripts") = "formats"
    /\ Last(Phases) = "formats"
<1>1. DOMAIN Phases = 1 .. 9 /\ Last(Phases) = "formats"
  BY DEF Phases, Last
<1>2. ASSUME NEW ph, NEW i \in 1 .. 8, Phases[i] = ph,
             \A k \in 1 .. 9 : Phases[k] = ph => k = i
      PROVE  NextPhase(ph) = Phases[i + 1]
  <2>1. i \in DOMAIN Phases
    BY <1>1
  <2>2. (CHOOSE k \in DOMAIN Phases : Phases[k] = ph) = i
    BY <1>1, <1>2, <2>1
  <2> QED
    BY <2>2 DEF NextPhase
<1>3. /\ Phases[1] = "presence" /\ Phases[2] = "marker" /\ Phases[3] = "root"
      /\ Phases[4] = "fhs" /\ Phases[5] = "links" /\ Phases[6] = "archive"
      /\ Phases[7] = "compare" /\ Phases[8] = "scripts" /\ Phases[9] = "formats"
  BY DEF Phases
<1>4. \A i, k \in 1 .. 9 : Phases[k] = Phases[i] => k = i
  <2>1. \A i \in 1 .. 9 : \/ i = 1 \/ i = 2 \/ i = 3 \/ i = 4 \/ i = 5
                          \/ i = 6 \/ i = 7 \/ i = 8 \/ i = 9
    OBVIOUS
  <2> QED
    BY <1>3, <2>1
<1>5. \A i \in 1 .. 8 : NextPhase(Phases[i]) = Phases[i + 1]
  BY <1>2, <1>4
<1> QED
  BY <1>1, <1>3, <1>5

LEMMA AtIsSelected ==
    ASSUME TypeOK, phase \in PhaseNames
    PROVE  Packages[at] \in Selected /\ at \in 1 .. Len(Packages)
<1>1. at \in 1 .. Len(Packages) /\ Packages \in Seq(Range(Packages))
  BY AuditAssumption DEF TypeOK
<1> QED
  BY <1>1, ElementOfSeq DEF Selected

\* The audit changes nothing that the invariant says of the output tree.
LEMMA OutputKept ==
    ASSUME IInv, UNCHANGED <<outputVars, stage, edits>>
    PROVE  /\ BuildInv'
           /\ \A p \in Selected : Audited(p)' <=> Audited(p)
           /\ \A p \in Selected : \A ph : Known(p, ph)' <=> Known(p, ph)
           /\ \A p \in Selected : IsTree(root'[p]) /\ AreTwins(root'[p], twins'[p])
                                  /\ IsArchive(archive'[p])
<1>0. /\ root' = root /\ twins' = twins /\ archive' = archive /\ marker' = marker
      /\ torn' = torn /\ stage' = stage /\ edits' = edits
  BY DEF outputVars
<1>1. ASSUME NEW p \in Selected
      PROVE  (Created(p)' <=> Created(p)) /\ (CheckPasses(p)' <=> CheckPasses(p))
  <2>1. Created(p)' <=> Created(p)
    BY <1>0 DEF Created, Written, Member
  <2>2. ScriptsOk(p)' <=> ScriptsOk(p)
    BY <1>0 DEF ScriptsOk
  <2> QED
    BY <1>0, <2>1, <2>2 DEF CheckPasses
<1>3. BuildInv'
  BY <1>0, <1>1 DEF IInv, BuildInv, Selected
<1>2. ASSUME NEW p \in Selected, NEW ph
      PROVE  Known(p, ph)' <=> Known(p, ph)
  BY <1>0 DEF Known, ScriptsOk
<1> QED
  BY <1>0, <1>2, <1>3 DEF Audited, IInv, TypeOK

\* The end of the audit of one package.
LEMMA VerdictKeepsInv ==
    ASSUME IInv, phase \in PhaseNames, UNCHANGED <<outputVars, stage, edits>>,
           NEW verdict \in PhaseNames \cup {"passed"}, Verdict(Packages[at], verdict),
           verdict = "passed" => Audited(Packages[at]),
           verdict \in {"marker", "archive", "compare", "scripts"} => edits > 0
    PROVE  IInv'
<1> DEFINE p == Packages[at]
<1>0. /\ p \in Selected /\ at \in 1 .. Len(Packages) /\ Len(Packages) \in Nat
      /\ Packages # <<>> /\ Selected' = Selected
  BY AtIsSelected, AuditAssumption, LenProperties DEF IInv, Selected
<1>1. /\ root' = root /\ archive' = archive /\ marker' = marker /\ stage' = stage
      /\ edits' = edits
  BY DEF outputVars
<1>2. /\ reason' = [reason EXCEPT ![p] = verdict]
      /\ \/ at < Len(Packages) /\ at' = at + 1 /\ phase' = "presence" /\ status' = status
         \/ /\ at' = at /\ phase' = "done"
            /\ status' = "success" => \A q \in Selected : reason'[q] = "passed"
  BY DEF Verdict
<1>3. /\ reason' \in [Selected -> PhaseNames \cup {"passed", None}]
      /\ reason'[p] = verdict /\ \A q \in Selected \ {p} : reason'[q] = reason[q]
  BY <1>0, <1>2 DEF IInv, TypeOK
<1> HIDE DEF p
<1>4. TypeOK'
  <2>1. /\ phase' \in PhaseNames \cup {"idle", "done"}
        /\ at' \in Nat /\ (phase' \in PhaseNames => at' \in 1 .. Len(Packages))
    BY <1>0, <1>2 DEF PhaseNames
  <2> QED
    BY <1>0, <1>1, <1>3, <2>1, OutputKept DEF IInv, TypeOK, PhaseNames
<1>5. AuditInv'
  <2>1. phase' \in PhaseNames => Known(Packages[at], phase)'
    BY <1>2 DEF Known, PhaseNames
  <2>2. phase' # "compare" /\ phase' # "idle"
    BY <1>2
  <2>3. \A q \in Selected : stage[q] \in {"packed", "refused"}
    BY DEF IInv, AuditInv, PhaseNames
  <2>4. \A q \in Selected : reason'[q] = "passed" => Audited(q)'
    <3>1. \A q \in Selected : reason'[q] = "passed" => Audited(q)
      BY <1>0, <1>3 DEF IInv, AuditInv, p
    <3> QED
      BY <3>1, OutputKept
  <2>5. status' = "success" => phase' = "done" /\ \A q \in Selected : reason'[q] = "passed"
    <3>1. status # "success"
      BY DEF IInv, AuditInv, PhaseNames
    <3> QED
      BY <1>2, <3>1
  <2> QED
    BY <1>0, <1>1, <2>1, <2>2, <2>3, <2>4, <2>5 DEF AuditInv
<1>6. OwnArchivePasses'
  BY <1>0, <1>1, <1>3 DEF IInv, OwnArchivePasses, p
<1> QED
  BY <1>4, <1>5, <1>6, OutputKept DEF IInv

\* The audit goes on with the next part.
LEMMA ProgressKeepsInv ==
    ASSUME IInv, phase \in PhaseNames, phase' \in PhaseNames, phase' # "presence",
           UNCHANGED <<outputVars, stage, edits, at, reason, status>>,
           Known(Packages[at], phase'),
           phase' = "compare" => payload' = PayloadOf(archive[Packages[at]])
    PROVE  IInv'
<1> DEFINE p == Packages[at]
<1>0. /\ p \in Selected /\ at \in 1 .. Len(Packages) /\ Selected' = Selected
      /\ root' = root /\ archive' = archive /\ marker' = marker /\ stage' = stage
      /\ edits' = edits /\ at' = at /\ reason' = reason /\ status' = status
  BY AtIsSelected DEF IInv, Selected, outputVars
<1>1. TypeOK'
  BY <1>0, OutputKept DEF IInv, TypeOK
<1>2. status # "success" /\ phase # "idle" /\ phase' # "idle"
  BY DEF IInv, AuditInv, PhaseNames
<1>3. Known(Packages[at], phase)'
  BY <1>0 DEF Known, ScriptsOk
<1>4. AuditInv'
  <2>1. \A q \in Selected : reason'[q] = "passed" => Audited(q)'
    BY <1>0, OutputKept DEF IInv, AuditInv
  <2>2. \A q \in Selected : stage[q] \in {"packed", "refused"}
    BY <1>2 DEF IInv, AuditInv
  <2>3. phase' = "compare" => payload' = PayloadOf(archive'[Packages[at']])
    BY <1>0
  <2> QED
    BY <1>0, <1>2, <1>3, <2>1, <2>2, <2>3 DEF AuditInv
<1>5. OwnArchivePasses'
  BY <1>0 DEF IInv, OwnArchivePasses
<1> QED
  BY <1>1, <1>4, <1>5, OutputKept DEF IInv

\* One part of the audit whose test is ok.
LEMMA ExamineKeepsInv ==
    ASSUME IInv, NEW ph \in PhaseNames \ {"archive"}, NEW ok, Examine(ph, ok), phase = ph,
           ok /\ ph = "formats" => Audited(Packages[at]),
           ok /\ ph # "formats" => Known(Packages[at], NextPhase(ph)),
           ~ok /\ ph \in {"marker", "compare", "scripts"} => edits > 0
    PROVE  IInv'
<1>1. UNCHANGED <<outputVars, stage, edits>>
  BY DEF Examine
<1>2. CASE ~ok
  BY <1>1, <1>2, VerdictKeepsInv DEF Examine, PhaseNames
<1>3. CASE ok /\ ph = "formats"
  BY <1>1, <1>3, VerdictKeepsInv, NextPhases DEF Examine, PhaseNames
<1>4. CASE ok /\ ph # "formats"
  <2>1. phase' = NextPhase(ph) /\ UNCHANGED <<at, payload, reason, status>>
    BY <1>4, NextPhases DEF Examine
  <2>2. phase' \in PhaseNames /\ phase' \notin {"presence", "compare"}
    <3>1. \/ ph = "presence" \/ ph = "marker" \/ ph = "root" \/ ph = "fhs"
          \/ ph = "links" \/ ph = "compare" \/ ph = "scripts"
      BY <1>4 DEF PhaseNames
    <3> QED
      BY <2>1, <3>1, NextPhases DEF PhaseNames
  <2> QED
    BY <1>1, <1>4, <2>1, <2>2, ProgressKeepsInv
<1> QED
  BY <1>2, <1>3, <1>4

\* An exception ends the audit and vouches for nothing.
LEMMA EscapeKeepsInv ==
    ASSUME IInv, phase \in PhaseNames, Escape PROVE IInv'
<1>0. /\ Selected' = Selected /\ UNCHANGED <<outputVars, stage, edits>>
      /\ root' = root /\ archive' = archive /\ marker' = marker /\ stage' = stage
      /\ edits' = edits /\ at' = at /\ reason' = reason
      /\ phase' = "done" /\ status' = "traceback"
  BY DEF Escape, outputVars, Selected
<1>1. TypeOK'
  BY <1>0, OutputKept DEF IInv, TypeOK, PhaseNames
<1>2. AuditInv'
  <2>1. \A q \in Selected : reason'[q] = "passed" => Audited(q)'
    BY <1>0, OutputKept DEF IInv, AuditInv
  <2> QED
    BY <1>0, <2>1 DEF IInv, AuditInv, PhaseNames
<1>3. OwnArchivePasses'
  BY <1>0 DEF IInv, OwnArchivePasses
<1> QED
  BY <1>0, <1>1, <1>2, <1>3, OutputKept DEF IInv

-----------------------------------------------------------------------------
(* What the build leaves and what happens to it.                           *)

\* Putting a member in or taking one out leaves an archive.
LEMMA ArchiveEdits ==
    ASSUME NEW ms, IsArchive(ms)
    PROVE  /\ \A k \in 1 .. Len(ms) + 1 : \A m : IsMember(m) => IsArchive(InsertAt(ms, k, m))
           /\ \A k \in 1 .. Len(ms) : IsArchive(RemoveAt(ms, k))
<1>1. PICK S : ms \in Seq(S) /\ \A m \in S : IsMember(m)
  BY DEF IsArchive
<1>2. ASSUME NEW k \in 1 .. Len(ms) + 1, NEW m, IsMember(m)
      PROVE  IsArchive(InsertAt(ms, k, m))
  <2> DEFINE T == S \cup {m}
  <2>1. ms \in Seq(T) /\ <<m>> \in Seq(T) /\ Len(ms) \in Nat
    BY <1>1, SeqMonotonic, LenProperties
  <2>2. SubSeq(ms, 1, k - 1) \in Seq(T) /\ SubSeq(ms, k, Len(ms)) \in Seq(T)
    BY <2>1, SubSeqProperties, ElementOfSeq
  <2>3. InsertAt(ms, k, m) \in Seq(T)
    BY <2>1, <2>2, ConcatProperties DEF InsertAt
  <2> QED
    BY <1>1, <1>2, <2>3 DEF IsArchive
<1>3. ASSUME NEW k \in 1 .. Len(ms)
      PROVE  IsArchive(RemoveAt(ms, k))
  <2>1. Len(ms) \in Nat
    BY <1>1, LenProperties
  <2>2. SubSeq(ms, 1, k - 1) \in Seq(S) /\ SubSeq(ms, k + 1, Len(ms)) \in Seq(S)
    BY <1>1, <2>1, SubSeqProperties, ElementOfSeq
  <2>3. RemoveAt(ms, k) \in Seq(S)
    BY <2>1, <2>2, ConcatProperties DEF RemoveAt
  <2> QED
    BY <1>1, <2>3 DEF IsArchive
<1> QED
  BY <1>2, <1>3

\* Every order of a finite tree has every path once.
LEMMA OrderFacts ==
    ASSUME NEW tree, IsTree(tree), NEW order \in WalkOrders(tree)
    PROVE  /\ order \in Seq(DOMAIN tree) /\ DOMAIN order = 1 .. Len(order)
           /\ Len(order) \in Nat
           /\ \A i, j \in DOMAIN order : order[i] = order[j] => i = j
           /\ \A path \in DOMAIN tree : \E i \in DOMAIN order : order[i] = path
<1> DEFINE S == DOMAIN tree
           n == Cardinality(S)
<1>1. IsFiniteSet(S) /\ n \in Nat /\ Cardinality(1 .. n) = n
  <2>1. IsFiniteSet(S)
    BY DEF IsTree
  <2>2. n \in Nat
    BY <2>1, FS_CardinalityType
  <2> HIDE DEF n
  <2>3. Cardinality(1 .. n) = IF 1 > n THEN 0 ELSE n - 1 + 1
    BY <2>2, FS_Interval
  <2> QED
    BY <2>1, <2>2, <2>3 DEF n
<1>2. order \in [1 .. n -> S] /\ \A i, j \in 1 .. n : i # j => order[i] # order[j]
  BY DEF WalkOrders, SetToSeqs
<1>3. order \in Injection(1 .. n, S)
  BY <1>2 DEF Injection, IsInjective
<1>4. order \in Surjection(1 .. n, S)
  BY <1>1, <1>3, FS_Injection
<1>5. order \in Seq(S) /\ Len(order) = n /\ DOMAIN order = 1 .. n
  BY <1>1, <1>2
<1>6. \A path \in S : \E i \in 1 .. n : order[i] = path
  BY <1>4 DEF Surjection
<1> QED
  BY <1>1, <1>2, <1>5, <1>6

\* pup create writes an archive.
LEMMA CreatedIsArchive ==
    ASSUME TypeOK, NEW p \in Selected, NEW order \in WalkOrders(root[p])
    PROVE  IsArchive([k \in DOMAIN order |-> Member(p, order, k)])
<1>1. IsTree(root[p])
  BY DEF TypeOK
<1>2. /\ DOMAIN order = 1 .. Len(order) /\ Len(order) \in Nat
      /\ \A k \in DOMAIN order : order[k] \in DOMAIN root[p]
  BY <1>1, OrderFacts, ElementOfSeq
<1> DEFINE ms == [k \in DOMAIN order |-> Member(p, order, k)]
           S == {Member(p, order, k) : k \in DOMAIN order}
<1>3. ms \in Seq(S)
  BY <1>2
<1>4. ASSUME NEW k \in DOMAIN order
      PROVE  IsMember(Member(p, order, k))
  <2> DEFINE path == order[k]
             entry == root[p][path]
             earlier == {j \in 1 .. k - 1 : \E t \in twins[p] : {order[j], path} \subseteq t}
             m == Member(p, order, k)
  <2>1. IsEntry(entry)
    BY <1>1, <1>2 DEF IsTree
  <2>2. earlier # {} => entry.kind = "file"
    BY DEF TypeOK, AreTwins, Files
  <2>3. /\ m.type = IF earlier # {} THEN "link" ELSE entry.kind
        /\ m.data = IF earlier # {} THEN None ELSE entry.data
        /\ m.target = entry.target
        /\ m = [name |-> m.name, type |-> m.type, link |-> m.link, mode |-> m.mode,
                data |-> m.data, target |-> m.target, owner |-> m.owner]
    BY DEF Member
  <2> HIDE DEF m, entry, earlier
  <2>4. IsMember(m)
    BY <2>1, <2>2, <2>3 DEF IsMember, IsEntry
  <2> QED
    BY <2>4 DEF m
<1> QED
  BY <1>3, <1>4 DEF IsArchive

-----------------------------------------------------------------------------
(* The data of a member.                                                   *)

\* A nonempty set of numbers up to n has a greatest element.
LEMMA Greatest ==
    ASSUME NEW n \in Nat, NEW T, T \subseteq 1 .. n, T # {}
    PROVE  \E x \in T : \A y \in T : y <= x
<1> DEFINE U == {n - x : x \in T}
<1>1. U \in SUBSET Nat /\ U # {}
  <2>1. \A x \in T : n - x \in Nat
    OBVIOUS
  <2> QED
    BY <2>1
<1>2. PICK u \in U : \A v \in U : u <= v
  BY <1>1, LeastNat
<1>3. PICK x \in T : u = n - x
  OBVIOUS
<1>4. ASSUME NEW y \in T
      PROVE  y <= x
  <2>1. n - y \in U
    OBVIOUS
  <2>2. n - x <= n - y
    BY <1>2, <1>3, <2>1
  <2>3. x \in Int /\ y \in Int
    OBVIOUS
  <2> HIDE DEF U
  <2> QED
    BY <2>2, <2>3
<1> QED
  BY <1>4

LEMMA FollowedFacts ==
    ASSUME NEW ms, IsArchive(ms), NEW k \in DOMAIN ms
    PROVE  /\ Followed(ms, k) \in DOMAIN ms
           /\ Behind(ms, k) = {} => Followed(ms, k) = k
           /\ \A j \in DOMAIN ms : Behind(ms, k) = {j} => Followed(ms, k) = j
<1>1. Len(ms) \in Nat /\ DOMAIN ms = 1 .. Len(ms) /\ Behind(ms, k) \subseteq DOMAIN ms
  BY LenProperties DEF IsArchive, Behind
<1>2. ASSUME Behind(ms, k) # {}
      PROVE  LastOf(Behind(ms, k)) \in Behind(ms, k)
  <2>1. \E x \in Behind(ms, k) : \A y \in Behind(ms, k) : y <= x
    BY <1>1, <1>2, Greatest
  <2> QED
    BY <2>1 DEF LastOf
<1> QED
  BY <1>1, <1>2 DEF Followed

\* turn goes from member to member, as Source does.
Follows(turn, ms) == \A i \in 1 .. Len(ms) : turn[i] = Followed(ms, turn[i - 1])

\* The recursion of Source, as a function that exists.
LEMMA SourceRecursion ==
    ASSUME NEW ms, IsArchive(ms), NEW k \in DOMAIN ms
    PROVE  \E turn : turn[0] = k /\ Follows(turn, ms) /\ Source(ms, k) = turn[Len(ms)]
<1> DEFINE n == Len(ms)
           V == DOMAIN ms
           step == [q \in (1 .. n) \X V |-> Followed(ms, q[2])]
           Is(f) == f = [i \in 0 .. n |-> IF i = 0 THEN k ELSE Followed(ms, f[i - 1])]
<1>1. n \in Nat
  BY LenProperties DEF IsArchive
<1>2. step \in [(1 .. n) \X V -> V]
  BY FollowedFacts
<1>3. PICK f \in [0 .. n -> V] : Recursive(f, n, k, step)
  <2>1. k \in V
    OBVIOUS
  <2> HIDE DEF step, n, V
  <2> QED
    BY <1>1, <1>2, <2>1, Recursion
<1>4. f[0] = k /\ \A i \in 1 .. n : f[i] = Followed(ms, f[i - 1])
  <2>0. f[0] = k
    BY <1>3 DEF Recursive
  <2> SUFFICES \A i \in 1 .. n : f[i] = Followed(ms, f[i - 1])
    BY <2>0
  <2> TAKE i \in 1 .. n
  <2> HIDE DEF n, V
  <2>1. i - 1 \in 0 .. n
    BY <1>1
  <2>2. f[i - 1] \in V
    BY <1>3, <2>1
  <2> QED
    BY <1>3, <2>2 DEF Recursive
<1>5. Is(f)
  <2> HIDE DEF n, V
  <2> QED
    BY <1>1, <1>3, <1>4
<1>6. PICK turn : Is(turn) /\ turn = CHOOSE g : Is(g)
  BY <1>5
<1>7. turn[0] = k /\ \A i \in 1 .. n : turn[i] = Followed(ms, turn[i - 1])
  <2> HIDE DEF n
  <2>1. 0 \in 0 .. n /\ \A i \in 1 .. n : i \in 0 .. n /\ i # 0
    BY <1>1
  <2> QED
    BY <1>6, <2>1
<1>8. Source(ms, k) = turn[n]
  BY <1>6 DEF Source
<1> QED
  BY <1>7, <1>8 DEF Follows

\* Once links have led to a member that is none, they lead no further.
LEMMA SourceSettles ==
    ASSUME NEW ms, IsArchive(ms), NEW i \in 0 .. Len(ms), NEW j \in DOMAIN ms,
           NEW turn, Follows(turn, ms), turn[i] = j, Behind(ms, j) = {}
    PROVE  turn[Len(ms)] = j
<1> DEFINE n == Len(ms)
           P == {d \in Nat : i + d <= n => turn[i + d] = j}
<1>1. n \in Nat /\ i \in Nat /\ i <= n
  BY LenProperties DEF IsArchive
<1> HIDE DEF n
<1>2. 0 \in P
  BY <1>1
<1>3. ASSUME NEW d \in Nat, d \in P
      PROVE  d + 1 \in P
  <2>1. SUFFICES ASSUME i + (d + 1) <= n
                 PROVE  turn[i + (d + 1)] = j
    OBVIOUS
  <2>2. i + (d + 1) \in 1 .. n /\ (i + (d + 1)) - 1 = i + d /\ i + d <= n
    BY <1>1, <2>1
  <2>3. turn[i + (d + 1)] = Followed(ms, j)
    BY <1>3, <2>2 DEF Follows, n
  <2> QED
    BY <2>3, FollowedFacts
<1>4. Nat \subseteq P
  <2> HIDE DEF P
  <2> QED
    BY <1>2, <1>3, NatInduct
<1>5. n - i \in P /\ i + (n - i) = n /\ n <= n
  <2>1. n - i \in Nat /\ i + (n - i) = n
    BY <1>1
  <2> HIDE DEF P
  <2> QED
    BY <1>1, <1>4, <2>1
<1>6. turn[n] = j
  BY <1>5
<1> QED
  BY <1>6 DEF n

\* A member of a file has its data; a hard link to the only earlier file of
\* its target's name has that one's; directories have none.
LEMMA DataFacts ==
    ASSUME NEW ms, IsArchive(ms), NEW k \in DOMAIN ms
    PROVE  /\ ms[k].type = "file" => DataOf(ms, k) = ms[k].data
           /\ \A j \in 1 .. k - 1 :
                /\ ms[k].type = "link" /\ ms[j].type = "file" /\ ms[j].name = ms[k].link
                /\ \A i \in 1 .. k - 1 : ms[i].name = ms[k].link => i = j
                => DataOf(ms, k) = ms[j].data
<1>1. PICK turn : turn[0] = k /\ Follows(turn, ms) /\ Source(ms, k) = turn[Len(ms)]
  BY SourceRecursion
<1>2. Len(ms) \in Nat /\ DOMAIN ms = 1 .. Len(ms) /\ 0 \in 0 .. Len(ms)
  BY LenProperties DEF IsArchive
<1>3. ASSUME ms[k].type = "file"
      PROVE  DataOf(ms, k) = ms[k].data
  <2>1. Behind(ms, k) = {}
    BY <1>3 DEF Behind
  <2>2. turn[Len(ms)] = k
    BY <1>1, <1>2, <2>1, SourceSettles
  <2> QED
    BY <1>1, <2>2 DEF DataOf
<1>4. ASSUME NEW j \in 1 .. k - 1, ms[k].type = "link", ms[j].type = "file",
             ms[j].name = ms[k].link,
             \A i \in 1 .. k - 1 : ms[i].name = ms[k].link => i = j
      PROVE  DataOf(ms, k) = ms[j].data
  <2>1. 1 \in 1 .. Len(ms) /\ 1 \in 0 .. Len(ms) /\ 1 - 1 = 0 /\ j \in DOMAIN ms
    BY <1>2
  <2>2. Behind(ms, k) = {j} /\ Behind(ms, j) = {}
    BY <1>2, <1>4, <2>1 DEF Behind
  <2>3. turn[1] = j
    BY <1>1, <2>1, <2>2, FollowedFacts DEF Follows
  <2>4. turn[Len(ms)] = j
    BY <1>1, <2>1, <2>2, <2>3, SourceSettles
  <2> QED
    BY <1>1, <2>4 DEF DataOf
<1> QED
  BY <1>3, <1>4

\* What the audit reads of a member whose name no other has.
LEMMA PayloadFacts ==
    ASSUME NEW ms, IsArchive(ms), \A i, j \in DOMAIN ms : ms[i].name = ms[j].name => i = j
    PROVE  /\ DOMAIN PayloadOf(ms) = {ms[k].name : k \in DOMAIN ms}
           /\ \A k \in DOMAIN ms :
                PayloadOf(ms)[ms[k].name] =
                  [kind |-> IF ms[k].type = "link" THEN "file" ELSE ms[k].type,
                   mode |-> ms[k].mode,
                   data |-> IF ms[k].type \in {"file", "link"} THEN DataOf(ms, k) ELSE None,
                   target |-> IF ms[k].type = "symlink" THEN ms[k].target ELSE None]
<1>1. {m.name : m \in ToSet(ms)} = {ms[k].name : k \in DOMAIN ms}
  BY DEF ToSet
<1>2. ASSUME NEW k \in DOMAIN ms
      PROVE  (CHOOSE i \in DOMAIN ms :
                 /\ ms[i].name = ms[k].name
                 /\ \A j \in DOMAIN ms : ms[j].name = ms[k].name => j <= i) = k
  <2>1. k <= k
    BY LenProperties DEF IsArchive
  <2> QED
    BY <2>1
<1>3. DOMAIN PayloadOf(ms) = {ms[k].name : k \in DOMAIN ms}
  BY <1>1 DEF PayloadOf
<1>4. ASSUME NEW name \in {m.name : m \in ToSet(ms)}
      PROVE  PayloadOf(ms)[name] =
        LET i == CHOOSE i \in DOMAIN ms :
                   /\ ms[i].name = name
                   /\ \A j \in DOMAIN ms : ms[j].name = name => j <= i
        IN [kind |-> IF ms[i].type = "link" THEN "file" ELSE ms[i].type,
            mode |-> ms[i].mode,
            data |-> IF ms[i].type \in {"file", "link"} THEN DataOf(ms, i) ELSE None,
            target |-> IF ms[i].type = "symlink" THEN ms[i].target ELSE None]
  BY DEF PayloadOf
<1>5. \A k \in DOMAIN ms : ms[k].name \in {m.name : m \in ToSet(ms)}
  BY <1>1
<1>6. ASSUME NEW k \in DOMAIN ms
      PROVE  PayloadOf(ms)[ms[k].name] =
                  [kind |-> IF ms[k].type = "link" THEN "file" ELSE ms[k].type,
                   mode |-> ms[k].mode,
                   data |-> IF ms[k].type \in {"file", "link"} THEN DataOf(ms, k) ELSE None,
                   target |-> IF ms[k].type = "symlink" THEN ms[k].target ELSE None]
  <2> DEFINE name == ms[k].name
             i == CHOOSE i \in DOMAIN ms :
                   /\ ms[i].name = name
                   /\ \A j \in DOMAIN ms : ms[j].name = name => j <= i
  <2>1. name \in {m.name : m \in ToSet(ms)} /\ i = k
    BY <1>2, <1>5
  <2>2. PayloadOf(ms)[name] =
           [kind |-> IF ms[i].type = "link" THEN "file" ELSE ms[i].type,
            mode |-> ms[i].mode,
            data |-> IF ms[i].type \in {"file", "link"} THEN DataOf(ms, i) ELSE None,
            target |-> IF ms[i].type = "symlink" THEN ms[i].target ELSE None]
    BY <1>4, <2>1
  <2> HIDE DEF i
  <2> QED
    BY <2>1, <2>2
<1> QED
  BY <1>3, <1>6

\* The places before k of the other names of the inode that is at k.
Earlier(p, order, k) ==
    {j \in 1 .. k - 1 : \E t \in twins[p] : {order[j], order[k]} \subseteq t}

\* A name of an inode that is in the archive is a link to the first one, which
\* is there as a file.
LEMMA MemberFacts ==
    ASSUME TypeOK, NEW p \in Selected, NEW order \in WalkOrders(root[p]),
           NEW k \in DOMAIN order
    PROVE  LET tree == root[p]
               entry == tree[order[k]]
               m == Member(p, order, k)
           IN  /\ m.name = order[k] /\ m.mode = entry.mode /\ m.owner = "root"
               /\ m.target = entry.target
               /\ Earlier(p, order, k) = {} =>
                    m.type = entry.kind /\ m.data = entry.data
               /\ Earlier(p, order, k) # {} =>
                    /\ m.type = "link" /\ entry.kind = "file"
                    /\ \E j \in 1 .. k - 1 :
                         /\ m.link = order[j] /\ Earlier(p, order, j) = {}
                         /\ tree[order[j]].kind = "file"
                         /\ tree[order[j]].data = entry.data
<1> DEFINE tree == root[p]
           entry == tree[order[k]]
           m == Member(p, order, k)
           E == Earlier(p, order, k)
           first == CHOOSE j \in E : \A i \in E : j <= i
<1>1. /\ m.name = order[k] /\ m.mode = entry.mode /\ m.owner = "root"
      /\ m.target = entry.target
      /\ E = {} => m.type = entry.kind /\ m.data = entry.data
      /\ E # {} => m.type = "link" /\ m.link = order[first]
  BY DEF Member, Earlier
<1>2. AreTwins(tree, twins[p]) /\ k \in Nat
  <2>1. IsTree(tree) /\ AreTwins(tree, twins[p])
    BY DEF TypeOK
  <2>2. k \in Nat
    BY <2>1, OrderFacts
  <2> QED
    BY <2>1, <2>2
<1>3. ASSUME E # {}
      PROVE  /\ entry.kind = "file"
             /\ first \in 1 .. k - 1 /\ Earlier(p, order, first) = {}
             /\ tree[order[first]].kind = "file" /\ tree[order[first]].data = entry.data
  <2>1. E \in SUBSET Nat
    BY DEF Earlier
  <2>2. \E x \in E : \A y \in E : x <= y
    <3> HIDE DEF E
    <3> QED
      BY <1>3, <2>1, LeastNat
  <2>3. first \in E /\ \A i \in E : first <= i
    <3> HIDE DEF E
    <3> QED
      BY <2>2
  <2> HIDE DEF first
  <2>4. PICK t \in twins[p] : order[first] \in t /\ order[k] \in t
    BY <2>3 DEF Earlier
  <2>5. /\ entry.kind = "file" /\ tree[order[first]].kind = "file"
        /\ tree[order[first]].data = entry.data
    BY <1>2, <2>4 DEF AreTwins, Files
  <2>6. ASSUME NEW i \in Earlier(p, order, first)
        PROVE  FALSE
    <3>1. PICK s \in twins[p] : order[i] \in s /\ order[first] \in s
      BY DEF Earlier
    <3>2. s = t
      BY <1>2, <2>4, <3>1 DEF AreTwins
    <3>3. i \in 1 .. first - 1 /\ first \in 1 .. k - 1
      BY <2>3 DEF Earlier
    <3>4. i \in E /\ ~(first <= i)
      BY <1>2, <2>4, <3>1, <3>2, <3>3 DEF Earlier
    <3> QED
      BY <2>3, <3>4
  <2> QED
    BY <2>3, <2>5, <2>6 DEF Earlier
<1> HIDE DEF E, first, m, entry, tree
<1>4. E # {} => \E j \in 1 .. k - 1 :
                         /\ m.link = order[j] /\ Earlier(p, order, j) = {}
                         /\ tree[order[j]].kind = "file"
                         /\ tree[order[j]].data = entry.data
  BY <1>1, <1>3
<1> QED
  BY <1>1, <1>3, <1>4 DEF E, m, entry, tree

\* A path of a tree is a name the audit takes.
LEMMA PathIsSafe ==
    ASSUME NEW tree, IsTree(tree), NEW path \in DOMAIN tree
    PROVE  SafeName(path)
<1>1. /\ path # <<>> /\ path \in Seq(STRING)
      /\ \A k \in DOMAIN path : path[k] \notin {".", "..", "/"}
  BY DEF IsTree, NotAPart
<1>2. 1 \in DOMAIN path
  BY <1>1, LenProperties, EmptySeq
<1> QED
  BY <1>1, <1>2 DEF SafeName, ToSet

\* The audit reads from what pup create wrote what the root has.
LEMMA CreatedPasses ==
    ASSUME TypeOK, NEW p \in Selected, NoSpecial(root[p]), Created(p)
    PROVE  MembersOk(archive[p]) /\ SamePayload(root[p], PayloadOf(archive[p]))
<1> DEFINE tree == root[p]
           ms == archive[p]
<1>1. PICK order \in WalkOrders(tree) : ms = [k \in DOMAIN order |-> Member(p, order, k)]
  BY DEF Created, Written
<1>2. IsTree(tree) /\ IsArchive(ms)
  BY DEF TypeOK
<1>3. /\ DOMAIN order = 1 .. Len(order) /\ Len(order) \in Nat
      /\ \A k \in DOMAIN order : order[k] \in DOMAIN tree
      /\ \A i, j \in DOMAIN order : order[i] = order[j] => i = j
      /\ \A path \in DOMAIN tree : \E i \in DOMAIN order : order[i] = path
  BY <1>2, OrderFacts, ElementOfSeq
<1>4. DOMAIN ms = DOMAIN order /\ \A k \in DOMAIN order : ms[k] = Member(p, order, k)
  BY <1>1
<1>5. \A k \in DOMAIN order : ms[k].name = order[k]
  BY <1>4, MemberFacts
<1>6. ASSUME NEW k \in DOMAIN order
      PROVE  LET entry == tree[order[k]] IN
             /\ ms[k].mode = entry.mode /\ ms[k].owner = "root"
             /\ ms[k].type \in {"directory", "file", "link", "symlink"}
             /\ ms[k].type = "link" => SafeName(ms[k].link)
             /\ (IF ms[k].type = "link" THEN "file" ELSE ms[k].type) = entry.kind
             /\ entry.kind = "file" => DataOf(ms, k) = entry.data /\ entry.data # None
             /\ entry.kind = "symlink" => ms[k].target = entry.target
  <2> DEFINE entry == tree[order[k]]
  <2>1. IsEntry(entry) /\ entry.kind # "special" /\ order[k] \in DOMAIN tree
    BY <1>2, <1>3 DEF IsTree, NoSpecial
  <2>2. entry.kind = "file" => entry.data # None
    BY <2>1 DEF IsEntry, IsContents
  <2>3. entry.kind \in {"directory", "file", "symlink"}
    BY <2>1 DEF IsEntry
  <2>4. CASE Earlier(p, order, k) = {}
    <3>1. /\ ms[k].mode = entry.mode /\ ms[k].owner = "root" /\ ms[k].target = entry.target
          /\ ms[k].type = entry.kind /\ ms[k].data = entry.data
      BY <1>4, <2>4, MemberFacts
    <3>2. entry.kind = "file" => DataOf(ms, k) = entry.data
      BY <1>2, <1>4, <3>1, DataFacts
    <3> QED
      BY <2>2, <2>3, <3>1, <3>2
  <2>5. CASE Earlier(p, order, k) # {}
    <3>1. /\ ms[k].mode = entry.mode /\ ms[k].owner = "root" /\ ms[k].target = entry.target
          /\ ms[k].type = "link" /\ entry.kind = "file"
      BY <1>4, <2>5, MemberFacts
    <3>2. PICK j \in 1 .. k - 1 :
             /\ ms[k].link = order[j] /\ Earlier(p, order, j) = {}
             /\ tree[order[j]].kind = "file" /\ tree[order[j]].data = entry.data
      BY <1>4, <2>5, MemberFacts
    <3>3. j \in DOMAIN order /\ \A i \in 1 .. k - 1 : i \in DOMAIN order
      BY <1>3
    <3>4. ms[j].type = "file" /\ ms[j].data = entry.data /\ ms[j].name = ms[k].link
      BY <1>4, <1>5, <3>2, <3>3, MemberFacts
    <3>5. \A i \in 1 .. k - 1 : ms[i].name = ms[k].link => i = j
      BY <1>3, <1>5, <3>2, <3>3
    <3>6. DataOf(ms, k) = entry.data
      BY <1>2, <1>4, <3>1, <3>4, <3>5, DataFacts
    <3>7. SafeName(ms[k].link)
      BY <1>2, <1>3, <3>2, <3>3, PathIsSafe
    <3> QED
      BY <2>2, <3>1, <3>6, <3>7
  <2> QED
    BY <2>4, <2>5
<1>7. \A i, j \in DOMAIN ms : ms[i].name = ms[j].name => i = j
  BY <1>3, <1>4, <1>5
<1>8. MembersOk(ms)
  <2> SUFFICES ASSUME NEW k \in DOMAIN ms
               PROVE  /\ SafeName(ms[k].name)
                      /\ \A j \in 1 .. k - 1 : ms[j].name # ms[k].name
                      /\ ms[k].owner = "root"
                      /\ ms[k].type \in {"directory", "file", "link", "symlink"}
                      /\ ms[k].type = "link" => SafeName(ms[k].link) /\ DataOf(ms, k) # None
    BY DEF MembersOk, MemberOk
  <2>1. SafeName(ms[k].name)
    BY <1>2, <1>3, <1>4, <1>5, PathIsSafe
  <2>2. \A j \in 1 .. k - 1 : ms[j].name # ms[k].name
    <3>1. \A j \in 1 .. k - 1 : j \in DOMAIN ms /\ j # k
      BY <1>3, <1>4
    <3> QED
      BY <1>7, <3>1
  <2> QED
    BY <1>4, <1>6, <2>1, <2>2
<1>9. SamePayload(tree, PayloadOf(ms))
  <2> HIDE DEF ms
  <2>0. /\ DOMAIN PayloadOf(ms) = {ms[k].name : k \in DOMAIN ms}
        /\ \A k \in DOMAIN ms :
             PayloadOf(ms)[ms[k].name] =
                  [kind |-> IF ms[k].type = "link" THEN "file" ELSE ms[k].type,
                   mode |-> ms[k].mode,
                   data |-> IF ms[k].type \in {"file", "link"} THEN DataOf(ms, k) ELSE None,
                   target |-> IF ms[k].type = "symlink" THEN ms[k].target ELSE None]
    BY <1>2, <1>7, PayloadFacts
  <2>1. DOMAIN PayloadOf(ms) = DOMAIN tree
    <3> HIDE DEF tree
    <3>1. \A k \in DOMAIN ms : k \in DOMAIN order /\ ms[k].name = order[k]
      BY <1>4, <1>5
    <3>2. \A k \in DOMAIN order : k \in DOMAIN ms
      BY <1>4
    <3>3. {ms[k].name : k \in DOMAIN ms} = DOMAIN tree
      <4>1. ASSUME NEW x \in DOMAIN tree
            PROVE  x \in {ms[k].name : k \in DOMAIN ms}
        <5>1. PICK k \in DOMAIN order : order[k] = x
          BY <1>3
        <5>2. k \in DOMAIN ms /\ ms[k].name = x
          BY <3>1, <3>2, <5>1
        <5> QED
          BY <5>2
      <4>2. ASSUME NEW k \in DOMAIN ms
            PROVE  ms[k].name \in DOMAIN tree
        BY <1>3, <3>1
      <4> QED
        BY <4>1, <4>2
    <3> QED
      BY <2>0, <3>3
  <2>2. ASSUME NEW path \in DOMAIN tree
        PROVE  LET e == PayloadOf(ms)[path] IN
               /\ tree[path].kind = e.kind /\ tree[path].mode = e.mode
               /\ tree[path].kind = "file" => tree[path].data = e.data
               /\ tree[path].kind = "symlink" => tree[path].target = e.target
    <3>1. PICK k \in DOMAIN order : order[k] = path
      BY <1>3
    <3>2. PayloadOf(ms)[path] =
                  [kind |-> IF ms[k].type = "link" THEN "file" ELSE ms[k].type,
                   mode |-> ms[k].mode,
                   data |-> IF ms[k].type \in {"file", "link"} THEN DataOf(ms, k) ELSE None,
                   target |-> IF ms[k].type = "symlink" THEN ms[k].target ELSE None]
      BY <1>4, <1>5, <2>0, <3>1
    <3> QED
      BY <1>6, <3>1, <3>2
  <2> QED
    BY <2>1, <2>2 DEF SamePayload
<1> QED
  BY <1>8, <1>9

-----------------------------------------------------------------------------
(* Every step keeps the invariant.                                         *)

LEMMA InitKeepsInv == Init => IInv
<1> SUFFICES ASSUME Init PROVE IInv
  OBVIOUS
<1>1. PICK staged \in Stagings :
        /\ root = [p \in Selected |-> staged[p].tree]
        /\ twins = [p \in Selected |-> staged[p].twins]
        /\ stage = [p \in Selected |-> "staged"]
        /\ archive = [p \in Selected |-> <<>>]
        /\ torn = [p \in Selected |-> FALSE]
        /\ marker = [p \in Selected |-> "exact"]
        /\ edits = 0 /\ at = 0 /\ phase = "idle"
        /\ reason = [p \in Selected |-> None] /\ status = None
  BY DEF Init
<1>2. \A p \in Selected : IsTree(staged[p].tree) /\ AreTwins(staged[p].tree, staged[p].twins)
  BY AuditAssumption DEF Selected
<1>3. IsArchive(<<>>)
  <2> DEFINE T == {}
  <2>1. <<>> \in Seq(T)
    OBVIOUS
  <2>2. \A m \in T : IsMember(m)
    OBVIOUS
  <2> HIDE DEF T
  <2> QED
    BY <2>1, <2>2 DEF IsArchive
<1>4. TypeOK
  BY <1>1, <1>2, <1>3 DEF TypeOK, PhaseNames
<1>5. BuildInv
  BY <1>1 DEF BuildInv
<1>6. AuditInv /\ OwnArchivePasses
  BY <1>1, AuditAssumption DEF AuditInv, OwnArchivePasses, PhaseNames
<1> QED
  BY <1>4, <1>5, <1>6 DEF IInv

LEMMA BuildCheckKeepsInv ==
    ASSUME IInv, NEW p \in Selected, BuildCheck(p) PROVE IInv'
<1>0. /\ root' = root /\ twins' = twins /\ archive' = archive /\ marker' = marker /\ torn' = torn
      /\ edits' = edits /\ at' = at /\ phase' = phase /\ payload' = payload
      /\ reason' = reason /\ status' = status /\ Selected' = Selected
  BY DEF BuildCheck, outputVars, auditVars, Selected
<1>1. /\ stage' \in [Selected -> {"staged", "checked", "refused", "packed"}]
      /\ stage[p] = "staged" /\ \A q \in Selected \ {p} : stage'[q] = stage[q]
      /\ stage'[p] \in {"checked", "refused"}
      /\ stage'[p] = "checked" => CheckPasses(p)
  BY DEF BuildCheck, IInv, TypeOK
<1>2. TypeOK'
  BY <1>0, <1>1 DEF IInv, TypeOK
<1>3. ASSUME NEW q \in Selected
      PROVE  (Created(q)' <=> Created(q)) /\ (CheckPasses(q)' <=> CheckPasses(q))
  <2>1. Created(q)' <=> Created(q)
    BY <1>0 DEF Created, Written, Member
  <2>2. ScriptsOk(q)' <=> ScriptsOk(q)
    BY <1>0 DEF ScriptsOk
  <2> QED
    BY <1>0, <2>1, <2>2 DEF CheckPasses
<1>4. BuildInv'
  BY <1>0, <1>1, <1>3 DEF IInv, BuildInv
<1>5. phase = "idle" /\ status # "success" /\ \A q \in Selected : reason[q] = None
  BY <1>1 DEF IInv, AuditInv
<1>6. AuditInv' /\ OwnArchivePasses'
  BY <1>0, <1>5, AuditAssumption DEF AuditInv, OwnArchivePasses, PhaseNames
<1> QED
  BY <1>2, <1>4, <1>6 DEF IInv

LEMMA CreateKeepsInv ==
    ASSUME IInv, NEW p \in Selected, Create(p) PROVE IInv'
<1>0. /\ root' = root /\ twins' = twins /\ marker' = marker /\ torn' = torn
      /\ edits' = edits /\ at' = at /\ phase' = phase /\ payload' = payload
      /\ reason' = reason /\ status' = status /\ Selected' = Selected
      /\ stage[p] = "checked" /\ stage' = [stage EXCEPT ![p] = "packed"]
  BY DEF Create, auditVars, Selected
<1>1. PICK order \in WalkOrders(root[p]) :
        archive' = [archive EXCEPT ![p] = [k \in DOMAIN order |-> Member(p, order, k)]]
  BY DEF Create
<1>2. /\ stage' \in [Selected -> {"staged", "checked", "refused", "packed"}]
      /\ \A q \in Selected \ {p} : stage'[q] = stage[q] /\ archive'[q] = archive[q]
      /\ archive'[p] = [k \in DOMAIN order |-> Member(p, order, k)]
      /\ DOMAIN archive' = Selected
  BY <1>0, <1>1 DEF IInv, TypeOK
<1>3. TypeOK'
  <2>1. IsArchive(archive'[p])
    BY <1>2, CreatedIsArchive DEF IInv
  <2> QED
    BY <1>0, <1>2, <2>1 DEF IInv, TypeOK
<1>4. ASSUME NEW q \in Selected
      PROVE  /\ CheckPasses(q)' <=> CheckPasses(q)
             /\ Created(q)' <=> q = p \/ Created(q)
  <2>1. \A r, o : Written(r, o)' = Written(r, o)
    BY <1>0 DEF Written, Member
  <2>2. Created(p)'
    BY <1>0, <1>2, <2>1 DEF Created, Written
  <2>3. q # p => (Created(q)' <=> Created(q))
    BY <1>0, <1>2, <2>1 DEF Created
  <2>4. ScriptsOk(q)' <=> ScriptsOk(q)
    BY <1>0 DEF ScriptsOk
  <2> QED
    BY <1>0, <2>2, <2>3, <2>4 DEF CheckPasses
<1>5. BuildInv'
  <2> SUFFICES ASSUME NEW q \in Selected
               PROVE  /\ stage'[q] \in {"checked", "packed"} => CheckPasses(q)'
                      /\ edits' = 0 => /\ marker'[q] = "exact" /\ ~ torn'[q]
                                       /\ stage'[q] = "packed" => Created(q)'
    BY <1>0 DEF BuildInv
  <2>1. CASE q = p
    BY <1>0, <1>4, <2>1 DEF IInv, BuildInv
  <2>2. CASE q # p
    BY <1>0, <1>2, <1>4, <2>2 DEF IInv, BuildInv
  <2> QED
    BY <2>1, <2>2
<1>6. phase = "idle" /\ status # "success" /\ \A q \in Selected : reason[q] = None
  BY <1>0 DEF IInv, AuditInv
<1>7. AuditInv' /\ OwnArchivePasses'
  BY <1>0, <1>6, AuditAssumption DEF AuditInv, OwnArchivePasses, PhaseNames
<1> QED
  BY <1>3, <1>5, <1>7 DEF IInv

LEMMA AccidentKeepsInv ==
    ASSUME IInv, NEW p \in Selected, Accident(p) PROVE IInv'
<1>0. /\ root' = root /\ twins' = twins /\ stage' = stage /\ edits' = edits + 1
      /\ at' = at /\ phase' = phase /\ payload' = payload /\ phase = "idle"
      /\ reason' = reason /\ status' = status /\ Selected' = Selected
      /\ edits \in Nat
  BY DEF Accident, auditVars, Selected, IInv, TypeOK
<1>1. /\ DOMAIN archive' = Selected /\ \A q \in Selected \ {p} : archive'[q] = archive[q]
      /\ IsArchive(archive'[p]) /\ DOMAIN marker' = Selected
  <2>0. /\ DOMAIN archive = Selected /\ IsArchive(archive[p]) /\ DOMAIN marker = Selected
        /\ \A q \in Selected : IsArchive(archive[q])
    BY DEF IInv, TypeOK
  <2>1. CASE \E k \in 1 .. Len(archive[p]) + 1, m \in Strangers :
               archive' = [archive EXCEPT ![p] = InsertAt(@, k, m)] /\ UNCHANGED marker
    <3>1. PICK k \in 1 .. Len(archive[p]) + 1, m \in Strangers :
               archive' = [archive EXCEPT ![p] = InsertAt(archive[p], k, m)] /\ marker' = marker
      BY <2>1
    <3>2. IsArchive(InsertAt(archive[p], k, m))
      BY <2>0, ArchiveEdits, AuditAssumption
    <3> QED
      BY <2>0, <3>1, <3>2
  <2>2. CASE \E k \in 1 .. Len(archive[p]) :
               archive' = [archive EXCEPT ![p] = RemoveAt(@, k)] /\ UNCHANGED marker
    <3>1. PICK k \in 1 .. Len(archive[p]) :
               archive' = [archive EXCEPT ![p] = RemoveAt(archive[p], k)] /\ marker' = marker
      BY <2>2
    <3>2. IsArchive(RemoveAt(archive[p], k))
      BY <2>0, ArchiveEdits
    <3> QED
      BY <2>0, <3>1, <3>2
  <2>3. CASE archive' = archive /\ DOMAIN marker' = DOMAIN marker
    BY <2>0, <2>3
  <2> QED
    BY <2>1, <2>2, <2>3 DEF Accident
<1>2. TypeOK'
  BY <1>0, <1>1 DEF IInv, TypeOK
<1>3. BuildInv'
  <2>1. \A q \in Selected : CheckPasses(q)' <=> CheckPasses(q)
    <3>1. \A q \in Selected : ScriptsOk(q)' <=> ScriptsOk(q)
      BY <1>0 DEF ScriptsOk
    <3> QED
      BY <1>0, <3>1 DEF CheckPasses
  <2> QED
    BY <1>0, <2>1 DEF IInv, BuildInv
<1>4. status # "success" /\ \A q \in Selected : reason[q] = None
  BY <1>0 DEF IInv, AuditInv
<1>5. AuditInv' /\ OwnArchivePasses'
  BY <1>0, <1>4, AuditAssumption DEF AuditInv, OwnArchivePasses, PhaseNames
<1> QED
  BY <1>2, <1>3, <1>5 DEF IInv

LEMMA BeginKeepsInv ==
    ASSUME IInv, Begin PROVE IInv'
<1>0. /\ root' = root /\ twins' = twins /\ stage' = stage /\ edits' = edits
      /\ archive' = archive /\ marker' = marker
      /\ at' = 1 /\ phase' = "presence" /\ payload' = payload /\ phase = "idle"
      /\ reason' = reason /\ status' = status /\ Selected' = Selected
      /\ UNCHANGED <<outputVars, stage, edits>>
      /\ \A p \in Selected : stage[p] \in {"packed", "refused"}
  BY DEF Begin, outputVars, Selected
<1>1. 1 \in 1 .. Len(Packages)
  BY AuditAssumption, EmptySeq, LenProperties
<1>2. TypeOK'
  BY <1>0, <1>1 DEF IInv, TypeOK, PhaseNames
<1>3. status # "success" /\ \A q \in Selected : reason[q] = None
  BY <1>0 DEF IInv, AuditInv
<1>4. AuditInv' /\ OwnArchivePasses'
  BY <1>0, <1>3, AuditAssumption DEF AuditInv, OwnArchivePasses, PhaseNames, Known
<1> QED
  BY <1>0, <1>2, <1>4, OutputKept DEF IInv

\* What the audit knows after a part, and what its failure means.
LEMMA AuditStepKeepsInv ==
    ASSUME IInv,
           \/ CheckPresence \/ CheckMarker \/ ReadRoot \/ CheckFhs \/ CheckSymlinks
           \/ ReadArchive \/ Compare \/ CheckScripts \/ CheckFormats
    PROVE  IInv'
<1> DEFINE p == Packages[at]
<1>1. phase \in PhaseNames
  BY DEF CheckPresence, CheckMarker, ReadRoot, CheckFhs, CheckSymlinks, ReadArchive,
     Compare, CheckScripts, CheckFormats, Examine, PhaseNames
<1>2. /\ p \in Selected /\ Known(p, phase) /\ stage[p] \in {"packed", "refused"}
      /\ IsTree(root[p])
      /\ phase = "compare" => payload = PayloadOf(archive[p])
  BY <1>1, AtIsSelected DEF IInv, AuditInv, PhaseNames, TypeOK
\* An archive that nobody touched.
<1>3. ASSUME phase # "presence", phase # "marker", NoSpecial(root[p]), edits = 0
      PROVE  /\ MembersOk(archive[p]) /\ SamePayload(root[p], PayloadOf(archive[p]))
             /\ ScriptsOk(p)
  <2>1. stage[p] = "packed"
    BY <1>2, <1>3 DEF Known
  <2>2. Created(p) /\ CheckPasses(p)
    BY <1>2, <1>3, <2>1 DEF IInv, BuildInv
  <2> QED
    BY <1>2, <1>3, <2>2, CreatedPasses DEF CheckPasses, IInv
<1>4. edits \in Nat /\ (edits = 0 => marker[p] = "exact" /\ ~ torn[p])
  BY <1>2 DEF IInv, BuildInv, TypeOK
<1> HIDE DEF p
<1>5. CASE CheckPresence
  <2>1. phase = "presence" /\ Examine("presence", stage[p] = "packed")
    BY <1>5 DEF CheckPresence, Examine, p
  <2>2. stage[p] = "packed" => Known(p, "marker")
    BY DEF Known
  <2> QED
    BY <2>1, <2>2, ExamineKeepsInv, NextPhases DEF PhaseNames, p
<1>6. CASE CheckMarker
  <2>1. phase = "marker"
    BY <1>6 DEF CheckMarker
  <2>2. CASE marker[p] = "undecodable"
    BY <1>1, <1>6, <2>2, EscapeKeepsInv DEF CheckMarker, p
  <2>3. CASE marker[p] # "undecodable"
    <3>1. Examine("marker", marker[p] = "exact")
      BY <1>6, <2>3 DEF CheckMarker, p
    <3>2. Known(p, "root")
      BY <1>2, <2>1 DEF Known
    <3>3. marker[p] # "exact" => edits > 0
      BY <1>4
    <3> QED
      BY <2>1, <3>1, <3>2, <3>3, ExamineKeepsInv, NextPhases DEF PhaseNames, p
  <2> QED
    BY <2>2, <2>3
<1>7. CASE ReadRoot
  <2> DEFINE ok == root[p] # <<>> /\ \A path \in DOMAIN root[p] : root[p][path].kind # "special"
  <2>1. phase = "root" /\ Examine("root", ok)
    BY <1>7 DEF ReadRoot, Examine, p
  <2>2. ok => Known(p, "fhs")
    BY <1>2, <2>1 DEF Known, NoSpecial
  <2> HIDE DEF ok
  <2> QED
    BY <2>1, <2>2, ExamineKeepsInv, NextPhases DEF PhaseNames, p
<1>8. CASE CheckFhs
  <2>1. phase = "fhs" /\ Examine("fhs", FhsOk(root[p]))
    BY <1>8 DEF CheckFhs, Examine, p
  <2>2. Known(p, "links")
    BY <1>2, <2>1 DEF Known
  <2> QED
    BY <2>1, <2>2, ExamineKeepsInv, NextPhases DEF PhaseNames, p
<1>9. CASE CheckSymlinks
  <2>1. phase = "links" /\ Examine("links", LinksOk(root[p]))
    BY <1>9 DEF CheckSymlinks, Examine, LinksOk, p
  <2>2. LinksOk(root[p]) => Known(p, "archive")
    BY <1>2, <2>1 DEF Known
  <2> QED
    BY <2>1, <2>2, ExamineKeepsInv, NextPhases DEF PhaseNames, p
<1>10. CASE ReadArchive
  <2>1. phase = "archive" /\ NoSpecial(root[p])
    BY <1>2, <1>10 DEF ReadArchive, Known
  <2>2. CASE Escape
    BY <1>1, <2>2, EscapeKeepsInv
  <2>3. CASE Verdict(p, "archive") /\ UNCHANGED <<outputVars, stage, edits>>
             /\ (torn[p] \/ ~ MembersOk(archive[p]))
    <3>1. edits > 0
      BY <1>3, <1>4, <2>1, <2>3
    <3> QED
      BY <1>1, <2>3, <3>1, VerdictKeepsInv DEF PhaseNames, p
  <2>4. CASE /\ MembersOk(archive[p])
             /\ payload' = PayloadOf(archive[p]) /\ phase' = "compare"
             /\ UNCHANGED <<outputVars, stage, edits, at, reason, status>>
    <3>1. /\ payload' = PayloadOf(archive[p]) /\ phase' = "compare"
          /\ UNCHANGED <<at, reason, status>> /\ UNCHANGED <<outputVars, stage, edits>>
      BY <2>4
    <3>2. Known(p, "compare")
      BY <1>2, <2>1, <2>4 DEF Known
    <3> QED
      BY <1>1, <3>1, <3>2, ProgressKeepsInv DEF PhaseNames, p
  <2> QED
    BY <1>10, <2>2, <2>3, <2>4 DEF ReadArchive, p
<1>11. CASE Compare
  <2> DEFINE ok == SamePayload(root[p], payload)
  <2>1. phase = "compare" /\ Examine("compare", ok)
    BY <1>11 DEF Compare, Examine, p
  <2>2. ok => Known(p, "scripts")
    BY <1>2, <2>1 DEF Known
  <2>3. ~ok => edits > 0
    BY <1>2, <1>3, <1>4, <2>1 DEF Known
  <2> HIDE DEF ok
  <2> QED
    BY <2>1, <2>2, <2>3, ExamineKeepsInv, NextPhases DEF PhaseNames, p
<1>12. CASE CheckScripts
  <2>1. phase = "scripts" /\ Examine("scripts", ScriptsOk(p))
    BY <1>12 DEF CheckScripts, Examine, p
  <2>2. ScriptsOk(p) => Known(p, "formats")
    BY <1>2, <2>1 DEF Known
  <2>3. ~ScriptsOk(p) => edits > 0
    BY <1>2, <1>3, <1>4, <2>1 DEF Known
  <2> QED
    BY <2>1, <2>2, <2>3, ExamineKeepsInv, NextPhases DEF PhaseNames, p
<1>13. CASE CheckFormats
  <2>1. phase = "formats" /\ Examine("formats", FormatsOk(root[p]))
    BY <1>13 DEF CheckFormats, Examine, FormatsOk, p
  <2>2. FormatsOk(root[p]) => Audited(p)
    BY <1>2, <2>1 DEF Audited
  <2> QED
    BY <2>1, <2>2, ExamineKeepsInv DEF PhaseNames, p
<1> QED
  BY <1>5, <1>6, <1>7, <1>8, <1>9, <1>10, <1>11, <1>12, <1>13

LEMMA StutterKeepsInv ==
    ASSUME IInv, UNCHANGED vars PROVE IInv'
<1>0. /\ UNCHANGED <<outputVars, stage, edits>> /\ Selected' = Selected
      /\ root' = root /\ twins' = twins /\ archive' = archive /\ marker' = marker
      /\ stage' = stage /\ edits' = edits /\ at' = at /\ phase' = phase
      /\ payload' = payload /\ reason' = reason /\ status' = status
  BY DEF vars, outputVars, auditVars, Selected
<1>1. TypeOK'
  BY <1>0 DEF IInv, TypeOK
<1>2. Known(Packages[at], phase)' <=> Known(Packages[at], phase)
  BY <1>0 DEF Known, ScriptsOk
<1>3. AuditInv'
  BY <1>0, <1>2, OutputKept DEF IInv, AuditInv
<1>4. OwnArchivePasses'
  BY <1>0 DEF IInv, OwnArchivePasses
<1> QED
  BY <1>0, <1>1, <1>3, <1>4, OutputKept DEF IInv

LEMMA StepKeepsInv ==
    ASSUME IInv, [Next]_vars PROVE IInv'
<1>1. CASE \E p \in Selected : BuildCheck(p) \/ Create(p) \/ Accident(p)
  BY <1>1, BuildCheckKeepsInv, CreateKeepsInv, AccidentKeepsInv
<1>2. CASE Begin
  BY <1>2, BeginKeepsInv
<1>3. CASE \/ CheckPresence \/ CheckMarker \/ ReadRoot \/ CheckFhs \/ CheckSymlinks
           \/ ReadArchive \/ Compare \/ CheckScripts \/ CheckFormats
  BY <1>3, AuditStepKeepsInv
<1>4. CASE UNCHANGED vars
  BY <1>4, StutterKeepsInv
<1> QED
  BY <1>1, <1>2, <1>3, <1>4 DEF Next

\* What is staged, packed and read, and what each phase of an audit has found of
\* it, in every reachable state.
THEOREM Invariance == Spec => []IInv
<1>1. QED
  BY InitKeepsInv, StepKeepsInv, PTL DEF Spec

\* pup create writes what the audit reads, whatever the order of the directory
\* and the links of the tree: an archive that nobody has touched is never
\* refused for what is in it.
THEOREM OwnArchives == Spec => []OwnArchivePasses
<1>1. IInv => OwnArchivePasses
  BY DEF IInv
<1> QED
  BY <1>1, Invariance, PTL

-----------------------------------------------------------------------------
(* Scripts: the loop over the words after env, and env itself.             *)

\* A success vouches for every check of every package.
LEMMA VouchedFacts ==
    ASSUME IInv, Vouched, NEW p \in Selected
    PROVE  /\ Audited(p) /\ IsTree(root[p]) /\ IsArchive(archive[p])
           /\ MembersOk(archive[p]) /\ SamePayload(root[p], PayloadOf(archive[p]))
           /\ LinksOk(root[p]) /\ ScriptsOk(p) /\ FormatsOk(root[p]) /\ NoSpecial(root[p])
BY DEF IInv, AuditInv, Vouched, Audited, Known, TypeOK

\* The recursion of EnvCommand, as a function that exists.
LEMMA EnvCommandRecursion ==
    ASSUME NEW S, NEW args \in Seq(S)
    PROVE  \E scan :
             /\ scan[0] = "word"
             /\ \A i \in 1 .. Len(args) : scan[i] = AfterWord(scan[i - 1], args[i])
             /\ EnvCommand(args) =
                  CHOOSE k \in 1 .. Len(args) + 1 :
                      scan[k - 1] # "found" /\ (k \in DOMAIN args => scan[k] = "found")
<1> DEFINE n == Len(args)
    V == {"word", "argument", "command", "found"}
    step == [q \in (1 .. n) \X V |-> AfterWord(q[2], args[q[1]])]
    Is(f) == f = [i \in 0 .. n |-> IF i = 0 THEN "word" ELSE AfterWord(f[i - 1], args[i])]
<1>1. n \in Nat
  BY LenProperties
<1>2. "word" \in V /\ step \in [(1 .. n) \X V -> V]
  <2>1. \A v, w : AfterWord(v, w) \in V
    BY DEF AfterWord
  <2> HIDE DEF n, V
  <2>2. step \in [(1 .. n) \X V -> V]
    BY <2>1
  <2> QED
    BY <2>2 DEF V
<1>3. PICK f \in [0 .. n -> V] : Recursive(f, n, "word", step)
  <2> HIDE DEF step, n, V
  <2> QED
    BY <1>1, <1>2, Recursion
<1>4. f[0] = "word" /\ \A i \in 1 .. n : f[i] = AfterWord(f[i - 1], args[i])
  <2>0. f[0] = "word"
    BY <1>3 DEF Recursive
  <2> SUFFICES \A i \in 1 .. n : f[i] = AfterWord(f[i - 1], args[i])
    BY <2>0
  <2> TAKE i \in 1 .. n
  <2> HIDE DEF n, V
  <2>1. i - 1 \in 0 .. n
    BY <1>1
  <2>2. f[i - 1] \in V
    BY <1>3, <2>1
  <2> QED
    BY <1>3, <2>2 DEF Recursive
<1>5. Is(f)
  <2> HIDE DEF n, V
  <2> QED
    BY <1>1, <1>3, <1>4
<1>6. PICK scan : Is(scan) /\ scan = CHOOSE g : Is(g)
  BY <1>5
<1>7. scan[0] = "word" /\ \A i \in 1 .. n : scan[i] = AfterWord(scan[i - 1], args[i])
  <2> HIDE DEF n
  <2>1. 0 \in 0 .. n /\ \A i \in 1 .. n : i \in 0 .. n /\ i # 0
    BY <1>1
  <2> QED
    BY <1>6, <2>1
<1>8. EnvCommand(args) =
        CHOOSE k \in 1 .. Len(args) + 1 :
            scan[k - 1] # "found" /\ (k \in DOMAIN args => scan[k] = "found")
  BY <1>6 DEF EnvCommand
<1> QED
  BY <1>7, <1>8

\* The recursion of EnvRuns, as a function that exists.
LEMMA EnvRunsRecursion ==
    ASSUME NEW S, NEW args \in Seq(S)
    PROVE  \E expects :
             /\ expects[0] = "word"
             /\ \A i \in 1 .. Len(args) : expects[i] = Expects(expects[i - 1], args[i])
             /\ EnvRuns(args) =
                  FirstName(args, {k \in DOMAIN args :
                                     args[k].kind = "path" /\ expects[k - 1] = "word"})
<1> DEFINE n == Len(args)
    V == {"word", "argument"}
    step == [q \in (1 .. n) \X V |-> Expects(q[2], args[q[1]])]
    Is(f) == f = [i \in 0 .. n |-> IF i = 0 THEN "word" ELSE Expects(f[i - 1], args[i])]
<1>1. n \in Nat
  BY LenProperties
<1>2. "word" \in V /\ step \in [(1 .. n) \X V -> V]
  <2>1. \A v, w : Expects(v, w) \in V
    BY DEF Expects
  <2> HIDE DEF n, V
  <2>2. step \in [(1 .. n) \X V -> V]
    BY <2>1
  <2> QED
    BY <2>2 DEF V
<1>3. PICK f \in [0 .. n -> V] : Recursive(f, n, "word", step)
  <2> HIDE DEF step, n, V
  <2> QED
    BY <1>1, <1>2, Recursion
<1>4. f[0] = "word" /\ \A i \in 1 .. n : f[i] = Expects(f[i - 1], args[i])
  <2>0. f[0] = "word"
    BY <1>3 DEF Recursive
  <2> SUFFICES \A i \in 1 .. n : f[i] = Expects(f[i - 1], args[i])
    BY <2>0
  <2> TAKE i \in 1 .. n
  <2> HIDE DEF n, V
  <2>1. i - 1 \in 0 .. n
    BY <1>1
  <2>2. f[i - 1] \in V
    BY <1>3, <2>1
  <2> QED
    BY <1>3, <2>2 DEF Recursive
<1>5. Is(f)
  <2> HIDE DEF n, V
  <2> QED
    BY <1>1, <1>3, <1>4
<1>6. PICK expects : Is(expects) /\ expects = CHOOSE g : Is(g)
  BY <1>5
<1>7. expects[0] = "word" /\ \A i \in 1 .. n : expects[i] = Expects(expects[i - 1], args[i])
  <2> HIDE DEF n
  <2>1. 0 \in 0 .. n /\ \A i \in 1 .. n : i \in 0 .. n /\ i # 0
    BY <1>1
  <2> QED
    BY <1>6, <2>1
<1>8. EnvRuns(args) =
        FirstName(args, {k \in DOMAIN args :
                           args[k].kind = "path" /\ expects[k - 1] = "word"})
  BY <1>6 DEF EnvRuns
<1> QED
  BY <1>7, <1>8

\* EnvCommand is where the loop first finds something, or behind the words.
LEMMA EnvCommandStops ==
    ASSUME NEW S, NEW args \in Seq(S)
    PROVE  \E scan :
             /\ scan[0] = "word"
             /\ \A i \in 1 .. Len(args) : scan[i] = AfterWord(scan[i - 1], args[i])
             /\ EnvCommand(args) \in 1 .. Len(args) + 1
             /\ scan[EnvCommand(args) - 1] # "found"
             /\ EnvCommand(args) \in DOMAIN args => scan[EnvCommand(args)] = "found"
<1> DEFINE n == Len(args)
           k == EnvCommand(args)
<1>1. n \in Nat /\ DOMAIN args = 1 .. n
  BY LenProperties
<1>2. PICK scan : /\ scan[0] = "word"
                  /\ \A i \in 1 .. n : scan[i] = AfterWord(scan[i - 1], args[i])
                  /\ k = CHOOSE j \in 1 .. n + 1 :
                           scan[j - 1] # "found" /\ (j \in DOMAIN args => scan[j] = "found")
  BY EnvCommandRecursion
<1> HIDE DEF n
<1>3. \E j \in 1 .. n + 1 :
         scan[j - 1] # "found" /\ (j \in DOMAIN args => scan[j] = "found")
  <2> DEFINE T == {i \in 1 .. n : scan[i] = "found"}
  <2>1. CASE T = {}
    <3>1. n + 1 \in 1 .. n + 1 /\ n + 1 \notin DOMAIN args /\ (n + 1) - 1 = n
      BY <1>1
    <3>2. scan[n] # "found"
      BY <1>1, <1>2, <2>1
    <3> QED
      BY <3>1, <3>2
  <2>2. CASE T # {}
    <3>1. PICK x \in T : \A y \in T : x <= y
      <4>1. T \in SUBSET Nat
        OBVIOUS
      <4> HIDE DEF T
      <4> QED
        BY <2>2, <4>1, LeastNat
    <3>2. x \in 1 .. n /\ scan[x] = "found" /\ x \in 1 .. n + 1
      BY <1>1
    <3>3. scan[x - 1] # "found"
      <4>1. x - 1 \notin T
        BY <3>1, <3>2
      <4>2. x - 1 = 0 \/ x - 1 \in 1 .. n
        BY <1>1, <3>2
      <4> QED
        BY <1>2, <4>1, <4>2
    <3> QED
      BY <3>2, <3>3
  <2> QED
    BY <2>1, <2>2
<1> HIDE DEF k
<1>4. k \in 1 .. n + 1 /\ scan[k - 1] # "found" /\ (k \in DOMAIN args => scan[k] = "found")
  BY <1>2, <1>3
<1> QED
  BY <1>2, <1>4 DEF k, n

\* Where the builder finds a command after env, env finds it too.
LEMMA EnvAgrees ==
    ASSUME NEW S, NEW args \in Seq(S), EnvCommand(args) \in DOMAIN args,
           args[EnvCommand(args)].kind = "path"
    PROVE  EnvRuns(args) = args[EnvCommand(args)].name
<1> DEFINE n == Len(args)
           k == EnvCommand(args)
<1>1. n \in Nat /\ DOMAIN args = 1 .. n
  BY LenProperties
<1>2. PICK scan : /\ scan[0] = "word"
                  /\ \A i \in 1 .. n : scan[i] = AfterWord(scan[i - 1], args[i])
                  /\ k \in 1 .. n + 1 /\ scan[k - 1] # "found"
                  /\ k \in DOMAIN args => scan[k] = "found"
  BY EnvCommandStops
<1>3. PICK expects :
         /\ expects[0] = "word"
         /\ \A i \in 1 .. n : expects[i] = Expects(expects[i - 1], args[i])
         /\ EnvRuns(args) =
              FirstName(args, {j \in DOMAIN args :
                                 args[j].kind = "path" /\ expects[j - 1] = "word"})
  BY EnvRunsRecursion
<1> HIDE DEF n
<1>4. k \in 1 .. n /\ scan[k - 1] # "found" /\ scan[k] = "found"
  BY <1>1, <1>2
<1> HIDE DEF k
\* Before k nothing is found.
<1>5. ASSUME NEW i \in 0 .. n, i < k
      PROVE  scan[i] # "found"
  <2> DEFINE P == {d \in Nat : d <= k - 1 => scan[(k - 1) - d] # "found"}
  <2>1. 0 \in P
    BY <1>4
  <2>2. ASSUME NEW d \in Nat, d \in P
        PROVE  d + 1 \in P
    <3>1. SUFFICES ASSUME d + 1 <= k - 1
                   PROVE  scan[(k - 1) - (d + 1)] # "found"
      OBVIOUS
    <3>2. DEFINE j == (k - 1) - d
    <3>3. j \in 1 .. n /\ scan[j] # "found" /\ j - 1 = (k - 1) - (d + 1)
      BY <1>1, <1>4, <2>2, <3>1
    <3> HIDE DEF j
    <3>4. scan[j] = AfterWord(scan[j - 1], args[j])
      BY <1>2, <3>3
    <3>5. scan[j - 1] # "found"
      BY <3>3, <3>4 DEF AfterWord
    <3> QED
      BY <3>3, <3>5
  <2>3. Nat \subseteq P
    <3> HIDE DEF P
    <3> QED
      BY <2>1, <2>2, NatInduct
  <2>4. (k - 1) - i \in P /\ (k - 1) - i <= k - 1 /\ (k - 1) - ((k - 1) - i) = i
    <3>1. (k - 1) - i \in Nat
      BY <1>1, <1>4, <1>5
    <3> HIDE DEF P
    <3> QED
      BY <1>1, <1>4, <2>3, <3>1
  <2> QED
    BY <2>4
\* Both loops skip the same arguments of options.
<1>6. ASSUME NEW i \in 0 .. n, i < k
      PROVE  /\ expects[i] \in {"word", "argument"}
             /\ scan[i] \in {"word", "argument", "command"}
             /\ expects[i] = "argument" <=> scan[i] = "argument"
  <2> DEFINE Q(j) == /\ expects[j] \in {"word", "argument"}
                     /\ scan[j] \in {"word", "argument", "command"}
                     /\ expects[j] = "argument" <=> scan[j] = "argument"
             P == {j \in Nat : j < k => Q(j)}
  <2>1. 0 \in P
    BY <1>2, <1>3
  <2>2. ASSUME NEW j \in Nat, j \in P
        PROVE  j + 1 \in P
    <3>1. SUFFICES ASSUME j + 1 < k
                   PROVE  Q(j + 1)
      OBVIOUS
    <3>2. Q(j)
      BY <1>1, <1>4, <2>2, <3>1
    <3>3. j + 1 \in 1 .. n /\ j + 1 \in 0 .. n /\ (j + 1) - 1 = j
      BY <1>1, <1>4, <3>1
    <3>4. /\ scan[j + 1] = AfterWord(scan[j], args[j + 1]) /\ scan[j + 1] # "found"
          /\ expects[j + 1] = Expects(expects[j], args[j + 1])
      BY <1>2, <1>3, <1>5, <3>1, <3>3
    <3>5. CASE scan[j] = "argument"
      BY <3>2, <3>4, <3>5 DEF AfterWord, Expects
    <3>6. CASE scan[j] = "command"
      BY <3>4, <3>6 DEF AfterWord
    <3>7. CASE scan[j] = "word"
      BY <3>2, <3>4, <3>7 DEF AfterWord, Expects
    <3> QED
      BY <3>2, <3>5, <3>6, <3>7
  <2>3. Nat \subseteq P
    <3> HIDE DEF P
    <3> QED
      BY <2>1, <2>2, NatInduct
  <2>4. i \in P
    <3> HIDE DEF P
    <3> QED
      BY <1>1, <2>3
  <2> QED
    BY <1>6, <2>4
<1> DEFINE commands == {j \in DOMAIN args :
                          args[j].kind = "path" /\ expects[j - 1] = "word"}
<1>7. ASSUME NEW j \in commands, j < k
      PROVE  FALSE
  <2>1. j \in 1 .. n /\ j - 1 \in 0 .. n /\ j - 1 < k /\ j \in 0 .. n
    BY <1>1, <1>4, <1>7
  <2>2. scan[j] # "found" /\ scan[j] # "argument" /\ scan[j] = AfterWord(scan[j - 1], args[j])
    <3>1. expects[j] = Expects(expects[j - 1], args[j]) /\ args[j].kind = "path"
      BY <1>3, <2>1
    <3>2. expects[j] = "word"
      BY <3>1 DEF Expects
    <3> QED
      BY <1>2, <1>6, <1>7, <2>1, <3>2
  <2>3. scan[j - 1] \in {"word", "command"}
    BY <1>6, <2>1
  <2> QED
    BY <2>2, <2>3 DEF AfterWord
<1>8. k \in commands
  <2>1. k - 1 \in 0 .. n /\ k - 1 < k /\ k \in DOMAIN args /\ args[k].kind = "path"
    BY <1>1, <1>4 DEF k
  <2>2. scan[k] = AfterWord(scan[k - 1], args[k])
    BY <1>2, <1>4
  <2>3. scan[k - 1] # "argument"
    BY <1>4, <2>2 DEF AfterWord
  <2> QED
    BY <1>6, <2>1, <2>3
<1>9. (CHOOSE j \in commands : \A i \in commands : j <= i) = k
  <2>1. \A i \in commands : i \in Nat /\ k <= i
    BY <1>1, <1>4, <1>7
  <2>2. \A j \in commands : (\A i \in commands : j <= i) => j = k
    BY <1>4, <1>8, <2>1
  <2> HIDE DEF commands
  <2> QED
    BY <1>8, <2>1, <2>2
<1> QED
  BY <1>3, <1>8, <1>9 DEF k, FirstName

\* The first word of a #! line is its interpreter unless that is env.
LEMMA NameOfWord ==
    ASSUME NEW words, InterpreterName(words) # None, words[1].name # "env"
    PROVE  InterpreterName(words) = words[1].name
  BY DEF InterpreterName

\* What an executable script of an audited package runs is a shell of the
\* base system or comes with the package or one it depends on.
THEOREM Interpreters == Spec => []ScriptsFindInterpreters
<1>1. ASSUME IInv, Vouched, NEW p \in Selected, NEW path \in Files(root[p]),
             root[p][path].data.magic = "script", Executable(root[p][path]),
             ~ IsPrefix(<<"usr", "share", "doc">>, path)
      PROVE  LET words == root[p][path].data.words
                 runs == IF words[1].name = "env" THEN EnvRuns(Tail(words))
                         ELSE words[1].name
             IN  \/ runs \in BaseInterpreters
                 \/ runs \in DOMAIN ProviderOf
                    /\ ProviderOf[runs] \in {p} \cup RuntimeDeps[p]
  <2> DEFINE words == root[p][path].data.words
             args == Tail(words)
             name == InterpreterName(words)
             W == Range(words)
  <2>1. IsContents(root[p][path].data) /\ path \in Seq(STRING)
    BY <1>1, VouchedFacts DEF IsTree, IsEntry, Files
  <2>2. ScriptOk(path, root[p][path].data, Executable(root[p][path]), p, RuntimeDeps[p])
    BY <1>1, VouchedFacts DEF ScriptsOk
  <2>3. ~ (Len(path) > 3 /\ SubSeq(path, 1, 3) = <<"usr", "share", "doc">>)
    <3> DEFINE doc == <<"usr", "share", "doc">>
    <3>1. doc \in Seq({"usr", "share", "doc"}) /\ Len(doc) = 3
      OBVIOUS
    <3>2. ~ IsPrefix(doc, path)
      BY <1>1
    <3> HIDE DEF doc
    <3>3. SubSeq(doc, 1, 3) = doc
      BY <3>1, SubSeqFull
    <3>4. Len(path) \in Nat
      BY <2>1, LenProperties
    <3>5. ~ (Len(path) > 3 /\ SubSeq(path, 1, 3) = doc)
      BY <3>1, <3>2, <3>3, <3>4 DEF IsPrefix
    <3> QED
      BY <3>5 DEF doc
  <2>4. /\ words # <<>> /\ name # None
        /\ \/ name \in BaseInterpreters
           \/ name \in DOMAIN ProviderOf /\ ProviderOf[name] \in {p} \cup RuntimeDeps[p]
    BY <1>1, <2>2, <2>3 DEF ScriptOk, ScriptRuntimeOk
  <2>5. words \in Seq(W) /\ \A word \in W : IsWord(word)
    BY <2>1 DEF IsContents
  <2> HIDE DEF words, W
  <2>6. CASE words[1].name # "env"
    BY <2>4, <2>6, NameOfWord DEF words
  <2>7. CASE words[1].name = "env"
    <3> DEFINE k == EnvCommand(args)
    <3>1. args \in Seq(W) /\ Len(args) \in Nat
      BY <2>4, <2>5, HeadTailProperties, LenProperties
    <3>2. k \in 1 .. Len(args) /\ name = args[k].name
      <4>1. ~(k > Len(args)) /\ name = args[k].name
        BY <2>4, <2>7 DEF InterpreterName
      <4>2. k \in 1 .. Len(args) + 1
        BY <3>1, EnvCommandStops
      <4> HIDE DEF k, args
      <4> QED
        BY <3>1, <4>1, <4>2
    <3>3. args[k] \in W
      BY <3>1, <3>2, ElementOfSeq
    <3>4. args[k].kind = "path"
      BY <2>4, <2>5, <3>2, <3>3 DEF IsWord
    <3>5. EnvRuns(args) = name
      BY <3>1, <3>2, <3>4, EnvAgrees, LenProperties
    <3> QED
      BY <2>4, <2>7, <3>5 DEF words
  <2> QED
    BY <2>6, <2>7
<1>2. IInv => ScriptsFindInterpreters
  BY <1>1 DEF ScriptsFindInterpreters
<1> QED
  BY <1>2, Invariance, PTL

-----------------------------------------------------------------------------
(* Where paths lead.                                                       *)

\* How far a path has come, of parts in S.
Stops(S) == [ok : BOOLEAN, dir : Seq(S)]
Walks(S) == [dir : Seq(S), parts : Seq(S)]

\* stops is the loop of Resolved.
Resolves(stops, dir, parts) ==
    /\ stops[0] = [ok |-> TRUE, dir |-> dir]
    /\ \A i \in 1 .. Len(parts) : stops[i] = AfterPart(stops[i - 1], parts[i])

TargetsOver(tree, S) == \A path \in Links(tree) : tree[path].target.parts \in Seq(S)

LEMMA DirOfFacts ==
    ASSUME NEW S, NEW path \in Seq(S), path # <<>>
    PROVE  /\ DirOf(path) \in Seq(S) /\ Len(DirOf(path)) = Len(path) - 1
           /\ \A i \in 1 .. Len(path) - 1 : DirOf(path)[i] = path[i]
<1>1. Len(path) \in Nat \ {0} /\ \A i \in 1 .. Len(path) : path[i] \in S
  BY EmptySeq, LenProperties, ElementOfSeq
<1>2. \A i \in 1 .. Len(path) - 1 : path[i] \in S
  BY <1>1
<1>3. Len(path) - 1 \in Int /\ 1 \in Int
  BY <1>1
<1> DEFINE n == Len(path) - 1
<1> HIDE DEF n
<1>4. /\ SubSeq(path, 1, n) \in Seq(S)
      /\ Len(SubSeq(path, 1, n)) = IF 1 <= n THEN n - 1 + 1 ELSE 0
      /\ \A i \in 1 .. n - 1 + 1 : SubSeq(path, 1, n)[i] = path[1 + i - 1]
  BY <1>2, <1>3, SubSeqProperties DEF n
<1>5. \A i \in 1 .. n : i \in 1 .. n - 1 + 1 /\ 1 + i - 1 = i
  BY <1>3 DEF n
<1>6. \A i \in 1 .. n : SubSeq(path, 1, n)[i] = path[i]
  BY <1>4, <1>5
<1>7. Len(SubSeq(path, 1, n)) = n
  <2>1. n \in Nat
    BY <1>1 DEF n
  <2> QED
    BY <1>4, <2>1
<1> QED
  BY <1>4, <1>6, <1>7 DEF DirOf, n

LEMMA AfterPartFacts ==
    ASSUME NEW S, NEW stop \in Stops(S), NEW part \in S
    PROVE  /\ AfterPart(stop, part) \in Stops(S)
           /\ part = "." => AfterPart(stop, part).dir = stop.dir
           /\ part = ".." =>
                AfterPart(stop, part).dir = IF stop.dir = <<>> THEN <<>> ELSE DirOf(stop.dir)
           /\ part \notin {".", ".."} => AfterPart(stop, part).dir = Append(stop.dir, part)
<1>1. stop.dir # <<>> => DirOf(stop.dir) \in Seq(S)
  BY DirOfFacts DEF Stops
<1>2. Append(stop.dir, part) \in Seq(S)
  BY AppendProperties DEF Stops
<1>3. CASE part = ".."
  BY <1>1, <1>3 DEF AfterPart, Stops
<1>4. CASE part = "."
  BY <1>4 DEF AfterPart, Stops
<1>5. CASE part \notin {".", ".."}
  <2>1. AfterPart(stop, part) = [stop EXCEPT !.dir = Append(stop.dir, part)]
    BY <1>5 DEF AfterPart
  <2> QED
    BY <1>2, <1>5, <2>1 DEF Stops
<1> QED
  BY <1>3, <1>4, <1>5

LEMMA AfterName ==
    ASSUME NEW S, NEW stop \in Stops(S), NEW part \in S, part \notin {".", ".."}
    PROVE  AfterPart(stop, part).dir = Append(stop.dir, part)
BY AfterPartFacts

\* The recursion of Resolved, as a function that exists.
LEMMA ResolvedRecursion ==
    ASSUME NEW S, NEW dir \in Seq(S), NEW parts \in Seq(S)
    PROVE  \E stops : /\ Resolves(stops, dir, parts)
                   /\ \A i \in 0 .. Len(parts) : stops[i] \in Stops(S)
                   /\ Resolved(dir, parts) = stops[Len(parts)]
<1> DEFINE n == Len(parts)
           v0 == [ok |-> TRUE, dir |-> dir]
           step == [q \in (1 .. n) \X Stops(S) |-> AfterPart(q[2], parts[q[1]])]
           Is(f) == f = [i \in 0 .. n |-> IF i = 0 THEN v0 ELSE AfterPart(f[i - 1], parts[i])]
<1>1. n \in Nat
  BY LenProperties
<1>2. v0 \in Stops(S) /\ step \in [(1 .. n) \X Stops(S) -> Stops(S)]
  <2>1. \A i \in 1 .. n, v \in Stops(S) : AfterPart(v, parts[i]) \in Stops(S)
    BY ElementOfSeq, AfterPartFacts
  <2> HIDE DEF n
  <2>2. step \in [(1 .. n) \X Stops(S) -> Stops(S)]
    BY <2>1
  <2> QED
    BY <2>2 DEF Stops
<1>3. PICK f \in [0 .. n -> Stops(S)] : Recursive(f, n, v0, step)
  <2> HIDE DEF step, n, v0
  <2> QED
    BY <1>1, <1>2, Recursion
<1>4. f[0] = v0 /\ \A i \in 1 .. n : f[i] = AfterPart(f[i - 1], parts[i])
  <2>0. f[0] = v0
    BY <1>3 DEF Recursive
  <2> SUFFICES \A i \in 1 .. n : f[i] = AfterPart(f[i - 1], parts[i])
    BY <2>0
  <2> TAKE i \in 1 .. n
  <2> HIDE DEF n, v0
  <2>1. i - 1 \in 0 .. n
    BY <1>1
  <2>2. f[i - 1] \in Stops(S)
    BY <1>3, <2>1
  <2> QED
    BY <1>3, <2>2 DEF Recursive
<1>5. Is(f)
  <2> HIDE DEF n, v0
  <2> QED
    BY <1>1, <1>3, <1>4
<1>6. PICK stops : Is(stops) /\ stops = CHOOSE g : Is(g)
  BY <1>5
<1>7. stops[0] = v0 /\ \A i \in 1 .. n : stops[i] = AfterPart(stops[i - 1], parts[i])
  <2> HIDE DEF n, v0
  <2>1. 0 \in 0 .. n /\ \A i \in 1 .. n : i \in 0 .. n /\ i # 0
    BY <1>1
  <2> QED
    BY <1>6, <2>1
<1>8. Resolved(dir, parts) = stops[n]
  BY <1>6 DEF Resolved
<1>9. \A i \in 0 .. n : stops[i] \in Stops(S)
  <2> DEFINE P == {i \in Nat : i <= n => stops[i] \in Stops(S)}
  <2> HIDE DEF n, v0
  <2>1. 0 \in P
    BY <1>2, <1>7
  <2>2. ASSUME NEW i \in Nat, i \in P
        PROVE  i + 1 \in P
    <3>1. SUFFICES ASSUME i + 1 <= n
                   PROVE  stops[i + 1] \in Stops(S)
      OBVIOUS
    <3>2. i + 1 \in 1 .. n /\ i <= n /\ (i + 1) - 1 = i
      BY <1>1, <3>1
    <3>3. stops[i + 1] = AfterPart(stops[i], parts[i + 1])
      BY <1>7, <3>2
    <3>4. parts[i + 1] \in S
      BY <3>2, ElementOfSeq DEF n
    <3> QED
      BY <2>2, <3>2, <3>3, <3>4, AfterPartFacts
  <2>3. Nat \subseteq P
    <3> HIDE DEF P
    <3> QED
      BY <2>1, <2>2, NatInduct
  <2>4. \A i \in 0 .. n : i \in Nat /\ i <= n
    BY <1>1
  <2> QED
    BY <2>3, <2>4
<1> QED
  BY <1>7, <1>8, <1>9 DEF Resolves

\* One turn of a walk, for each kind of part.
LEMMA WalkEnds ==
    ASSUME NEW tree, NEW walk, walk.parts = <<>>
    PROVE  WalkStep(tree, walk) = walk
BY DEF WalkStep

LEMMA WalkStays ==
    ASSUME NEW S, NEW tree, NEW walk \in Walks(S), walk.parts # <<>>, Head(walk.parts) = "."
    PROVE  WalkStep(tree, walk) = [dir |-> walk.dir, parts |-> Tail(walk.parts)]
<1>1. walk = [dir |-> walk.dir, parts |-> walk.parts]
  BY DEF Walks
<1>2. WalkStep(tree, walk) = [walk EXCEPT !.parts = Tail(walk.parts)]
  BY DEF WalkStep
<1> DEFINE rest == Tail(walk.parts)
<1> HIDE DEF rest
<1>3. [walk EXCEPT !.parts = rest] = [dir |-> walk.dir, parts |-> rest]
  BY <1>1
<1> QED
  BY <1>2, <1>3 DEF rest

LEMMA WalkGoesUp ==
    ASSUME NEW tree, NEW walk, walk.parts # <<>>, Head(walk.parts) = ".."
    PROVE  WalkStep(tree, walk) =
             [dir |-> IF walk.dir = <<>> THEN <<>> ELSE DirOf(walk.dir),
              parts |-> Tail(walk.parts)]
BY DEF WalkStep

LEMMA WalkGoesDown ==
    ASSUME NEW tree, NEW walk, walk.parts # <<>>, Head(walk.parts) \notin {".", ".."},
           Append(walk.dir, Head(walk.parts)) \notin Links(tree)
    PROVE  WalkStep(tree, walk) =
             [dir |-> Append(walk.dir, Head(walk.parts)), parts |-> Tail(walk.parts)]
BY DEF WalkStep

LEMMA WalkFollows ==
    ASSUME NEW tree, NEW walk, walk.parts # <<>>, Head(walk.parts) \notin {".", ".."},
           NEW next \in Links(tree), Append(walk.dir, Head(walk.parts)) = next
    PROVE  WalkStep(tree, walk) =
             [dir |-> IF tree[next].target.base = "rel" THEN walk.dir ELSE <<>>,
              parts |-> tree[next].target.parts \o Tail(walk.parts)]
BY DEF WalkStep

LEMMA WalkStepFacts ==
    ASSUME NEW S, NEW tree, TargetsOver(tree, S), NEW walk \in Walks(S)
    PROVE  WalkStep(tree, walk) \in Walks(S)
<1> DEFINE part == Head(walk.parts)
           rest == Tail(walk.parts)
           next == Append(walk.dir, part)
           end == WalkStep(tree, walk)
<1>0. /\ walk = [dir |-> walk.dir, parts |-> walk.parts]
      /\ walk.dir \in Seq(S) /\ walk.parts \in Seq(S) /\ <<>> \in Seq(S)
  BY EmptySeq DEF Walks
<1>1. CASE walk.parts = <<>>
  BY <1>1, WalkEnds
<1>2. ASSUME walk.parts # <<>>
      PROVE  part \in S /\ rest \in Seq(S) /\ next \in Seq(S)
  BY <1>0, <1>2, HeadTailProperties, AppendProperties
<1>3. CASE walk.parts # <<>> /\ part = "."
  <2>1. end = [dir |-> walk.dir, parts |-> rest]
    BY <1>3, WalkStays
  <2> HIDE DEF end, rest
  <2> QED
    BY <1>0, <1>2, <1>3, <2>1 DEF Walks, end
<1>4. CASE walk.parts # <<>> /\ part = ".."
  <2>1. end = [dir |-> IF walk.dir = <<>> THEN <<>> ELSE DirOf(walk.dir), parts |-> rest]
    BY <1>4, WalkGoesUp
  <2>2. walk.dir # <<>> => DirOf(walk.dir) \in Seq(S)
    BY <1>0, DirOfFacts
  <2>3. end \in Walks(S)
    <3> HIDE DEF end, rest
    <3> QED
      BY <1>0, <1>2, <1>4, <2>1, <2>2 DEF Walks
  <2> QED
    BY <2>3
<1>5. CASE walk.parts # <<>> /\ part \notin {".", ".."} /\ next \in Links(tree)
  <2>1. end = [dir |-> IF tree[next].target.base = "rel" THEN walk.dir ELSE <<>>,
               parts |-> tree[next].target.parts \o rest]
    BY <1>5, WalkFollows
  <2>2. tree[next].target.parts \in Seq(S)
    BY <1>5 DEF TargetsOver
  <2>3. end \in Walks(S)
    <3> HIDE DEF end, rest, next
    <3>1. tree[next].target.parts \o rest \in Seq(S)
      BY <1>2, <1>5, <2>2, ConcatProperties
    <3> QED
      BY <1>0, <2>1, <3>1 DEF Walks
  <2> QED
    BY <2>3
<1>6. CASE walk.parts # <<>> /\ part \notin {".", ".."} /\ next \notin Links(tree)
  <2>1. end = [dir |-> next, parts |-> rest]
    BY <1>6, WalkGoesDown
  <2>2. end \in Walks(S)
    <3> HIDE DEF end, rest, next
    <3> QED
      BY <1>2, <1>6, <2>1 DEF Walks
  <2> QED
    BY <2>2
<1> QED
  BY <1>1, <1>3, <1>4, <1>5, <1>6

\* turn is the loop of Walk.
Turns(parts) == Len(parts) + MaxDetour
WalksBy(turn, tree, dir, parts) ==
    /\ turn[0] = [dir |-> dir, parts |-> parts]
    /\ \A i \in 1 .. Turns(parts) : turn[i] = WalkStep(tree, turn[i - 1])

\* The recursion of Walk, as a function that exists.
LEMMA WalkRecursion ==
    ASSUME NEW S, NEW tree, TargetsOver(tree, S), NEW dir \in Seq(S), NEW parts \in Seq(S)
    PROVE  \E turn :
             /\ WalksBy(turn, tree, dir, parts)
             /\ \A i \in 0 .. Turns(parts) : turn[i] \in Walks(S)
             /\ LET end == turn[Turns(parts)]
                IN  Walk(tree, dir, parts) = IF end.parts = <<>> THEN end.dir ELSE Loop
<1> DEFINE n == Len(parts) + MaxDetour
           v0 == [dir |-> dir, parts |-> parts]
           step == [q \in (1 .. n) \X Walks(S) |-> WalkStep(tree, q[2])]
           Is(f) == f = [i \in 0 .. n |-> IF i = 0 THEN v0 ELSE WalkStep(tree, f[i - 1])]
<1>1. n \in Nat
  <2>1. Len(parts) \in Nat
    BY LenProperties
  <2> QED
    BY <2>1, AuditAssumption
<1>0. \A v \in Walks(S) : WalkStep(tree, v) \in Walks(S)
  BY WalkStepFacts
<1>2. v0 \in Walks(S) /\ step \in [(1 .. n) \X Walks(S) -> Walks(S)]
  <2> HIDE DEF n
  <2>2. step \in [(1 .. n) \X Walks(S) -> Walks(S)]
    BY <1>0
  <2> QED
    BY <2>2 DEF Walks
<1>3. PICK f \in [0 .. n -> Walks(S)] : Recursive(f, n, v0, step)
  <2> HIDE DEF step, n, v0
  <2> QED
    BY <1>1, <1>2, Recursion
<1>4. f[0] = v0 /\ \A i \in 1 .. n : f[i] = WalkStep(tree, f[i - 1])
  <2>0. f[0] = v0
    BY <1>3 DEF Recursive
  <2> SUFFICES \A i \in 1 .. n : f[i] = WalkStep(tree, f[i - 1])
    BY <2>0
  <2> TAKE i \in 1 .. n
  <2> HIDE DEF n, v0
  <2>1. i - 1 \in 0 .. n
    BY <1>1
  <2>2. f[i - 1] \in Walks(S)
    BY <1>3, <2>1
  <2> QED
    BY <1>3, <2>2 DEF Recursive
<1>5. Is(f)
  <2> HIDE DEF n, v0
  <2> QED
    BY <1>1, <1>3, <1>4
<1>6. PICK turn : Is(turn) /\ turn = CHOOSE g : Is(g)
  BY <1>5
<1>7. turn[0] = v0 /\ \A i \in 1 .. n : turn[i] = WalkStep(tree, turn[i - 1])
  <2> HIDE DEF n, v0
  <2>1. 0 \in 0 .. n /\ \A i \in 1 .. n : i \in 0 .. n /\ i # 0
    BY <1>1
  <2> QED
    BY <1>6, <2>1
<1>8. Walk(tree, dir, parts) = IF turn[n].parts = <<>> THEN turn[n].dir ELSE Loop
  <2> DEFINE g == CHOOSE g : Is(g)
  <2>1. Walk(tree, dir, parts) = IF g[n].parts = <<>> THEN g[n].dir ELSE Loop
    BY Zenon DEF Walk
  <2> HIDE DEF n, v0
  <2> QED
    BY <1>6, <2>1
<1>9. \A i \in 0 .. n : turn[i] \in Walks(S)
  <2> DEFINE P == {i \in Nat : i <= n => turn[i] \in Walks(S)}
  <2> HIDE DEF n, v0
  <2>1. 0 \in P
    BY <1>2, <1>7
  <2>2. ASSUME NEW i \in Nat, i \in P
        PROVE  i + 1 \in P
    <3>1. SUFFICES ASSUME i + 1 <= n
                   PROVE  turn[i + 1] \in Walks(S)
      OBVIOUS
    <3>2. i + 1 \in 1 .. n /\ i <= n /\ (i + 1) - 1 = i
      BY <1>1, <3>1
    <3>3. turn[i + 1] = WalkStep(tree, turn[i])
      BY <1>7, <3>2
    <3> QED
      BY <1>0, <2>2, <3>2, <3>3
  <2>3. Nat \subseteq P
    <3> HIDE DEF P
    <3> QED
      BY <2>1, <2>2, NatInduct
  <2>4. \A i \in 0 .. n : i \in Nat /\ i <= n
    BY <1>1
  <2> QED
    BY <2>3, <2>4
<1> QED
  BY <1>7, <1>8, <1>9 DEF WalksBy, Turns

\* What is left of a path after i of its parts, one part later.
LEMMA RestOfPath ==
    ASSUME NEW S, NEW parts \in Seq(S), NEW i \in 1 .. Len(parts)
    PROVE  /\ SubSeq(parts, i, Len(parts)) \in Seq(S)
           /\ SubSeq(parts, i, Len(parts)) # <<>>
           /\ Head(SubSeq(parts, i, Len(parts))) = parts[i]
           /\ Tail(SubSeq(parts, i, Len(parts))) = SubSeq(parts, i + 1, Len(parts))
<1>1. Len(parts) \in Nat /\ \A j \in 1 .. Len(parts) : parts[j] \in S
  BY LenProperties, ElementOfSeq
<1> DEFINE n == Len(parts)
           rest == SubSeq(parts, i, n)
<1>2. i \in Int /\ n \in Int /\ i <= n /\ n \in i .. n /\ \A j \in i .. n : parts[j] \in S
  BY <1>1
<1>3. Head(rest) = parts[i] /\ Tail(rest) = SubSeq(parts, i + 1, n)
  BY <1>2, HeadTailOfSubSeq
<1>4. rest \in Seq(S) /\ Len(rest) = n - i + 1
  <2> HIDE DEF n
  <2> QED
    BY <1>2, SubSeqProperties
<1>5. rest # <<>>
  <2> HIDE DEF n, rest
  <2> QED
    BY <1>1, <1>2, <1>4, EmptySeq
<1> QED
  BY <1>3, <1>4, <1>5

\* A walk that meets no link ends where the parts of the path lead.
LEMMA WalkIsResolved ==
    ASSUME NEW S, NEW tree, TargetsOver(tree, S), NEW dir \in Seq(S), NEW parts \in Seq(S),
           NEW stops, Resolves(stops, dir, parts), \A i \in 0 .. Len(parts) : stops[i] \in Stops(S),
           \A i \in 1 .. Len(parts) : stops[i].dir \notin Links(tree)
    PROVE  Walk(tree, dir, parts) = stops[Len(parts)].dir
<1> DEFINE n == Len(parts)
           N == Turns(parts)
           There(i) == [dir |-> stops[IF i <= n THEN i ELSE n].dir, parts |-> SubSeq(parts, i + 1, n)]
<1>1. PICK turn :
             /\ WalksBy(turn, tree, dir, parts)
             /\ \A i \in 0 .. N : turn[i] \in Walks(S)
             /\ LET end == turn[N]
                IN  Walk(tree, dir, parts) = IF end.parts = <<>> THEN end.dir ELSE Loop
  BY WalkRecursion
<1>2. n \in Nat /\ N \in Nat /\ n <= N
  BY LenProperties, AuditAssumption DEF Turns
<1>3. turn[0] = There(0)
  <2>1. SubSeq(parts, 1, n) = parts
    BY SubSeqFull
  <2>2. turn[0] = [dir |-> dir, parts |-> parts] /\ stops[0].dir = dir
    BY <1>1 DEF WalksBy, Resolves
  <2>3. There(0) = [dir |-> dir, parts |-> parts]
    <3>1. 0 + 1 = 1 /\ (IF 0 <= n THEN 0 ELSE n) = 0
      BY <1>2
    <3> HIDE DEF n
    <3> QED
      BY <2>1, <2>2, <3>1
  <2> HIDE DEF n, There
  <2> QED
    BY <2>2, <2>3
<1>4. ASSUME NEW i \in 0 .. N - 1, turn[i] = There(i)
      PROVE  turn[i + 1] = There(i + 1)
  <2>1. turn[i + 1] = WalkStep(tree, turn[i]) /\ turn[i] \in Walks(S)
    <3>1. i + 1 \in 1 .. N /\ (i + 1) - 1 = i /\ i \in 0 .. N
      BY <1>2
    <3> QED
      BY <1>1, <3>1 DEF WalksBy
  <2>2. CASE i >= n
    <3>1. SubSeq(parts, i + 1, n) = <<>> /\ SubSeq(parts, i + 2, n) = <<>>
      <4> HIDE DEF n
      <4>1. i + 1 \in Int /\ i + 2 \in Int /\ n < i + 1 /\ n < i + 2
        BY <1>2, <2>2
      <4> QED
        BY <1>2, <4>1, SubSeqEmpty
    <3>2. turn[i].parts = <<>>
      BY <1>4, <3>1
    <3>3. turn[i + 1] = turn[i]
      <4> DEFINE here == turn[i]
      <4> HIDE DEF here
      <4>1. here \in Walks(S) /\ here.parts = <<>>
        BY <2>1, <3>2 DEF here
      <4>2. WalkStep(tree, here) = here
        BY <4>1, WalkEnds
      <4> QED
        BY <2>1, <4>2 DEF here
    <3>4. (IF i <= n THEN i ELSE n) = n /\ (IF i + 1 <= n THEN i + 1 ELSE n) = n
          /\ (i + 1) + 1 = i + 2
      <4> HIDE DEF n
      <4> QED
        BY <1>2, <2>2
    <3> QED
      BY <1>4, <3>1, <3>3, <3>4
  <2>3. CASE i < n
    <3> DEFINE part == parts[i + 1]
               rest == SubSeq(parts, i + 2, n)
    <3>1. i + 1 \in 1 .. n /\ i \in 0 .. n /\ (i + 1) - 1 = i /\ (i + 1) + 1 = i + 2
          /\ i <= n /\ i + 1 <= n
      <4> HIDE DEF n
      <4> QED
        BY <1>2, <2>3
    <3>2. Head(turn[i].parts) = part /\ Tail(turn[i].parts) = rest /\ turn[i].parts # <<>>
      BY <1>4, <3>1, RestOfPath
    <3>3. turn[i].dir = stops[i].dir /\ stops[i] \in Stops(S) /\ part \in S
      BY <1>4, <3>1, ElementOfSeq
    <3>4. stops[i + 1] = AfterPart(stops[i], part) /\ stops[i + 1].dir \notin Links(tree)
      BY <3>1 DEF Resolves
    <3> HIDE DEF part, rest, n
    <3>5. turn[i + 1] = [dir |-> stops[i + 1].dir, parts |-> rest]
      <4> DEFINE here == turn[i]
                 stop == stops[i]
      <4> HIDE DEF here, stop
      <4>0. /\ here \in Walks(S) /\ here.parts # <<>> /\ stop \in Stops(S)
            /\ Head(here.parts) = part /\ Tail(here.parts) = rest /\ here.dir = stop.dir
            /\ turn[i + 1] = WalkStep(tree, here) /\ stops[i + 1] = AfterPart(stop, part)
        BY <2>1, <3>2, <3>3, <3>4 DEF here, stop
      <4>1. CASE part = "."
        <5>1. WalkStep(tree, here) = [dir |-> here.dir, parts |-> rest]
          BY <4>0, <4>1, WalkStays
        <5>2. AfterPart(stop, part).dir = stop.dir
          BY <3>3, <4>0, <4>1, AfterPartFacts
        <5> QED
          BY <4>0, <5>1, <5>2
      <4>2. CASE part = ".."
        <5>1. WalkStep(tree, here) =
                [dir |-> IF here.dir = <<>> THEN <<>> ELSE DirOf(here.dir), parts |-> rest]
          BY <4>0, <4>2, WalkGoesUp
        <5>2. AfterPart(stop, part).dir = IF stop.dir = <<>> THEN <<>> ELSE DirOf(stop.dir)
          BY <3>3, <4>0, <4>2, AfterPartFacts
        <5> QED
          BY <4>0, <5>1, <5>2
      <4>3. CASE part \notin {".", ".."}
        <5>1. AfterPart(stop, part).dir = Append(stop.dir, part)
          BY <3>3, <4>0, <4>3, AfterPartFacts
        <5>2. Append(here.dir, part) \notin Links(tree)
          BY <3>4, <4>0, <5>1
        <5>3. WalkStep(tree, here) = [dir |-> Append(here.dir, part), parts |-> rest]
          BY <4>0, <4>3, <5>2, WalkGoesDown
        <5> QED
          BY <4>0, <5>1, <5>3
      <4> QED
        BY <4>1, <4>2, <4>3
    <3> QED
      BY <3>1, <3>5 DEF rest
  <2> QED
    BY <1>2, <2>2, <2>3
<1>5. turn[N] = There(N)
  <2> DEFINE P == {i \in Nat : i <= N => turn[i] = There(i)}
  <2> HIDE DEF n, N, There
  <2>1. 0 \in P
    BY <1>3
  <2>2. ASSUME NEW i \in Nat, i \in P
        PROVE  i + 1 \in P
    <3>1. i + 1 <= N => i \in 0 .. N - 1 /\ i <= N
      BY <1>2
    <3> QED
      BY <1>4, <2>2, <3>1
  <2>3. Nat \subseteq P
    <3> HIDE DEF P
    <3> QED
      BY <2>1, <2>2, NatInduct
  <2>4. N \in P /\ N <= N
    BY <1>2, <2>3
  <2> QED
    BY <2>4
<1>6. There(N) = [dir |-> stops[n].dir, parts |-> <<>>]
  <2> HIDE DEF n, N
  <2>1. N + 1 \in Int /\ n < N + 1 /\ (IF N <= n THEN N ELSE n) = n
    BY <1>2
  <2>2. SubSeq(parts, N + 1, n) = <<>>
    BY <1>2, <2>1, SubSeqEmpty
  <2> QED
    BY <2>1, <2>2
<1>7. turn[N].parts = <<>> /\ turn[N].dir = stops[n].dir
  <2> HIDE DEF n, N, There
  <2> QED
    BY <1>5, <1>6
<1> QED
  <2> HIDE DEF n, N, There
  <2>1. Walk(tree, dir, parts) = IF turn[N].parts = <<>> THEN turn[N].dir ELSE Loop
    BY <1>1
  <2>2. Walk(tree, dir, parts) = stops[n].dir
    BY <1>7, <2>1
  <2> QED
    BY <2>2 DEF n

LEMMA AppendToConcat ==
    ASSUME NEW S, NEW a \in Seq(S), NEW b \in Seq(S), NEW x \in S
    PROVE  Append(a \o b, x) = a \o (b \o <<x>>)
<1>1. \A c \in Seq(S) : (a \o b) \o c = a \o (b \o c)
  BY ConcatAssociative, SMTT(20)
<1>2. <<x>> \in Seq(S)
  OBVIOUS
<1>3. (a \o b) \o <<x>> = a \o (b \o <<x>>)
  BY <1>1, <1>2, Zenon
<1>4. a \o b \in Seq(S)
  BY ConcatProperties
<1>5. Append(a \o b, x) = (a \o b) \o <<x>>
  BY <1>4, AppendIsConcat
<1> QED
  BY <1>3, <1>5

\* Parts that are no dots are appended.
LEMMA ResolvedPlain ==
    ASSUME NEW S, NEW dir \in Seq(S), NEW parts \in Seq(S),
           NEW stops, Resolves(stops, dir, parts), \A i \in 0 .. Len(parts) : stops[i] \in Stops(S),
           \A i \in DOMAIN parts : parts[i] \notin {".", ".."}
    PROVE  \A i \in 0 .. Len(parts) : stops[i].dir = dir \o SubSeq(parts, 1, i)
<1> DEFINE n == Len(parts)
           P == {i \in Nat : i <= n => stops[i].dir = dir \o SubSeq(parts, 1, i)}
<1>1. n \in Nat /\ DOMAIN parts = 1 .. n
  BY LenProperties
<1>2. 0 \in P
  <2>1. SubSeq(parts, 1, 0) = <<>>
    BY SubSeqEmpty
  <2>2. stops[0].dir = dir /\ dir \o <<>> = dir
    BY ConcatEmptySeq DEF Resolves
  <2> HIDE DEF n
  <2> QED
    BY <2>1, <2>2
<1>3. ASSUME NEW i \in Nat, i \in P
      PROVE  i + 1 \in P
  <2>1. SUFFICES ASSUME i + 1 <= n
                 PROVE  stops[i + 1].dir = dir \o SubSeq(parts, 1, i + 1)
    OBVIOUS
  <2>2. i + 1 \in 1 .. n /\ i \in 0 .. n /\ (i + 1) - 1 = i /\ i <= n
    <3> HIDE DEF n
    <3> QED
      BY <1>1, <2>1
  <2>3. stops[i].dir = dir \o SubSeq(parts, 1, i) /\ stops[i] \in Stops(S)
    BY <1>3, <2>2
  <2>4. parts[i + 1] \in S /\ parts[i + 1] \notin {".", ".."}
    BY <1>1, <2>2, ElementOfSeq
  <2>5. stops[i + 1].dir = Append(stops[i].dir, parts[i + 1])
    <3>1. stops[i + 1] = AfterPart(stops[i], parts[i + 1])
      BY <2>2 DEF Resolves
    <3> DEFINE stop == stops[i]
               part == parts[i + 1]
    <3> HIDE DEF stop, part
    <3>2. stop \in Stops(S) /\ part \in S /\ part \notin {".", ".."}
      BY <2>3, <2>4 DEF stop, part
    <3>3. AfterPart(stop, part).dir = Append(stop.dir, part)
      BY <3>2, AfterPartFacts
    <3> QED
      BY <3>1, <3>3 DEF stop, part
  <2> DEFINE before == SubSeq(parts, 1, i)
             part == parts[i + 1]
  <2>6. SubSeq(parts, 1, i + 1) = before \o <<part>> /\ before \in Seq(S)
    <3>1. 1 \in 1 .. n /\ i + 1 \in 1 .. n
      <4> HIDE DEF n
      <4> QED
        BY <1>1, <2>2
    <3>2. SubSeq(parts, 1, i + 1) = SubSeq(parts, 1, i + 1 - 1) \o <<parts[i + 1]>>
      BY <3>1, SubSeqRecursiveSecond
    <3>3. \A j \in 1 .. i : parts[j] \in S
      <4>1. \A j \in 1 .. i : j \in 1 .. n
        <5> HIDE DEF n
        <5> QED
          BY <1>1, <2>2
      <4> QED
        BY <4>1, ElementOfSeq
    <3>4. before \in Seq(S)
      BY <3>3, SubSeqProperties
    <3> QED
      BY <2>2, <3>2, <3>4
  <2> HIDE DEF before, part, n
  <2>7. Append(dir \o before, part) = dir \o (before \o <<part>>)
    <3>1. part \in S
      BY <2>4 DEF part
    <3> QED
      BY <2>6, <3>1, AppendToConcat
  <2> QED
    BY <2>3, <2>5, <2>6, <2>7 DEF before, part
<1>4. Nat \subseteq P
  <2> HIDE DEF P
  <2> QED
    BY <1>2, <1>3, NatInduct
<1>5. \A i \in 0 .. n : i \in Nat /\ i <= n
  <2> HIDE DEF n
  <2> QED
    BY <1>1
<1> QED
  BY <1>4, <1>5

\* No part of the path is a dot, and on its way from dir there is no link.
IsPlain(tree, dir, parts) ==
    /\ \A i \in DOMAIN parts : parts[i] \notin {".", ".."}
    /\ \A i \in 1 .. Len(parts) : dir \o SubSeq(parts, 1, i) \notin Links(tree)

\* Where such a path leads: there.
LEMMA PlainWalk ==
    ASSUME NEW S, NEW tree, TargetsOver(tree, S), NEW dir \in Seq(S), NEW parts \in Seq(S),
           IsPlain(tree, dir, parts)
    PROVE  Walk(tree, dir, parts) = dir \o parts
<1>0. /\ \A i \in DOMAIN parts : parts[i] \notin {".", ".."}
      /\ \A i \in 1 .. Len(parts) : dir \o SubSeq(parts, 1, i) \notin Links(tree)
  BY DEF IsPlain
<1>1. PICK stops : Resolves(stops, dir, parts) /\ \A i \in 0 .. Len(parts) : stops[i] \in Stops(S)
  BY ResolvedRecursion
<1>2. \A i \in 0 .. Len(parts) : stops[i].dir = dir \o SubSeq(parts, 1, i)
  BY <1>0, <1>1, ResolvedPlain
<1>3. Len(parts) \in Nat /\ SubSeq(parts, 1, Len(parts)) = parts
  BY LenProperties, SubSeqFull
<1>4. \A i \in 1 .. Len(parts) : i \in 0 .. Len(parts)
  BY <1>3
<1>5. \A i \in 1 .. Len(parts) : stops[i].dir \notin Links(tree)
  BY <1>0, <1>2, <1>4
<1>6. Walk(tree, dir, parts) = stops[Len(parts)].dir
  BY <1>1, <1>5, WalkIsResolved
<1>7. Len(parts) \in 0 .. Len(parts)
  BY <1>3
<1> QED
  BY <1>2, <1>3, <1>6, <1>7

\* In a tree without links a run path that the audit accepts leads into the
\* library directories, from wherever the file is.
LEMMA ComponentIsSearched ==
    ASSUME NEW tree, Links(tree) = {}, NEW dir \in Seq(STRING), NEW component,
           component.parts \in Seq(STRING), RuntimeComponentOk(dir, component)
    PROVE  InRuntimeTree(Walk(tree, IF component.base = "origin" THEN dir ELSE <<>>,
                              component.parts))
<1> DEFINE parts == component.parts
<1>1. TargetsOver(tree, STRING) /\ <<>> \in Seq(STRING)
  BY EmptySeq DEF TargetsOver
<1>2. component.base \in {"origin", "abs"}
  BY DEF RuntimeComponentOk
<1>3. CASE component.base = "origin"
  <2>1. InRuntimeTree(Resolved(dir, parts).dir)
    BY <1>3 DEF RuntimeComponentOk
  <2>2. PICK stops : /\ Resolves(stops, dir, parts)
                  /\ \A i \in 0 .. Len(parts) : stops[i] \in Stops(STRING)
                  /\ Resolved(dir, parts) = stops[Len(parts)]
    BY ResolvedRecursion
  <2>3. Walk(tree, dir, parts) = stops[Len(parts)].dir
    BY <1>1, <2>2, WalkIsResolved
  <2> HIDE DEF parts
  <2> QED
    BY <1>3, <2>1, <2>2, <2>3 DEF parts
<1>4. CASE component.base = "abs"
  <2>1. InRuntimeTree(parts) /\ \A i \in DOMAIN parts : parts[i] \notin {".", ".."}
    BY <1>4 DEF RuntimeComponentOk
  <2>2. Walk(tree, <<>>, parts) = <<>> \o parts
    <3>1. IsPlain(tree, <<>>, parts)
      BY <2>1 DEF IsPlain
    <3> HIDE DEF parts
    <3>2. parts \in Seq(STRING)
      BY DEF parts
    <3> QED
      BY <1>1, <3>1, <3>2, PlainWalk
  <2>3. <<>> \o parts = parts
    BY ConcatEmptySeq
  <2> HIDE DEF parts
  <2> QED
    BY <1>4, <2>1, <2>2, <2>3 DEF parts
<1> QED
  BY <1>2, <1>3, <1>4

\* Audited ELF files are searched for libraries in the target's library
\* directories, name the target's loader and have no executable stack.
THEOREM Programs == Spec => []ProgramsLoadFromTarget
<1>1. ASSUME IInv, Vouched, NEW p \in Selected, NEW path \in Files(root[p]),
             root[p][path].data.magic = "elf"
      PROVE  LET elf == root[p][path].data.elf
                 searched(component) ==
                   Walk(root[p], IF component.base = "origin" THEN DirOf(path) ELSE <<>>,
                        component.parts)
             IN  /\ Links(root[p]) = {} =>
                      \A k \in DOMAIN elf.paths : InRuntimeTree(searched(elf.paths[k]))
                 /\ elf.types \cap {"DYN", "EXEC"} # {} => elf.stack # "executable"
                 /\ "EXEC" \in elf.types /\ elf.needed # <<>> => elf.interps = <<"musl">>
  <2> DEFINE file == root[p][path].data
             elf == file.elf
  <2>1. IsContents(file) /\ path \in Seq(STRING) /\ path # <<>>
    BY <1>1, VouchedFacts DEF IsTree, IsEntry, Files
  <2>2. DynamicOk(path, file) /\ ProgramHeadersOk(file, Executable(root[p][path]))
    <3>1. FormatOk(path, file, Executable(root[p][path]))
      BY <1>1, VouchedFacts DEF FormatsOk
    <3> QED
      BY <1>1, <3>1 DEF FormatOk
  <2>3. ASSUME Links(root[p]) = {}, NEW k \in DOMAIN elf.paths
        PROVE  InRuntimeTree(Walk(root[p], IF elf.paths[k].base = "origin"
                                           THEN DirOf(path) ELSE <<>>,
                                  elf.paths[k].parts))
    <3> DEFINE component == elf.paths[k]
    <3>1. RuntimeComponentOk(DirOf(path), component)
      BY <2>2 DEF DynamicOk
    <3>2. component.parts \in Seq(STRING) /\ DirOf(path) \in Seq(STRING)
      BY <2>1, DirOfFacts DEF IsContents
    <3> HIDE DEF component
    <3>3. InRuntimeTree(Walk(root[p], IF component.base = "origin" THEN DirOf(path) ELSE <<>>,
                             component.parts))
      BY <2>3, <3>1, <3>2, ComponentIsSearched
    <3> QED
      BY <3>3 DEF component
  <2>4. elf.types \cap {"DYN", "EXEC"} # {} => elf.stack # "executable"
    BY <2>2 DEF ProgramHeadersOk
  <2>5. ASSUME "EXEC" \in elf.types, elf.needed # <<>>
        PROVE  elf.interps = <<"musl">>
    <3>1. elf.types \cap {"DYN", "EXEC"} # {}
      BY <2>5
    <3>2. /\ Len(elf.interps) <= 1 /\ elf.interps # <<>>
          /\ \A k \in DOMAIN elf.interps : elf.interps[k] = "musl"
      BY <2>2, <2>5, <3>1 DEF ProgramHeadersOk
    <3>3. elf.interps \in Seq(STRING)
      BY <2>1 DEF IsContents
    <3> DEFINE interps == elf.interps
    <3> HIDE DEF interps
    <3>4. interps \in Seq(STRING) /\ interps # <<>> /\ Len(interps) <= 1
          /\ \A k \in DOMAIN interps : interps[k] = "musl"
      BY <3>2, <3>3 DEF interps
    <3>5. Len(interps) = 1 /\ interps[1] = "musl"
      <4>1. Len(interps) \in Nat /\ DOMAIN interps = 1 .. Len(interps)
        BY <3>4, LenProperties
      <4>2. Len(interps) # 0
        BY <3>4, EmptySeq
      <4>3. Len(interps) = 1 /\ 1 \in DOMAIN interps
        BY <3>4, <4>1, <4>2
      <4> QED
        BY <3>4, <4>3
    <3>6. interps = <<"musl">>
      BY <3>4, <3>5
    <3> QED
      BY <3>6 DEF interps
  <2> QED
    BY <2>3, <2>4, <2>5
<1>2. IInv => ProgramsLoadFromTarget
  BY <1>1 DEF ProgramsLoadFromTarget
<1> QED
  BY <1>2, Invariance, PTL

-----------------------------------------------------------------------------
(* Installing an audited archive.                                          *)

\* Above a path of a directory tree there are directories.
LEMMA Ancestors ==
    ASSUME NEW tree, IsTree(tree), NEW path \in DOMAIN tree
    PROVE  \A i \in 1 .. Len(path) - 1 :
             SubSeq(path, 1, i) \in DOMAIN tree /\ tree[SubSeq(path, 1, i)].kind = "directory"
<1> DEFINE n == Len(path)
           IsDir(q) == q \in DOMAIN tree /\ tree[q].kind = "directory"
           P == {d \in Nat : 1 <= d /\ d < n => IsDir(SubSeq(path, 1, n - d))}
<1>1. path \in Seq(STRING) /\ path # <<>> /\ n \in Nat \ {0}
  BY LenProperties, EmptySeq DEF IsTree
<1>2. ASSUME NEW q \in DOMAIN tree, Len(q) > 1
      PROVE  IsDir(DirOf(q))
  BY <1>2 DEF IsTree
<1>3. 0 \in P
  <2> HIDE DEF n, IsDir
  <2> QED
    OBVIOUS
<1>4. ASSUME NEW d \in Nat, d \in P
      PROVE  d + 1 \in P
  <2>1. SUFFICES ASSUME d + 1 < n
                 PROVE  IsDir(SubSeq(path, 1, n - (d + 1)))
    OBVIOUS
  <2>2. CASE d = 0
    BY <1>2, <2>1, <2>2 DEF DirOf
  <2>3. CASE d > 0
    <3> DEFINE q == SubSeq(path, 1, n - d)
    <3>1. n - d \in 1 .. n /\ n - d > 1 /\ d < n /\ 1 <= d /\ n - d - 1 = n - (d + 1)
          /\ n - d - 1 \in 1 .. (n - d - 1) + 1
      <4> HIDE DEF n
      <4> QED
        BY <1>1, <2>1, <2>3
    <3>2. IsDir(q)
      <4> HIDE DEF IsDir, n
      <4> QED
        BY <1>4, <3>1
    <3>3. Len(q) = n - d
      <4>1. \A i \in 1 .. n - d : path[i] \in STRING
        <5>1. \A i \in 1 .. n - d : i \in 1 .. n
          <6> HIDE DEF n
          <6> QED
            BY <1>1, <3>1
        <5> QED
          BY <1>1, <5>1, ElementOfSeq
      <4> DEFINE m == n - d
      <4>2. m \in Int /\ 1 \in Int /\ 1 <= m
        <5> HIDE DEF n
        <5> QED
          BY <3>1
      <4> HIDE DEF m
      <4>3. Len(SubSeq(path, 1, m)) = IF 1 <= m THEN m - 1 + 1 ELSE 0
        BY <4>1, <4>2, SubSeqProperties DEF m
      <4>4. Len(SubSeq(path, 1, m)) = m
        BY <4>2, <4>3
      <4> QED
        BY <4>4 DEF m
    <3>4. DirOf(q) = SubSeq(path, 1, n - (d + 1))
      <4> DEFINE m == n - d
      <4>1. 1 \in 1 .. n /\ m \in 1 .. n /\ 1 \in 1 .. m - 1 + 1 /\ m - 1 \in 1 .. m - 1 + 1
            /\ 1 + 1 - 1 = 1 /\ 1 + (m - 1) - 1 = m - 1
        <5> HIDE DEF n
        <5> QED
          BY <1>1, <3>1
      <4> HIDE DEF m
      <4>2. SubSeq(SubSeq(path, 1, m), 1, m - 1) = SubSeq(path, 1 + 1 - 1, 1 + (m - 1) - 1)
        BY <1>1, <4>1, SubSeqOfSubSeq
      <4>3. SubSeq(SubSeq(path, 1, m), 1, m - 1) = SubSeq(path, 1, m - 1)
        BY <4>1, <4>2
      <4>4. DirOf(q) = SubSeq(SubSeq(path, 1, m), 1, m - 1)
        BY <3>3 DEF DirOf, m
      <4>5. m - 1 = n - (d + 1)
        BY <3>1 DEF m
      <4> QED
        BY <4>3, <4>4, <4>5
    <3>5. q \in DOMAIN tree /\ Len(q) > 1
      BY <3>1, <3>2, <3>3
    <3>6. IsDir(DirOf(q))
      <4> HIDE DEF q, IsDir
      <4> QED
        BY <1>2, <3>5
    <3> QED
      BY <3>4, <3>6
  <2> QED
    BY <2>2, <2>3
<1>5. Nat \subseteq P
  <2> HIDE DEF P
  <2> QED
    BY <1>3, <1>4, NatInduct
<1>6. ASSUME NEW i \in 1 .. n - 1
      PROVE  IsDir(SubSeq(path, 1, i))
  <2>1. n - i \in Nat /\ 1 <= n - i /\ n - i < n /\ n - (n - i) = i
    <3> HIDE DEF n
    <3> QED
      BY <1>1
  <2>2. n - i \in P
    BY <1>5, <2>1
  <2> HIDE DEF n, IsDir
  <2> QED
    BY <2>1, <2>2
<1> QED
  BY <1>6

\* A path is its directory and its last part.
LEMMA LastOfPath ==
    ASSUME NEW S, NEW path \in Seq(S), path # <<>>
    PROVE  /\ Last(path) \in S /\ DirOf(path) \in Seq(S)
           /\ Append(DirOf(path), Last(path)) = path
           /\ DirOf(path) \o <<Last(path)>> = path
           /\ \A i \in 1 .. Len(path) - 1 : SubSeq(DirOf(path), 1, i) = SubSeq(path, 1, i)
           /\ \A i \in 1 .. Len(path) - 1 : DirOf(path)[i] = path[i]
<1> DEFINE n == Len(path)
<1>1. n \in Nat \ {0} /\ n \in 1 .. n /\ 1 \in 1 .. n
  BY EmptySeq, LenProperties
<1>2. Last(path) \in S
  BY <1>1, ElementOfSeq DEF Last
<1>3. DirOf(path) \in Seq(S)
  BY DirOfFacts
<1>4. DirOf(path) \o <<Last(path)>> = path
  <2>1. SubSeq(path, 1, n) = SubSeq(path, 1, n - 1) \o <<path[n]>>
    BY <1>1, SubSeqRecursiveSecond
  <2> QED
    BY <2>1, SubSeqFull DEF DirOf, Last
<1>5. Append(DirOf(path), Last(path)) = DirOf(path) \o <<Last(path)>>
  BY <1>2, <1>3, AppendIsConcat
<1>6. ASSUME NEW i \in 1 .. n - 1
      PROVE  SubSeq(DirOf(path), 1, i) = SubSeq(path, 1, i)
  <2>1. 1 \in 1 .. n /\ n - 1 \in 1 .. n /\ 1 \in 1 .. n - 1 - 1 + 1 /\ i \in 1 .. n - 1 - 1 + 1
        /\ 1 + 1 - 1 = 1 /\ 1 + i - 1 = i
    <3> HIDE DEF n
    <3> QED
      BY <1>1
  <2>2. SubSeq(SubSeq(path, 1, n - 1), 1, i) = SubSeq(path, 1 + 1 - 1, 1 + i - 1)
    <3> HIDE DEF n
    <3> QED
      BY <1>1, <2>1, SubSeqOfSubSeq DEF n
  <2> QED
    BY <2>1, <2>2 DEF DirOf
<1> QED
  BY <1>2, <1>3, <1>4, <1>5, <1>6, DirOfFacts

LEMMA OnePart ==
    ASSUME NEW S, NEW part \in S
    PROVE  /\ <<part>> \in Seq(S) /\ Len(<<part>>) = 1 /\ DOMAIN <<part>> = 1 .. 1
           /\ <<part>>[1] = part /\ <<part>> # <<>>
           /\ Head(<<part>>) = part /\ Tail(<<part>>) = <<>>
OBVIOUS

\* disk holds some of the paths of a tree.
IsPartOf(disk, tree) == \A q \in DOMAIN disk : q \in DOMAIN tree /\ disk[q] = tree[q]

\* On a disk that holds a part of a tree a path of that tree is where its name
\* says: what is above it is no link.
LEMMA PathOnDisk ==
    ASSUME NEW tree, IsTree(tree), NEW disk, IsPartOf(disk, tree), NEW path \in DOMAIN tree
    PROVE  /\ Place(disk, path) = path
           /\ path \notin Links(disk) => /\ Physical(disk, path) = path
                                         /\ Walk(disk, DirOf(path), <<Last(path)>>) = path
<1> DEFINE dir == DirOf(path)
           last == Last(path)
           n == Len(path)
<1>1. path \in Seq(STRING) /\ path # <<>> /\ n \in Nat \ {0} /\ DOMAIN path = 1 .. n
  BY LenProperties, EmptySeq DEF IsTree
<1>2. \A i \in 1 .. n : path[i] \notin {".", ".."}
  BY <1>1 DEF IsTree, NotAPart
<1>3. TargetsOver(disk, STRING) /\ <<>> \in Seq(STRING)
  <2>1. \A q \in Links(disk) : tree[q] = disk[q] /\ q \in DOMAIN tree
                               /\ tree[q].kind = "symlink"
    BY DEF IsPartOf, Links
  <2>2. \A q \in DOMAIN tree : IsEntry(tree[q])
    BY DEF IsTree
  <2>3. \A q \in Links(disk) : disk[q].target.parts \in Seq(STRING)
    BY <2>1, <2>2 DEF IsEntry
  <2> QED
    BY <2>3, EmptySeq DEF TargetsOver
<1>4. ASSUME NEW i \in 1 .. n - 1
      PROVE  SubSeq(path, 1, i) \notin Links(disk)
  BY Ancestors DEF IsPartOf, Links
<1>5. /\ last \in STRING /\ dir \in Seq(STRING)
      /\ Append(dir, last) = path /\ dir \o <<last>> = path
      /\ \A i \in 1 .. n - 1 : SubSeq(dir, 1, i) = SubSeq(path, 1, i) /\ dir[i] = path[i]
      /\ Len(dir) = n - 1
  BY <1>1, LastOfPath, DirOfFacts
<1> HIDE DEF dir, last
<1>6. Physical(disk, dir) = dir
  <2>1. DOMAIN dir = 1 .. n - 1
    BY <1>5, LenProperties
  <2>2. \A i \in DOMAIN dir : dir[i] \notin {".", ".."}
    <3>1. \A i \in 1 .. n - 1 : i \in 1 .. n
      <4> HIDE DEF n
      <4> QED
        BY <1>1
    <3> QED
      BY <1>2, <1>5, <2>1, <3>1
  <2>3. ASSUME NEW i \in 1 .. Len(dir)
        PROVE  <<>> \o SubSeq(dir, 1, i) \notin Links(disk)
    <3>1. i \in 1 .. n - 1 /\ SubSeq(dir, 1, i) = SubSeq(path, 1, i)
      BY <1>5
    <3>2. SubSeq(path, 1, i) \in Seq(STRING)
      <4>1. i \in 1 .. n
        <5> HIDE DEF n
        <5> QED
          BY <1>1, <3>1
      <4>2. \A j \in 1 .. i : path[j] \in STRING
        <5>1. \A j \in 1 .. i : j \in 1 .. n
          <6> HIDE DEF n
          <6> QED
            BY <1>1, <4>1
        <5> QED
          BY <1>1, <5>1, ElementOfSeq
      <4> QED
        BY <4>2, SubSeqProperties
    <3>3. <<>> \o SubSeq(path, 1, i) = SubSeq(path, 1, i)
      BY <3>2, ConcatEmptySeq
    <3> QED
      BY <1>4, <3>1, <3>3
  <2>4. Walk(disk, <<>>, dir) = <<>> \o dir
    <3>1. IsPlain(disk, <<>>, dir)
      BY <2>2, <2>3 DEF IsPlain
    <3> QED
      BY <1>3, <1>5, <3>1, PlainWalk
  <2> QED
    BY <1>5, <2>4, ConcatEmptySeq DEF Physical
<1>7. Place(disk, path) = path
  BY <1>5, <1>6 DEF Place, dir, last
<1>8. ASSUME path \notin Links(disk)
      PROVE  Physical(disk, path) = path
  <2>1. ASSUME NEW i \in 1 .. n
        PROVE  <<>> \o SubSeq(path, 1, i) \notin Links(disk)
    <3>1. i \in 1 .. n - 1 \/ i = n
      <4> HIDE DEF n
      <4> QED
        BY <1>1
    <3>2. SubSeq(path, 1, n) = path
      BY <1>1, SubSeqFull
    <3>3. SubSeq(path, 1, i) \notin Links(disk)
      BY <1>4, <1>8, <3>1, <3>2
    <3>4. SubSeq(path, 1, i) \in Seq(STRING)
      <4>1. \A j \in 1 .. i : path[j] \in STRING
        <5>1. \A j \in 1 .. i : j \in 1 .. n
          <6> HIDE DEF n
          <6> QED
            BY <1>1
        <5> QED
          BY <1>1, <5>1, ElementOfSeq
      <4> QED
        BY <4>1, SubSeqProperties
    <3> QED
      BY <3>3, <3>4, ConcatEmptySeq
  <2>2. Walk(disk, <<>>, path) = <<>> \o path
    <3>1. \A i \in DOMAIN path : path[i] \notin {".", ".."}
      BY <1>1, <1>2
    <3>2. \A i \in 1 .. Len(path) : <<>> \o SubSeq(path, 1, i) \notin Links(disk)
      BY <2>1
    <3>3. IsPlain(disk, <<>>, path)
      BY <3>1, <3>2 DEF IsPlain
    <3> HIDE DEF n
    <3> QED
      BY <1>1, <1>3, <3>3, PlainWalk
  <2> QED
    BY <1>1, <2>2, ConcatEmptySeq DEF Physical
<1>9. ASSUME path \notin Links(disk)
      PROVE  Walk(disk, dir, <<last>>) = path
  <2> DEFINE one == <<last>>
  <2>1. one \in Seq(STRING) /\ Len(one) = 1 /\ DOMAIN one = 1 .. 1 /\ one[1] = last
    BY <1>5, OnePart
  <2> HIDE DEF one
  <2>2. last \notin {".", ".."}
    <3>1. last = path[n] /\ n \in 1 .. n
      BY <1>1 DEF last, Last
    <3> QED
      BY <1>2, <3>1
  <2>3. SubSeq(one, 1, 1) = one
    BY <2>1, SubSeqFull
  <2>4. ASSUME NEW i \in 1 .. Len(one)
        PROVE  dir \o SubSeq(one, 1, i) \notin Links(disk)
    <3>1. i = 1
      BY <2>1
    <3> QED
      BY <1>5, <1>9, <2>3, <3>1 DEF one
  <2>5. \A i \in DOMAIN one : one[i] \notin {".", ".."}
    BY <2>1, <2>2
  <2>6. Walk(disk, dir, one) = dir \o one
    <3>1. IsPlain(disk, dir, one)
      BY <2>4, <2>5 DEF IsPlain
    <3> QED
      BY <1>3, <1>5, <2>1, <3>1, PlainWalk
  <2> QED
    BY <1>5, <2>6 DEF one
<1> QED
  BY <1>7, <1>8, <1>9 DEF dir, last

\* The tree of a disk.
On(disk) == [path \in DOMAIN disk.inode |-> disk.node[disk.inode[path]]]

\* The disk with a new inode at a place, and with a hard link there.
WithNew(disk, place, k, entry) ==
    [inode |-> [path \in DOMAIN disk.inode \cup {place} |->
                  IF path = place THEN k ELSE disk.inode[path]],
     node |-> [disk.node EXCEPT ![k] = entry]]
LinkedTo(disk, place, link) ==
    [path \in DOMAIN disk.inode \cup {place} |-> disk.inode[IF path = place THEN link ELSE path]]
WithLink(disk, place, linked, mode) ==
    [inode |-> linked, node |-> [disk.node EXCEPT ![linked[place]].mode = mode]]
EntryOf(m) == [kind |-> m.type, mode |-> m.mode, data |-> m.data, target |-> m.target]

LEMMA InstallsNew ==
    ASSUME NEW disk, NEW m, NEW k, m.type # "link",
           Physical(On(disk), m.name) \notin DOMAIN On(disk)
    PROVE  InstallMember(disk, m, k) = WithNew(disk, Place(On(disk), m.name), k, EntryOf(m))
<1>1. DOMAIN On(disk) = DOMAIN disk.inode
  BY DEF On
<1> QED
  BY <1>1 DEF InstallMember, On, WithNew, EntryOf

LEMMA InstallsLink ==
    ASSUME NEW disk, NEW m, NEW k, NEW place, NEW link, NEW linked,
           m.type = "link", Place(On(disk), m.name) = place, Place(On(disk), m.link) = link,
           link \in DOMAIN On(disk),
           linked = LinkedTo(disk, place, link),
           Walk(On([inode |-> linked, node |-> disk.node]), DirOf(place), <<Last(place)>>) = place
    PROVE  InstallMember(disk, m, k) = WithLink(disk, place, linked, m.mode)
<1>1. DOMAIN On(disk) = DOMAIN disk.inode /\ place \in DOMAIN linked
  BY DEF On, LinkedTo
<1> QED
  BY <1>1 DEF InstallMember, On, LinkedTo, WithLink

\* The archive keeps the tree: every path has one member, which describes it
\* or is a hard link to an earlier one that does.
Keeps(ms, tree) ==
    /\ IsTree(tree) /\ IsArchive(ms)
    /\ DOMAIN tree = {ms[k].name : k \in DOMAIN ms}
    /\ \A i, j \in DOMAIN ms : ms[i].name = ms[j].name => i = j
    /\ \A k \in DOMAIN ms :
         /\ tree[ms[k].name].mode = ms[k].mode
         /\ ms[k].type # "link" =>
              tree[ms[k].name] = [kind |-> ms[k].type, mode |-> ms[k].mode,
                                  data |-> ms[k].data, target |-> ms[k].target]
         /\ ms[k].type = "link" =>
              \E j \in 1 .. k - 1 :
                  /\ ms[j].name = ms[k].link /\ ms[j].type = "file"
                  /\ tree[ms[j].name] = tree[ms[k].name]

LEMMA VouchedArchive ==
    ASSUME IInv, Vouched, NEW p \in Selected, LinkedAsCreated(archive[p])
    PROVE  Keeps(archive[p], root[p])
<1> DEFINE ms == archive[p]
           tree == root[p]
           read == PayloadOf(ms)
<1>1. IsTree(tree) /\ IsArchive(ms) /\ MembersOk(ms) /\ SamePayload(tree, read)
  BY VouchedFacts
<1>2. LinkedAsCreated(ms)
  OBVIOUS
<1> HIDE DEF ms, tree, read
<1>3. DOMAIN ms = 1 .. Len(ms) /\ Len(ms) \in Nat
  BY <1>1, LenProperties DEF IsArchive
<1>4. \A i, j \in DOMAIN ms : ms[i].name = ms[j].name => i = j
  <2>1. \A i, j \in DOMAIN ms : j < i => ms[j].name # ms[i].name
    BY <1>1, <1>3 DEF MembersOk, MemberOk
  <2> QED
    BY <1>3, <2>1
<1>5. DOMAIN tree = {ms[k].name : k \in DOMAIN ms}
  BY <1>1, <1>4, PayloadFacts DEF SamePayload, read
<1>6. ASSUME NEW k \in DOMAIN ms
      PROVE  LET m == ms[k]
                 e == tree[m.name]
             IN  /\ m = [name |-> m.name, type |-> m.type, link |-> m.link, mode |-> m.mode,
                         data |-> m.data, target |-> m.target, owner |-> m.owner]
                 /\ m.type # "file" => m.data = None
                 /\ m.type # "symlink" => m.target = None
                 /\ m.type \in {"directory", "file", "link", "symlink"}
                 /\ IsEntry(e)
                 /\ e.kind = (IF m.type = "link" THEN "file" ELSE m.type)
                 /\ e.mode = m.mode
                 /\ m.type \in {"file", "link"} => e.data = DataOf(ms, k)
                 /\ m.type = "symlink" => e.target = m.target
  <2>1. IsMember(ms[k])
    BY <1>1, ElementOfSeq, <1>3 DEF IsArchive
  <2>2. ms[k].type \in {"directory", "file", "link", "symlink"}
    BY <1>1 DEF MembersOk, MemberOk
  <2>3. ms[k].name \in DOMAIN tree /\ IsEntry(tree[ms[k].name])
    BY <1>1, <1>5 DEF IsTree
  <2>4. read[ms[k].name] =
                  [kind |-> IF ms[k].type = "link" THEN "file" ELSE ms[k].type,
                   mode |-> ms[k].mode,
                   data |-> IF ms[k].type \in {"file", "link"} THEN DataOf(ms, k) ELSE None,
                   target |-> IF ms[k].type = "symlink" THEN ms[k].target ELSE None]
    BY <1>1, <1>4, PayloadFacts DEF read
  <2>5. /\ tree[ms[k].name].kind = read[ms[k].name].kind
        /\ tree[ms[k].name].mode = read[ms[k].name].mode
        /\ tree[ms[k].name].kind = "file" => tree[ms[k].name].data = read[ms[k].name].data
        /\ tree[ms[k].name].kind = "symlink" => tree[ms[k].name].target = read[ms[k].name].target
    BY <1>1, <2>3 DEF SamePayload
  <2> QED
    BY <2>1, <2>2, <2>3, <2>4, <2>5 DEF IsMember
<1>7. ASSUME NEW k \in DOMAIN ms, ms[k].type # "link"
      PROVE  tree[ms[k].name] = [kind |-> ms[k].type, mode |-> ms[k].mode,
                                  data |-> ms[k].data, target |-> ms[k].target]
  <2> DEFINE m == ms[k]
             e == tree[m.name]
  <2>1. ms[k].type = "file" => DataOf(ms, k) = ms[k].data
    BY <1>1, DataFacts
  <2>2. /\ e = [kind |-> e.kind, mode |-> e.mode, data |-> e.data, target |-> e.target]
        /\ e.kind # "file" => e.data = None
        /\ e.kind # "symlink" => e.target = None
    BY <1>6 DEF IsEntry
  <2>3. e.kind = m.type /\ e.mode = m.mode /\ e.data = m.data /\ e.target = m.target
    BY <1>6, <1>7, <2>1, <2>2
  <2> HIDE DEF m, e
  <2>4. e = [kind |-> m.type, mode |-> m.mode, data |-> m.data, target |-> m.target]
    BY <2>2, <2>3
  <2> QED
    BY <2>4 DEF m, e
<1>8. ASSUME NEW k \in DOMAIN ms, ms[k].type = "link"
      PROVE  \E j \in 1 .. k - 1 :
                  /\ ms[j].name = ms[k].link /\ ms[j].type = "file"
                  /\ tree[ms[j].name] = tree[ms[k].name]
  <2>1. PICK j \in 1 .. k - 1 :
               /\ ms[j].name = ms[k].link
               /\ ms[j].type = "file" /\ ms[j].mode = ms[k].mode
    BY <1>2, <1>8 DEF LinkedAsCreated
  <2>2. j \in DOMAIN ms /\ \A i \in 1 .. k - 1 : i \in DOMAIN ms
    BY <1>3
  <2>3. DataOf(ms, k) = ms[j].data
    <3>1. \A i \in 1 .. k - 1 : ms[i].name = ms[k].link => i = j
      BY <1>4, <2>1, <2>2
    <3> QED
      BY <1>1, <1>8, <2>1, <3>1, DataFacts
  <2> DEFINE e == tree[ms[k].name]
             f == tree[ms[j].name]
  <2>4. e = [kind |-> e.kind, mode |-> e.mode, data |-> e.data, target |-> e.target]
        /\ (e.kind # "symlink" => e.target = None)
        /\ e.kind = "file" /\ e.mode = ms[k].mode /\ e.data = DataOf(ms, k)
    BY <1>6, <1>8 DEF IsEntry
  <2>5. f = [kind |-> "file", mode |-> ms[j].mode, data |-> ms[j].data,
             target |-> ms[j].target] /\ ms[j].target = None
    BY <1>6, <1>7, <2>1, <2>2
  <2> HIDE DEF e, f
  <2>6. e = f
    BY <2>1, <2>3, <2>4, <2>5
  <2> QED
    BY <2>1, <2>6 DEF e, f
<1>9. \A k \in DOMAIN ms : tree[ms[k].name].mode = ms[k].mode
  BY <1>6
<1>10. Keeps(ms, tree)
  BY <1>1, <1>4, <1>5, <1>7, <1>8, <1>9 DEF Keeps
<1> QED
  BY <1>10 DEF ms, tree

\* The member that holds what member k names, and the disk after k members.
Home(ms, k) ==
    IF ms[k].type = "link" THEN CHOOSE j \in 1 .. k - 1 : ms[j].name = ms[k].link ELSE k
NumberOf(ms, path) == CHOOSE k \in DOMAIN ms : ms[k].name = path
NoNode == [kind |-> None, mode |-> None, data |-> None, target |-> None]
NamesUpTo(ms, k) == {ms[j].name : j \in 1 .. k}
After(ms, tree, k) ==
    [inode |-> [path \in NamesUpTo(ms, k) |-> Home(ms, NumberOf(ms, path))],
     node |-> [j \in DOMAIN ms |->
                 IF j <= k /\ ms[j].type # "link" THEN tree[ms[j].name] ELSE NoNode]]

LEMMA HomeFacts ==
    ASSUME NEW ms, NEW tree, Keeps(ms, tree), NEW k \in DOMAIN ms
    PROVE  /\ k \in Nat /\ k >= 1 /\ k <= Len(ms) /\ Len(ms) \in Nat /\ DOMAIN ms = 1 .. Len(ms)
           /\ NumberOf(ms, ms[k].name) = k
           /\ Home(ms, k) \in 1 .. k /\ ms[Home(ms, k)].type # "link"
           /\ tree[ms[Home(ms, k)].name] = tree[ms[k].name]
           /\ ms[k].type # "link" => Home(ms, k) = k
           /\ ms[k].type = "link" => /\ Home(ms, k) \in 1 .. k - 1
                                     /\ ms[Home(ms, k)].name = ms[k].link
                                     /\ ms[Home(ms, k)].type = "file"
                                     /\ tree[ms[k].name].kind = "file"
<1>1. k \in Nat /\ k >= 1 /\ k <= Len(ms) /\ Len(ms) \in Nat /\ DOMAIN ms = 1 .. Len(ms)
  BY LenProperties DEF Keeps, IsArchive
<1>2. NumberOf(ms, ms[k].name) = k
  BY DEF NumberOf, Keeps
<1>3. CASE ms[k].type # "link"
  BY <1>1, <1>2, <1>3 DEF Home
<1>4. CASE ms[k].type = "link"
  <2>1. PICK j \in 1 .. k - 1 : /\ ms[j].name = ms[k].link /\ ms[j].type = "file"
                                /\ tree[ms[j].name] = tree[ms[k].name]
    BY <1>4 DEF Keeps
  <2>2. \A i \in 1 .. k - 1 : i \in DOMAIN ms /\ i \in 1 .. k
    BY <1>1
  <2>3. \A i \in 1 .. k - 1 : ms[i].name = ms[k].link => i = j
    BY <2>1, <2>2 DEF Keeps
  <2>4. Home(ms, k) = j
    BY <1>4, <2>1, <2>3 DEF Home
  <2>5. tree[ms[j].name].kind = "file"
    <3>1. tree[ms[j].name] = [kind |-> ms[j].type, mode |-> ms[j].mode,
                              data |-> ms[j].data, target |-> ms[j].target]
      BY <2>1, <2>2 DEF Keeps
    <3> QED
      BY <2>1, <3>1
  <2> QED
    BY <1>1, <1>2, <1>4, <2>1, <2>2, <2>4, <2>5
<1> QED
  BY <1>3, <1>4

\* The disk after k members is a part of the tree.
LEMMA AfterFacts ==
    ASSUME NEW ms, NEW tree, Keeps(ms, tree), NEW k \in 0 .. Len(ms)
    PROVE  LET disk == After(ms, tree, k)
           IN  /\ DOMAIN disk.inode = NamesUpTo(ms, k)
               /\ \A j \in 1 .. k : /\ disk.inode[ms[j].name] = Home(ms, j)
                                    /\ disk.node[Home(ms, j)] = tree[ms[j].name]
                                    /\ On(disk)[ms[j].name] = tree[ms[j].name]
               /\ DOMAIN On(disk) = NamesUpTo(ms, k)
               /\ IsPartOf(On(disk), tree)
<1> DEFINE disk == After(ms, tree, k)
<1>1. Len(ms) \in Nat /\ DOMAIN ms = 1 .. Len(ms)
  BY LenProperties DEF Keeps, IsArchive
<1>2. DOMAIN disk.inode = NamesUpTo(ms, k) /\ DOMAIN On(disk) = NamesUpTo(ms, k)
  BY DEF After, On
<1>3. ASSUME NEW j \in 1 .. k
      PROVE  /\ disk.inode[ms[j].name] = Home(ms, j)
             /\ disk.node[Home(ms, j)] = tree[ms[j].name]
             /\ On(disk)[ms[j].name] = tree[ms[j].name]
             /\ ms[j].name \in DOMAIN tree
  <2>1. j \in DOMAIN ms /\ ms[j].name \in NamesUpTo(ms, k)
    BY <1>1 DEF NamesUpTo
  <2> DEFINE h == Home(ms, j)
  <2>2. /\ NumberOf(ms, ms[j].name) = j
        /\ h \in 1 .. j /\ ms[h].type # "link" /\ tree[ms[h].name] = tree[ms[j].name]
    BY <2>1, HomeFacts
  <2>3. disk.inode[ms[j].name] = h
    BY <2>1, <2>2 DEF After
  <2> HIDE DEF h
  <2>4. h \in DOMAIN ms /\ h <= k
    BY <1>1, <2>1, <2>2
  <2>5. disk.node[h] = tree[ms[j].name]
    BY <2>2, <2>4 DEF After
  <2>6. On(disk)[ms[j].name] = tree[ms[j].name]
    BY <1>2, <2>1, <2>3, <2>5 DEF On
  <2>7. ms[j].name \in DOMAIN tree
    BY <2>1 DEF Keeps
  <2> QED
    BY <2>3, <2>5, <2>6, <2>7 DEF h
<1>4. IsPartOf(On(disk), tree)
  BY <1>2, <1>3 DEF IsPartOf, NamesUpTo
<1> QED
  BY <1>2, <1>3, <1>4

LEMMA InstallStep ==
    ASSUME NEW ms, NEW tree, Keeps(ms, tree), NEW k \in DOMAIN ms
    PROVE  InstallMember(After(ms, tree, k - 1), ms[k], k) = After(ms, tree, k)
<1> DEFINE disk == After(ms, tree, k - 1)
           next == After(ms, tree, k)
           m == ms[k]
           path == m.name
           names == NamesUpTo(ms, k - 1)
<1>1. /\ k \in Nat /\ k >= 1 /\ k <= Len(ms) /\ Len(ms) \in Nat /\ DOMAIN ms = 1 .. Len(ms)
      /\ k - 1 \in 0 .. Len(ms)
  BY HomeFacts
<1>2. /\ DOMAIN disk.inode = names /\ DOMAIN On(disk) = names
      /\ \A j \in 1 .. k - 1 : /\ disk.inode[ms[j].name] = Home(ms, j)
                               /\ disk.node[Home(ms, j)] = tree[ms[j].name]
      /\ IsPartOf(On(disk), tree)
  BY <1>1, AfterFacts
<1>3. path \notin names /\ path \in DOMAIN tree /\ NamesUpTo(ms, k) = names \cup {path}
  <2>1. path \notin names
    BY <1>1 DEF Keeps, NamesUpTo
  <2>2. 1 .. k = (1 .. k - 1) \cup {k}
    BY <1>1
  <2>3. NamesUpTo(ms, k) = names \cup {path}
    BY <2>2 DEF NamesUpTo
  <2> QED
    BY <2>1, <2>3 DEF Keeps
<1>4. path \notin Links(On(disk))
  BY <1>2, <1>3 DEF Links
<1>5. Place(On(disk), path) = path /\ Physical(On(disk), path) = path /\ IsTree(tree)
  <2>1. IsTree(tree)
    BY DEF Keeps
  <2> HIDE DEF disk, path
  <2> QED
    BY <1>2, <1>3, <1>4, <2>1, PathOnDisk
<1>6. /\ next = [inode |-> next.inode, node |-> next.node]
      /\ next.inode = [q \in names \cup {path} |-> Home(ms, NumberOf(ms, q))]
      /\ next.node = [j \in DOMAIN ms |->
                        IF j <= k /\ ms[j].type # "link" THEN tree[ms[j].name] ELSE NoNode]
      /\ disk.inode = [q \in names |-> Home(ms, NumberOf(ms, q))]
      /\ disk.node = [j \in DOMAIN ms |->
                        IF j <= k - 1 /\ ms[j].type # "link" THEN tree[ms[j].name] ELSE NoNode]
  BY <1>3 DEF After
<1>7. Home(ms, NumberOf(ms, path)) = Home(ms, k)
  BY HomeFacts
<1>8. CASE m.type # "link"
  <2> DEFINE entry == [kind |-> m.type, mode |-> m.mode, data |-> m.data, target |-> m.target]
  <2>1. entry = tree[path] /\ Home(ms, k) = k
    BY <1>8, HomeFacts DEF Keeps
  <2> HIDE DEF entry, disk, next, path, names
  <2>2. InstallMember(disk, m, k) =
          [inode |-> [q \in DOMAIN disk.inode \cup {path} |->
                        IF q = path THEN k ELSE disk.inode[q]],
           node |-> [disk.node EXCEPT ![k] = entry]]
    <3>1. Place(On(disk), m.name) = path /\ Physical(On(disk), m.name) \notin DOMAIN On(disk)
      BY <1>2, <1>3, <1>5 DEF path
    <3>2. entry = EntryOf(m)
      BY DEF entry, EntryOf
    <3> HIDE DEF m
    <3>3. InstallMember(disk, m, k) = WithNew(disk, path, k, entry)
      BY <1>8, <3>1, <3>2, InstallsNew
    <3> QED
      BY <3>3 DEF WithNew
  <2>3. [q \in DOMAIN disk.inode \cup {path} |-> IF q = path THEN k ELSE disk.inode[q]]
          = next.inode
    <3> DEFINE Longer(q) == IF q = path THEN k ELSE disk.inode[q]
               Homed(q) == Home(ms, NumberOf(ms, q))
    <3>1. ASSUME NEW q \in names \cup {path}
          PROVE  Longer(q) = Homed(q)
      BY <1>6, <1>7, <2>1
    <3>2. next.inode = [q \in names \cup {path} |-> Homed(q)]
      BY <1>6
    <3>3. DOMAIN disk.inode = names
      BY <1>2
    <3> HIDE DEF Longer, Homed
    <3>4. [q \in names \cup {path} |-> Longer(q)] = [q \in names \cup {path} |-> Homed(q)]
      BY <3>1
    <3>5. [q \in DOMAIN disk.inode \cup {path} |-> Longer(q)] = next.inode
      BY <3>2, <3>3, <3>4
    <3> QED
      BY <3>5 DEF Longer
  <2>4. [disk.node EXCEPT ![k] = entry] = next.node
    <3>1. \A j \in DOMAIN ms : j # k => (j <= k <=> j <= k - 1)
      BY <1>1
    <3>2. [disk.node EXCEPT ![k] = entry] =
            [j \in DOMAIN ms |-> IF j = k THEN entry ELSE disk.node[j]]
      BY <1>6
    <3>3. \A j \in DOMAIN ms : (IF j = k THEN entry ELSE disk.node[j]) =
            IF j <= k /\ ms[j].type # "link" THEN tree[ms[j].name] ELSE NoNode
      <4> TAKE j \in DOMAIN ms
      <4>1. CASE j = k
        BY <1>1, <1>8, <2>1, <4>1 DEF path
      <4>2. CASE j # k
        BY <1>6, <3>1, <4>2
      <4> QED
        BY <4>1, <4>2
    <3> QED
      BY <1>6, <3>2, <3>3
  <2> QED
    BY <1>6, <2>2, <2>3, <2>4 DEF disk, next
<1>9. CASE m.type = "link"
  <2> DEFINE h == Home(ms, k)
             linked == [q \in DOMAIN disk.inode \cup {path} |->
                          disk.inode[IF q = path THEN m.link ELSE q]]
             there == [q \in DOMAIN linked |-> disk.node[linked[q]]]
  <2>1. /\ h \in 1 .. k - 1 /\ h \in DOMAIN ms /\ ms[h].name = m.link
        /\ ms[h].type # "link" /\ Home(ms, h) = h
        /\ tree[m.link] = tree[path] /\ tree[path].kind = "file" /\ tree[path].mode = m.mode
    <3>1. h \in 1 .. k - 1 /\ ms[h].name = m.link /\ tree[m.link] = tree[path]
          /\ ms[h].type # "link" /\ tree[path].kind = "file"
      BY <1>9, HomeFacts
    <3>2. h \in DOMAIN ms
      BY <1>1, <3>1
    <3>3. Home(ms, h) = h
      BY <3>1, <3>2 DEF Home
    <3> QED
      BY <3>1, <3>2, <3>3 DEF Keeps
  <2>2. m.link \in names /\ disk.inode[m.link] = h /\ disk.node[h] = tree[path]
    BY <1>2, <2>1 DEF NamesUpTo
  <2>3. Place(On(disk), m.link) = m.link
    <3>1. m.link \in DOMAIN tree
      BY <2>1 DEF Keeps
    <3> DEFINE T == On(disk)
               q == m.link
    <3>2. q \in DOMAIN tree /\ IsPartOf(T, tree) /\ IsTree(tree)
      BY <1>2, <1>5, <3>1
    <3> HIDE DEF T, q
    <3>3. Place(T, q) = q
      BY <3>2, PathOnDisk
    <3> QED
      BY <3>3 DEF T, q
  <2>4. linked = next.inode
    <3> HIDE DEF disk, next, path, names, h, linked
    <3>1. \A q \in names \cup {path} :
            disk.inode[IF q = path THEN m.link ELSE q] = Home(ms, NumberOf(ms, q))
      BY <1>3, <1>6, <1>7, <2>2 DEF h
    <3> QED
      BY <1>2, <1>6, <3>1 DEF linked
  <2>5. /\ DOMAIN linked = names \cup {path} /\ linked[path] = h
        /\ \A q \in names : linked[q] = disk.inode[q]
    <3> HIDE DEF disk, path, names, h, next
    <3> QED
      BY <1>2, <1>3, <2>2
  <2>6. IsPartOf(there, tree) /\ path \notin Links(there)
    <3> HIDE DEF linked, disk, path, names, h, next
    <3>1. DOMAIN there = names \cup {path} /\ there[path] = tree[path]
      BY <2>2, <2>5
    <3>2. \A q \in names : there[q] = On(disk)[q] /\ q \in DOMAIN tree /\ On(disk)[q] = tree[q]
      BY <1>2, <2>5 DEF On, IsPartOf
    <3> HIDE DEF there
    <3> QED
      BY <1>3, <2>1, <3>1, <3>2 DEF IsPartOf, Links
  <2>7. Walk(there, DirOf(path), <<Last(path)>>) = path
    <3> HIDE DEF there, path
    <3> QED
      BY <1>3, <1>5, <2>6, PathOnDisk
  <2>8. InstallMember(disk, m, k) =
          [inode |-> linked, node |-> [disk.node EXCEPT ![h].mode = m.mode]]
    <3>1. m.link \in DOMAIN On(disk)
      BY <1>2, <2>2
    <3>2. Place(On(disk), m.name) = path
      BY <1>5
    <3> DEFINE link == m.link
    <3>3. linked = LinkedTo(disk, path, link)
          /\ link \in DOMAIN On(disk) /\ Place(On(disk), m.link) = link
      BY <2>3, <3>1 DEF LinkedTo
    <3>4. Walk(On([inode |-> linked, node |-> disk.node]), DirOf(path), <<Last(path)>>) = path
      BY <2>7 DEF On
    <3> HIDE DEF disk, names, h, next, path, m, linked, link
    <3>5. InstallMember(disk, m, k) = WithLink(disk, path, linked, m.mode)
      BY <1>9, <3>2, <3>3, <3>4, InstallsLink
    <3> QED
      BY <2>5, <3>5 DEF WithLink
  <2>9. [disk.node EXCEPT ![h].mode = m.mode] = disk.node
    <3> DEFINE e == tree[path]
    <3>1. e = [kind |-> e.kind, mode |-> e.mode, data |-> e.data, target |-> e.target]
      BY <1>3, <1>5 DEF IsTree, IsEntry
    <3>2. DOMAIN disk.node = DOMAIN ms /\ disk.node[h] = e /\ e.mode = m.mode
      BY <1>6, <2>1, <2>2
    <3> HIDE DEF e, disk, h
    <3>3. [e EXCEPT !.mode = m.mode] = e
      BY <3>1, <3>2
    <3>4. disk.node = [j \in DOMAIN ms |-> disk.node[j]]
      BY <1>6
    <3> QED
      BY <3>2, <3>3, <3>4
  <2>10. disk.node = next.node
    <3>1. \A j \in DOMAIN ms : (j <= k - 1 /\ ms[j].type # "link")
                                 <=> (j <= k /\ ms[j].type # "link")
      BY <1>1, <1>9
    <3> HIDE DEF disk, next
    <3> QED
      BY <1>6, <3>1
  <2> HIDE DEF linked, disk, h, next
  <2> QED
    BY <1>6, <2>4, <2>8, <2>9, <2>10 DEF disk, next
<1> QED
  BY <1>8, <1>9

LEMMA EmptyDisk ==
    ASSUME NEW ms, NEW tree, Keeps(ms, tree)
    PROVE  After(ms, tree, 0) = [inode |-> <<>>, node |-> [j \in DOMAIN ms |-> NoNode]]
<1>1. NamesUpTo(ms, 0) = {}
  BY DEF NamesUpTo
<1>2. [path \in {} |-> Home(ms, NumberOf(ms, path))] = <<>>
  OBVIOUS
<1>3. \A j \in DOMAIN ms : ~(j <= 0)
  BY LenProperties DEF Keeps, IsArchive
<1>4. [j \in DOMAIN ms |-> IF j <= 0 /\ ms[j].type # "link" THEN tree[ms[j].name] ELSE NoNode]
        = [j \in DOMAIN ms |-> NoNode]
  BY <1>3
<1> QED
  BY <1>1, <1>2, <1>4 DEF After

\* Installing an archive that keeps a tree gives the tree.
LEMMA InstalledIsKept ==
    ASSUME NEW ms, NEW tree, Keeps(ms, tree)
    PROVE  Installed(ms) = tree
<1> DEFINE n == Len(ms)
           none == [inode |-> <<>>, node |-> [j \in DOMAIN ms |-> NoNode]]
           f == [k \in 0 .. n |-> After(ms, tree, k)]
           Is(g) == g = [k \in 0 .. n |-> IF k = 0 THEN none
                                          ELSE InstallMember(g[k - 1], ms[k], k)]
<1>1. n \in Nat /\ DOMAIN ms = 1 .. n
  BY LenProperties DEF Keeps, IsArchive
<1>2. none = After(ms, tree, 0)
  BY EmptyDisk
<1>3. \A k \in 1 .. n : InstallMember(After(ms, tree, k - 1), ms[k], k) = After(ms, tree, k)
  BY <1>1, InstallStep
<1> HIDE DEF none
<1>4. Is(f)
  <2>1. ASSUME NEW k \in 0 .. n, k # 0
        PROVE  After(ms, tree, k) = InstallMember(f[k - 1], ms[k], k)
    <3> HIDE DEF n
    <3>1. k \in 1 .. n /\ k - 1 \in 0 .. n
      BY <1>1, <2>1
    <3> QED
      BY <1>3, <3>1
  <2> DEFINE g == [k \in 0 .. n |-> IF k = 0 THEN none ELSE InstallMember(f[k - 1], ms[k], k)]
  <2>2. \A k \in 0 .. n : g[k] = f[k]
    <3> HIDE DEF n
    <3> QED
      BY <1>2, <2>1
  <2> QED
    BY <2>2
<1>5. PICK disk : Is(disk) /\ disk = CHOOSE g : Is(g)
  <2> HIDE DEF Is
  <2> QED
    BY <1>4
<1>6. disk[0] = none /\ \A k \in 1 .. n : disk[k] = InstallMember(disk[k - 1], ms[k], k)
  <2> HIDE DEF n
  <2>1. 0 \in 0 .. n /\ \A k \in 1 .. n : k \in 0 .. n /\ k # 0
    BY <1>1
  <2> QED
    BY <1>5, <2>1
<1>7. disk[n] = After(ms, tree, n)
  <2> DEFINE P == {k \in Nat : k <= n => disk[k] = After(ms, tree, k)}
  <2> HIDE DEF n
  <2>1. 0 \in P
    BY <1>2, <1>6
  <2>2. ASSUME NEW k \in Nat, k \in P
        PROVE  k + 1 \in P
    <3>1. SUFFICES ASSUME k + 1 <= n
                   PROVE  disk[k + 1] = After(ms, tree, k + 1)
      OBVIOUS
    <3>2. k + 1 \in 1 .. n /\ (k + 1) - 1 = k /\ k <= n
      BY <1>1, <3>1
    <3> QED
      BY <1>3, <1>6, <2>2, <3>2
  <2>3. Nat \subseteq P
    <3> HIDE DEF P
    <3> QED
      BY <2>1, <2>2, NatInduct
  <2> QED
    BY <1>1, <2>3
<1>8. Installed(ms) = On(disk[n])
  <2> DEFINE g == CHOOSE g : Is(g)
  <2>1. Installed(ms) = [path \in DOMAIN g[n].inode |-> g[n].node[g[n].inode[path]]]
    BY Zenon DEF Installed, none, NoNode
  <2>2. g = disk
    BY <1>5
  <2> HIDE DEF g, n
  <2> QED
    BY <2>1, <2>2 DEF On
<1>9. On(After(ms, tree, n)) = tree
  <2>1. n \in 0 .. Len(ms)
    BY <1>1
  <2>2. /\ DOMAIN On(After(ms, tree, n)) = NamesUpTo(ms, n)
        /\ \A j \in 1 .. n : On(After(ms, tree, n))[ms[j].name] = tree[ms[j].name]
    BY <2>1, AfterFacts
  <2>3. NamesUpTo(ms, n) = DOMAIN tree /\ tree = [path \in DOMAIN tree |-> tree[path]]
    BY <1>1 DEF NamesUpTo, Keeps, IsTree
  <2>4. On(After(ms, tree, n)) = [path \in DOMAIN On(After(ms, tree, n)) |->
                                     On(After(ms, tree, n))[path]]
    BY DEF On
  <2>5. \A path \in DOMAIN tree : On(After(ms, tree, n))[path] = tree[path]
    BY <2>2, <2>3 DEF NamesUpTo
  <2> DEFINE there == On(After(ms, tree, n))
  <2> HIDE DEF there
  <2> QED
    BY <2>2, <2>3, <2>4, <2>5 DEF there
<1> QED
  BY <1>7, <1>8, <1>9

\* Of a path normpath makes a path.
LEMMA NormalisedIsPath ==
    ASSUME NEW S, NEW parts \in Seq(S)
    PROVE  Normalised(parts) \in Seq(S)
<1> DEFINE n == Len(parts)
           step == [q \in (1 .. n) \X Seq(S) |-> NormalPart(q[2], parts[q[1]])]
           Is(f) == f = [i \in 0 .. n |-> IF i = 0 THEN <<>> ELSE NormalPart(f[i - 1], parts[i])]
<1>1. n \in Nat /\ <<>> \in Seq(S)
  BY LenProperties, EmptySeq
<1>2. ASSUME NEW path \in Seq(S), NEW part \in S
      PROVE  NormalPart(path, part) \in Seq(S)
  <2>1. path # <<>> => DirOf(path) \in Seq(S)
    BY DirOfFacts
  <2>2. Append(path, part) \in Seq(S)
    BY AppendProperties
  <2> QED
    BY <2>1, <2>2 DEF NormalPart
<1>3. step \in [(1 .. n) \X Seq(S) -> Seq(S)]
  <2>1. \A i \in 1 .. n, path \in Seq(S) : NormalPart(path, parts[i]) \in Seq(S)
    BY <1>2, ElementOfSeq
  <2> HIDE DEF n
  <2> QED
    BY <2>1
<1>4. PICK f \in [0 .. n -> Seq(S)] : Recursive(f, n, <<>>, step)
  <2> HIDE DEF step, n
  <2> QED
    BY <1>1, <1>3, Recursion
<1>5. f[0] = <<>> /\ \A i \in 1 .. n : f[i] = NormalPart(f[i - 1], parts[i])
  <2>0. f[0] = <<>>
    BY <1>4 DEF Recursive
  <2> SUFFICES \A i \in 1 .. n : f[i] = NormalPart(f[i - 1], parts[i])
    BY <2>0
  <2> TAKE i \in 1 .. n
  <2> HIDE DEF n
  <2>1. i - 1 \in 0 .. n
    BY <1>1
  <2>2. f[i - 1] \in Seq(S)
    BY <1>4, <2>1
  <2> QED
    BY <1>4, <2>2 DEF Recursive
<1>6. Is(f)
  <2> HIDE DEF n
  <2> QED
    BY <1>1, <1>4, <1>5
<1>7. PICK g : Is(g) /\ g = CHOOSE h : Is(h)
  BY <1>6
<1>8. Normalised(parts) = g[n]
  BY <1>7 DEF Normalised
<1>9. \A i \in 0 .. n : g[i] \in Seq(S)
  <2> DEFINE P == {i \in Nat : i <= n => g[i] \in Seq(S)}
  <2> HIDE DEF n
  <2>1. 0 \in 0 .. n /\ \A i \in 1 .. n : i \in 0 .. n /\ i # 0
    BY <1>1
  <2>2. g[0] = <<>> /\ \A i \in 1 .. n : g[i] = NormalPart(g[i - 1], parts[i])
    BY <1>7, <2>1
  <2>3. 0 \in P
    BY <1>1, <2>2
  <2>4. ASSUME NEW i \in Nat, i \in P
        PROVE  i + 1 \in P
    <3>1. SUFFICES ASSUME i + 1 <= n
                   PROVE  g[i + 1] \in Seq(S)
      OBVIOUS
    <3>2. i + 1 \in 1 .. n /\ i <= n /\ (i + 1) - 1 = i
      BY <1>1, <3>1
    <3>3. parts[i + 1] \in S
      BY <3>2, ElementOfSeq DEF n
    <3> QED
      BY <1>2, <2>2, <2>4, <3>2, <3>3
  <2>5. Nat \subseteq P
    <3> HIDE DEF P
    <3> QED
      BY <2>3, <2>4, NatInduct
  <2>6. \A i \in 0 .. n : i \in Nat /\ i <= n
    BY <1>1
  <2> QED
    BY <2>5, <2>6
<1> QED
  BY <1>1, <1>8, <1>9

\* A tree as a filter lets it be installed.
FilteredTree(filter, tree) ==
    [path \in DOMAIN tree |-> Filtered(filter, tree[path].kind, tree[path])]

LEMMA FilteredEntry ==
    ASSUME NEW e, IsEntry(e), e.kind # "special"
    PROVE  LET f == Filtered("data", e.kind, e)
           IN  /\ IsEntry(f) /\ f.kind = e.kind /\ f.data = e.data
               /\ f.mode = DataMode(e.kind, e.mode)
               /\ f.target = IF e.kind = "symlink"
                             THEN [e.target EXCEPT !.parts = Normalised(e.target.parts)]
                             ELSE None
<1> DEFINE f == Filtered("data", e.kind, e)
           target == DataTarget(e.kind, e.target)
<1>1. e = [kind |-> e.kind, mode |-> e.mode, data |-> e.data, target |-> e.target]
  BY DEF IsEntry
<1>2. f = [e EXCEPT !.mode = DataMode(e.kind, e.mode), !.target = target]
  BY DEF Filtered
<1> HIDE DEF f, target
<1>3. f = [kind |-> e.kind, mode |-> DataMode(e.kind, e.mode), data |-> e.data,
           target |-> target]
  BY <1>1, <1>2
<1>4. e.kind # "symlink" => target = None
  BY DEF DataTarget, IsEntry, target
<1>5. e.kind = "symlink" => target.parts \in Seq(STRING)
  <2>1. ASSUME e.kind = "symlink"
        PROVE  target.parts \in Seq(STRING)
    <3>1. e.target.parts \in Seq(STRING)
      BY <2>1 DEF IsEntry
    <3>2. Normalised(e.target.parts) \in Seq(STRING)
      BY <3>1, NormalisedIsPath
    <3>3. target = [e.target EXCEPT !.parts = Normalised(e.target.parts)]
      BY <2>1 DEF target, DataTarget
    <3> QED
      BY <3>1, <3>2, <3>3
  <2> QED
    BY <2>1
<1>6. IsEntry(f)
  BY <1>3, <1>4, <1>5 DEF IsEntry
<1> QED
  BY <1>3, <1>4, <1>6 DEF DataTarget, f, target

LEMMA FilteredMember ==
    ASSUME NEW m, IsMember(m)
    PROVE  LET f == Filtered("data", m.type, m)
           IN  /\ IsMember(f) /\ f.name = m.name /\ f.type = m.type /\ f.link = m.link
               /\ f.data = m.data /\ f.mode = DataMode(m.type, m.mode)
               /\ f.target = IF m.type = "symlink"
                             THEN [m.target EXCEPT !.parts = Normalised(m.target.parts)]
                             ELSE None
<1> DEFINE f == Filtered("data", m.type, m)
           target == DataTarget(m.type, m.target)
<1>1. m = [name |-> m.name, type |-> m.type, link |-> m.link, mode |-> m.mode,
           data |-> m.data, target |-> m.target, owner |-> m.owner]
  BY DEF IsMember
<1>2. f = [m EXCEPT !.mode = DataMode(m.type, m.mode), !.target = target]
  BY DEF Filtered
<1> HIDE DEF f, target
<1>3. f = [name |-> m.name, type |-> m.type, link |-> m.link,
           mode |-> DataMode(m.type, m.mode), data |-> m.data, target |-> target,
           owner |-> m.owner]
  BY <1>1, <1>2
<1>4. m.type # "symlink" => target = None
  BY DEF DataTarget, IsMember, target
<1>5. IsMember(f)
  BY <1>3, <1>4 DEF IsMember
<1> QED
  BY <1>3, <1>4, <1>5 DEF DataTarget, f, target

\* What an archive keeps of a tree, the filtered archive keeps of the filtered
\* tree.
LEMMA FilteredKeeps ==
    ASSUME NEW ms, NEW tree, Keeps(ms, tree), NoSpecial(tree), NEW filter \in Filters
    PROVE  Keeps(AsFiltered(filter, ms), FilteredTree(filter, tree))
<1>1. IsTree(tree) /\ IsArchive(ms) /\ \A path \in DOMAIN tree : IsEntry(tree[path])
  BY DEF Keeps, IsTree
<1>2. PICK S : ms \in Seq(S) /\ \A m \in S : IsMember(m)
  BY <1>1 DEF IsArchive
<1>3. CASE filter = "trusted"
  <2>1. AsFiltered(filter, ms) = ms
    <3>1. AsFiltered(filter, ms) = [k \in DOMAIN ms |-> ms[k]]
      BY <1>3 DEF AsFiltered, Filtered
    <3>2. ms = [k \in DOMAIN ms |-> ms[k]]
      BY <1>2
    <3> QED
      BY <3>1, <3>2
  <2>2. FilteredTree(filter, tree) = tree
    BY <1>1, <1>3 DEF FilteredTree, Filtered, IsTree
  <2> QED
    BY <2>1, <2>2
<1>4. CASE filter = "data"
  <2> DEFINE F(m) == Filtered("data", m.type, m)
             fs == AsFiltered("data", ms)
             ft == FilteredTree("data", tree)
  <2>1. DOMAIN fs = DOMAIN ms /\ \A k \in DOMAIN ms : fs[k] = F(ms[k])
    BY DEF AsFiltered
  <2>2. DOMAIN ft = DOMAIN tree
        /\ \A q \in DOMAIN tree : ft[q] = Filtered("data", tree[q].kind, tree[q])
    BY DEF FilteredTree
  <2>3. ASSUME NEW k \in DOMAIN ms
        PROVE  /\ IsMember(ms[k]) /\ ms[k] \in S
               /\ IsMember(fs[k]) /\ fs[k].name = ms[k].name /\ fs[k].type = ms[k].type
               /\ fs[k].link = ms[k].link /\ fs[k].data = ms[k].data
               /\ fs[k].mode = DataMode(ms[k].type, ms[k].mode)
               /\ fs[k].target = IF ms[k].type = "symlink"
                                 THEN [ms[k].target EXCEPT !.parts = Normalised(ms[k].target.parts)]
                                 ELSE None
    <3> DEFINE m == ms[k]
    <3>1. m \in S /\ IsMember(m)
      BY <1>2, LenProperties, ElementOfSeq
    <3>2. fs[k] = Filtered("data", m.type, m)
      BY <2>1
    <3> HIDE DEF m, fs
    <3>3. /\ IsMember(fs[k]) /\ fs[k].name = m.name /\ fs[k].type = m.type
          /\ fs[k].link = m.link /\ fs[k].data = m.data
          /\ fs[k].mode = DataMode(m.type, m.mode)
          /\ fs[k].target = IF m.type = "symlink"
                            THEN [m.target EXCEPT !.parts = Normalised(m.target.parts)] ELSE None
      BY <3>1, <3>2, FilteredMember
    <3> QED
      BY <3>1, <3>3 DEF m
  <2>4. ASSUME NEW q \in DOMAIN tree
        PROVE  LET e == tree[q]
               IN  /\ IsEntry(ft[q]) /\ ft[q].kind = e.kind /\ ft[q].data = e.data
                   /\ ft[q].mode = DataMode(e.kind, e.mode)
                   /\ ft[q].target = IF e.kind = "symlink"
                                     THEN [e.target EXCEPT !.parts = Normalised(e.target.parts)]
                                     ELSE None
    <3> DEFINE e == tree[q]
    <3>1. IsEntry(e) /\ e.kind # "special"
      BY <1>1 DEF NoSpecial
    <3>2. ft[q] = Filtered("data", e.kind, e)
      BY <2>2
    <3> HIDE DEF e, ft
    <3>3. /\ IsEntry(ft[q]) /\ ft[q].kind = e.kind /\ ft[q].data = e.data
          /\ ft[q].mode = DataMode(e.kind, e.mode)
          /\ ft[q].target = IF e.kind = "symlink"
                            THEN [e.target EXCEPT !.parts = Normalised(e.target.parts)] ELSE None
      BY <3>1, <3>2, FilteredEntry
    <3> QED
      BY <3>3 DEF e
  <2>5. ft = [q \in DOMAIN ft |-> ft[q]]
    BY DEF FilteredTree
  <2>6. fs \in Seq({fs[k] : k \in DOMAIN ms}) /\ \A x \in {fs[k] : k \in DOMAIN ms} : IsMember(x)
    <3>1. DOMAIN ms = 1 .. Len(ms) /\ Len(ms) \in Nat
      BY <1>2, LenProperties
    <3>2. fs = [k \in 1 .. Len(ms) |-> fs[k]]
      BY <3>1 DEF AsFiltered
    <3> HIDE DEF fs
    <3>3. fs \in Seq({fs[k] : k \in DOMAIN ms})
      <4> DEFINE n == Len(ms)
                 T == {fs[k] : k \in DOMAIN ms}
      <4>1. \A k \in 1 .. n : fs[k] \in T
        BY <3>1
      <4>2. fs \in [1 .. n -> T]
        <5> HIDE DEF T, n
        <5> QED
          BY <3>2, <4>1 DEF n
      <4>3. n \in Nat
        BY <3>1
      <4> HIDE DEF T, n
      <4> QED
        BY <4>2, <4>3 DEF T
    <3> QED
      BY <2>3, <3>3
  <2> HIDE DEF fs, ft, F
  <2>7. IsArchive(fs)
    BY <2>6 DEF IsArchive
  <2>8. IsTree(ft)
    <3>1. ASSUME NEW path \in DOMAIN ft
          PROVE  /\ path \in Seq(STRING) \ {<<>>}
                 /\ \A k \in DOMAIN path : path[k] \notin NotAPart
                 /\ IsEntry(ft[path])
                 /\ Len(path) > 1 =>
                      DirOf(path) \in DOMAIN ft /\ ft[DirOf(path)].kind = "directory"
      <4>1. path \in DOMAIN tree
        BY <2>2
      <4>2. /\ path \in Seq(STRING) \ {<<>>}
            /\ \A k \in DOMAIN path : path[k] \notin NotAPart
            /\ Len(path) > 1 =>
                 DirOf(path) \in DOMAIN tree /\ tree[DirOf(path)].kind = "directory"
        BY <1>1, <4>1 DEF IsTree
      <4>3. IsEntry(ft[path])
        BY <2>4, <4>1
      <4>4. \A q \in DOMAIN tree : ft[q].kind = tree[q].kind
        BY <2>4
      <4> QED
        BY <2>2, <4>2, <4>3, <4>4
    <3>2. IsFiniteSet(DOMAIN ft)
      BY <1>1, <2>2 DEF IsTree
    <3> QED
      BY <2>5, <3>1, <3>2 DEF IsTree
  <2>9. DOMAIN ft = {fs[k].name : k \in DOMAIN fs}
        /\ \A i, j \in DOMAIN fs : fs[i].name = fs[j].name => i = j
    <3>1. DOMAIN tree = {ms[k].name : k \in DOMAIN ms}
          /\ \A i, j \in DOMAIN ms : ms[i].name = ms[j].name => i = j
      BY DEF Keeps
    <3>2. DOMAIN fs = DOMAIN ms /\ \A k \in DOMAIN ms : fs[k].name = ms[k].name
      BY <2>1, <2>3
    <3>3. {fs[k].name : k \in DOMAIN fs} = {ms[k].name : k \in DOMAIN ms}
      BY <3>2
    <3> QED
      BY <2>2, <3>1, <3>2, <3>3
  <2>10. ASSUME NEW k \in DOMAIN fs
         PROVE  LET e == ft[fs[k].name]
                IN  /\ e.mode = fs[k].mode
                    /\ fs[k].type # "link" =>
                         e = [kind |-> fs[k].type, mode |-> fs[k].mode,
                              data |-> fs[k].data, target |-> fs[k].target]
                    /\ fs[k].type = "link" =>
                         \E j \in 1 .. k - 1 :
                             /\ fs[j].name = fs[k].link /\ fs[j].type = "file"
                             /\ ft[fs[j].name] = e
    <3> DEFINE m == ms[k]
               f == fs[k]
               e == tree[m.name]
               g == ft[m.name]
    <3>1. k \in DOMAIN ms /\ m.name \in DOMAIN tree
      BY <2>1 DEF Keeps
    <3>2. /\ f.name = m.name /\ f.type = m.type /\ f.link = m.link /\ f.data = m.data
          /\ f.mode = DataMode(m.type, m.mode)
          /\ f.target = IF m.type = "symlink"
                        THEN [m.target EXCEPT !.parts = Normalised(m.target.parts)] ELSE None
      BY <2>3, <3>1
    <3>3. /\ IsEntry(g) /\ g.kind = e.kind /\ g.data = e.data
          /\ g.mode = DataMode(e.kind, e.mode)
          /\ g.target = IF e.kind = "symlink"
                        THEN [e.target EXCEPT !.parts = Normalised(e.target.parts)] ELSE None
      BY <2>4, <3>1
    <3>4. e.mode = m.mode
      BY <3>1 DEF Keeps
    <3>5. CASE m.type # "link"
      <4>1. e = [kind |-> m.type, mode |-> m.mode, data |-> m.data, target |-> m.target]
        BY <3>1, <3>5 DEF Keeps
      <4>2. e.kind = m.type /\ e.data = m.data /\ e.target = m.target
        BY <4>1
      <4>3. g = [kind |-> g.kind, mode |-> g.mode, data |-> g.data, target |-> g.target]
        BY <3>3 DEF IsEntry
      <4> HIDE DEF m, f, e, g
      <4>4. g.kind = f.type /\ g.mode = f.mode /\ g.data = f.data /\ g.target = f.target
        BY <3>2, <3>3, <3>4, <4>2
      <4>5. g = [kind |-> f.type, mode |-> f.mode, data |-> f.data, target |-> f.target]
        BY <4>3, <4>4
      <4>6. f.type # "link" /\ g = ft[f.name]
        BY <3>2, <3>5 DEF g
      <4> QED
        BY <4>4, <4>5, <4>6 DEF f
    <3>6. CASE m.type = "link"
      <4>1. PICK j \in 1 .. k - 1 : /\ ms[j].name = m.link /\ ms[j].type = "file"
                                    /\ tree[ms[j].name] = e
        BY <3>1, <3>6 DEF Keeps
      <4>2. j \in DOMAIN ms /\ ms[j].name \in DOMAIN tree
        <5>1. DOMAIN ms = 1 .. Len(ms) /\ Len(ms) \in Nat
          BY <1>2, LenProperties
        <5>2. j \in DOMAIN ms
          BY <3>1, <5>1
        <5> QED
          BY <5>2 DEF Keeps
      <4>3. fs[j].name = f.link /\ fs[j].type = "file"
        BY <2>3, <3>2, <4>1, <4>2
      <4>4. ft[ms[j].name] = Filtered("data", e.kind, e) /\ g = Filtered("data", e.kind, e)
        BY <2>2, <3>1, <4>1, <4>2
      <4>5. fs[j].name = ms[j].name
        BY <2>3, <4>2
      <4>6. e.kind = "file"
        <5>1. tree[ms[j].name] = [kind |-> ms[j].type, mode |-> ms[j].mode,
                                  data |-> ms[j].data, target |-> ms[j].target]
          BY <4>1, <4>2 DEF Keeps
        <5> QED
          BY <4>1, <5>1
      <4>7. g.mode = f.mode
        BY <3>2, <3>3, <3>4, <3>6, <4>6 DEF DataMode
      <4> QED
        BY <3>2, <3>6, <4>3, <4>4, <4>5, <4>7
    <3> QED
      BY <3>5, <3>6
  <2>11. Keeps(fs, ft)
    BY <2>7, <2>8, <2>9, <2>10 DEF Keeps
  <2> QED
    BY <1>4, <2>11 DEF fs, ft
<1> QED
  BY <1>3, <1>4 DEF Filters

\* Installing an audited archive gives the tree that was built, as the filter of
\* pup's Python leaves it; the filter refuses it for an absolute link only.
THEOREM Installs == Spec => []InstallsWhatWasBuilt
<1>1. ASSUME IInv, Vouched, NEW p \in Selected, NEW filter \in Filters,
             LinkedAsCreated(archive[p])
      PROVE  IF IsRefused(filter, archive[p])
             THEN filter = "data" /\ \E path \in Links(root[p]) : root[p][path].target.base = "abs"
             ELSE Installed(AsFiltered(filter, archive[p])) = FilteredTree(filter, root[p])
  <2> DEFINE ms == archive[p]
             tree == root[p]
  <2>1. Keeps(ms, tree)
    BY <1>1, VouchedArchive
  <2>2. MembersOk(ms) /\ NoSpecial(tree) /\ LinksOk(tree)
    BY <1>1, VouchedFacts
  <2> HIDE DEF ms, tree
  <2>3. Installed(AsFiltered(filter, ms)) = FilteredTree(filter, tree)
    BY <2>1, <2>2, FilteredKeeps, InstalledIsKept
  <2>4. ASSUME IsRefused(filter, ms)
        PROVE  filter = "data" /\ \E path \in Links(tree) : tree[path].target.base = "abs"
    <3>1. PICK m \in ToSet(ms) : m.type = "special" \/ (m.type = "symlink" /\ m.target.base # "rel")
      BY <2>4 DEF IsRefused
    <3>2. PICK k \in DOMAIN ms : m = ms[k]
      BY <3>1 DEF ToSet
    <3>3. m.type = "symlink" /\ m.target.base # "rel"
      BY <2>2, <3>1, <3>2 DEF MembersOk, MemberOk
    <3>4. m.name \in DOMAIN tree
          /\ tree[m.name] = [kind |-> m.type, mode |-> m.mode, data |-> m.data, target |-> m.target]
      BY <2>1, <3>2, <3>3 DEF Keeps
    <3>5. m.name \in Links(tree) /\ tree[m.name].target.base # "rel"
      BY <3>3, <3>4 DEF Links
    <3>6. LinkOk(m.name, tree[m.name].target)
      BY <2>2, <3>5 DEF LinksOk
    <3>7. tree[m.name].target.base = "abs"
      BY <3>5, <3>6 DEF LinkOk
    <3> QED
      BY <2>4, <3>5, <3>7 DEF IsRefused
  <2> QED
    BY <2>3, <2>4 DEF ms, tree
<1>2. IInv => InstallsWhatWasBuilt
  BY <1>1 DEF InstallsWhatWasBuilt, FilteredTree
<1> QED
  BY <1>2, Invariance, PTL

-----------------------------------------------------------------------------
(* Where the links of a package lead.                                      *)

LEMMA PathGrows ==
    ASSUME NEW S, NEW path \in Seq(S), NEW i \in 0 .. Len(path) - 1
    PROVE  /\ SubSeq(path, 1, i) \in Seq(S)
           /\ Append(SubSeq(path, 1, i), path[i + 1]) = SubSeq(path, 1, i + 1)
<1>1. Len(path) \in Nat /\ \A j \in 1 .. Len(path) : path[j] \in S
  BY LenProperties, ElementOfSeq
<1>2. 1 \in 1 .. Len(path) /\ i + 1 \in 1 .. Len(path) /\ i \in Int /\ (i + 1) - 1 = i
      /\ \A j \in 1 .. i : j \in 1 .. Len(path)
  BY <1>1
<1>3. SubSeq(path, 1, i) \in Seq(S)
  <2>1. \A j \in 1 .. i : path[j] \in S
    BY <1>1, <1>2
  <2> QED
    BY <1>2, <2>1, SubSeqProperties
<1>4. SubSeq(path, 1, i + 1) = SubSeq(path, 1, (i + 1) - 1) \o <<path[i + 1]>>
  BY <1>2, SubSeqRecursiveSecond
<1>5. Append(SubSeq(path, 1, i), path[i + 1]) = SubSeq(path, 1, i) \o <<path[i + 1]>>
  BY <1>1, <1>2, <1>3, AppendIsConcat
<1> QED
  BY <1>2, <1>3, <1>4, <1>5

\* A walk comes to a path of the tree, and is then in its directory with its
\* last part left.
LEMMA WalkComes ==
    ASSUME NEW tree, IsTree(tree), TargetsOver(tree, STRING), NEW path \in DOMAIN tree,
           NEW turn, WalksBy(turn, tree, <<>>, path)
    PROVE  turn[Len(path) - 1] = [dir |-> DirOf(path), parts |-> <<Last(path)>>]
<1> DEFINE n == Len(path)
           There(i) == [dir |-> SubSeq(path, 1, i), parts |-> SubSeq(path, i + 1, n)]
           P == {i \in Nat : i < n => turn[i] = There(i)}
<1>1. path \in Seq(STRING) /\ path # <<>> /\ n \in Nat \ {0} /\ DOMAIN path = 1 .. n
  BY LenProperties, EmptySeq DEF IsTree
<1>2. 0 \in P
  <2>1. SubSeq(path, 1, 0) = <<>> /\ SubSeq(path, 1, n) = path
    BY <1>1, SubSeqEmpty, SubSeqFull
  <2>2. turn[0] = [dir |-> <<>>, parts |-> path]
    BY DEF WalksBy
  <2>3. There(0) = [dir |-> <<>>, parts |-> path]
    <3>1. 0 + 1 = 1
      OBVIOUS
    <3> HIDE DEF n
    <3> QED
      BY <2>1, <3>1
  <2> HIDE DEF n, There
  <2> QED
    BY <2>2, <2>3
<1>3. ASSUME NEW i \in Nat, i \in P
      PROVE  i + 1 \in P
  <2>1. SUFFICES ASSUME i + 1 < n
                 PROVE  turn[i + 1] = There(i + 1)
    OBVIOUS
  <2>2. i \in 0 .. n - 1 /\ i < n /\ i + 1 \in 1 .. n - 1 /\ i + 1 \in 1 .. n /\ (i + 1) - 1 = i
        /\ (i + 1) + 1 = i + 2
    <3> HIDE DEF n
    <3> QED
      BY <1>1, <2>1
  <2>3. i + 1 \in 1 .. Turns(path)
    <3>1. n <= Turns(path) /\ Turns(path) \in Nat
      BY <1>1, AuditAssumption DEF Turns
    <3> HIDE DEF n
    <3> QED
      BY <1>1, <2>2, <3>1
  <2>4. turn[i + 1] = WalkStep(tree, turn[i])
    BY <2>2, <2>3 DEF WalksBy
  <2> DEFINE here == turn[i]
             part == path[i + 1]
  <2>5. here = There(i)
    BY <1>3, <2>2
  <2>6. /\ SubSeq(path, i + 1, n) # <<>>
        /\ Head(SubSeq(path, i + 1, n)) = part
        /\ Tail(SubSeq(path, i + 1, n)) = SubSeq(path, i + 2, n)
    BY <1>1, <2>2, RestOfPath
  <2>7. Append(SubSeq(path, 1, i), part) = SubSeq(path, 1, i + 1)
    BY <1>1, <2>2, PathGrows
  <2>8. SubSeq(path, 1, i + 1) \notin Links(tree)
    BY <2>2, Ancestors DEF Links
  <2>9. part \notin {".", ".."}
    BY <1>1, <2>2 DEF IsTree, NotAPart
  <2> HIDE DEF here, part, n
  <2>10. /\ here.parts # <<>> /\ Head(here.parts) = part /\ here.dir = SubSeq(path, 1, i)
         /\ Tail(here.parts) = SubSeq(path, i + 2, n)
    BY <2>5, <2>6
  <2>11. WalkStep(tree, here) =
           [dir |-> Append(here.dir, Head(here.parts)), parts |-> Tail(here.parts)]
    BY <2>7, <2>8, <2>9, <2>10, WalkGoesDown
  <2>12. WalkStep(tree, here) = There(i + 1)
    BY <2>2, <2>7, <2>10, <2>11
  <2> QED
    BY <2>4, <2>12 DEF here
<1>4. Nat \subseteq P
  <2> HIDE DEF P
  <2> QED
    BY <1>2, <1>3, NatInduct
<1>5. turn[n - 1] = There(n - 1)
  <2>1. n - 1 \in Nat /\ n - 1 < n
    <3> HIDE DEF n
    <3> QED
      BY <1>1
  <2> DEFINE m == n - 1
  <2>2. m \in P /\ m < n
    BY <1>4, <2>1
  <2> HIDE DEF n, There, m
  <2>3. turn[m] = There(m)
    BY <2>2
  <2> QED
    BY <2>3 DEF m
<1>6. SubSeq(path, (n - 1) + 1, n) = <<Last(path)>>
  <2>1. (n - 1) + 1 = n /\ n \in 1 .. n
    <3> HIDE DEF n
    <3> QED
      BY <1>1
  <2> DEFINE rest == SubSeq(path, n, n)
  <2>2. rest # <<>> /\ Head(rest) = path[n] /\ Tail(rest) = SubSeq(path, n + 1, n)
        /\ rest \in Seq(STRING)
    BY <1>1, <2>1, RestOfPath
  <2>3. Len(rest) = 1 /\ rest[1] = path[n]
    <3>1. path[n] \in STRING /\ n \in Int /\ n <= n /\ n - n + 1 = 1
      BY <1>1, <2>1, ElementOfSeq
    <3>2. \A i \in n .. n : path[i] \in STRING
      <4>1. \A i \in n .. n : i = n
        <5> HIDE DEF n
        <5> QED
          BY <3>1
      <4> QED
        BY <3>1, <4>1
    <3> DEFINE m == n
    <3> HIDE DEF m
    <3>3. /\ Len(SubSeq(path, m, m)) = IF m <= m THEN m - m + 1 ELSE 0
          /\ \A i \in 1 .. m - m + 1 : SubSeq(path, m, m)[i] = path[m + i - 1]
      BY <3>1, <3>2, SubSeqProperties DEF m
    <3>4. 1 \in 1 .. m - m + 1 /\ m + 1 - 1 = m /\ m <= m /\ m - m + 1 = 1
      BY <3>1 DEF m
    <3>5. Len(SubSeq(path, m, m)) = 1 /\ SubSeq(path, m, m)[1] = path[m]
      BY <3>3, <3>4
    <3> QED
      BY <3>5 DEF m
  <2> HIDE DEF rest
  <2>4. rest = <<path[n]>>
    BY <2>2, <2>3
  <2> QED
    BY <2>1, <2>4 DEF rest, Last
<1> QED
  BY <1>5, <1>6 DEF DirOf

LEMMA HeadTailConcat ==
    ASSUME NEW S, NEW s \in Seq(S), NEW r \in Seq(S), s # <<>>
    PROVE  /\ s \o r # <<>> /\ Head(s \o r) = Head(s) /\ Tail(s \o r) = Tail(s) \o r
<1> DEFINE x == Head(s)
           q == Tail(s)
           one == <<x>>
<1>1. x \in S /\ q \in Seq(S)
  BY HeadTailProperties
<1>2. one \in Seq(S) /\ Len(one) = 1 /\ one[1] = x
  BY <1>1, OnePart
<1>3. s = one \o q
  <2>1. 1 \in 1 .. Len(s) /\ Len(s) \in 1 .. Len(s) /\ Len(s) \in Nat
    BY EmptySeq, LenProperties
  <2>2. SubSeq(s, 1, Len(s)) = <<s[1]>> \o SubSeq(s, 2, Len(s))
    BY <2>1, SubSeqRecursiveFirst
  <2>3. SubSeq(s, 1, Len(s)) = s /\ q = SubSeq(s, 2, Len(s)) /\ x = s[1]
    BY SubSeqFull, TailIsSubSeq
  <2> QED
    BY <2>2, <2>3
<1> HIDE DEF x, q, one
<1>4. s \o r = one \o (q \o r) /\ q \o r \in Seq(S)
  <2>1. (one \o q) \o r = one \o (q \o r)
    <3>1. one \in Seq(S) /\ q \in Seq(S)
      BY <1>1, <1>2
    <3> QED
      BY <3>1, ConcatAssociative, SMTT(20)
  <2>2. q \o r \in Seq(S)
    BY <1>1, ConcatProperties
  <2> QED
    BY <1>3, <2>1, <2>2
<1> DEFINE u == q \o r
           w == one \o u
<1>5. /\ w \in Seq(S) /\ Len(u) \in Nat /\ Len(w) = 1 + Len(u)
      /\ \A i \in 1 .. 1 + Len(u) : w[i] = IF i <= 1 THEN one[i] ELSE u[i - 1]
  <2>1. u \in Seq(S) /\ Len(u) \in Nat
    BY <1>4, LenProperties
  <2> HIDE DEF u
  <2>2. /\ w \in Seq(S) /\ Len(w) = Len(one) + Len(u)
        /\ \A i \in 1 .. Len(one) + Len(u) : w[i] = IF i <= Len(one) THEN one[i] ELSE u[i - Len(one)]
    BY <1>2, <2>1, ConcatProperties
  <2> HIDE DEF w
  <2> QED
    BY <1>2, <2>1, <2>2
<1> HIDE DEF u, w
<1>6. w # <<>> /\ Head(w) = x
  <2>1. w[1] = x
    BY <1>2, <1>5
  <2>2. w # <<>>
    BY <1>5, EmptySeq
  <2> QED
    BY <1>5, <2>1, <2>2
<1>7. Tail(w) = u
  <2>1. Tail(w) \in Seq(S) /\ Len(Tail(w)) = Len(u)
        /\ \A i \in 1 .. Len(u) : Tail(w)[i] = w[i + 1]
    <3>1. w \in Seq(S) /\ w # <<>>
      BY <1>5, <1>6
    <3>2. Tail(w) \in Seq(S) /\ Len(Tail(w)) = Len(w) - 1
          /\ \A i \in 1 .. Len(Tail(w)) : Tail(w)[i] = w[i + 1]
      BY <3>1, HeadTailProperties
    <3>3. Len(Tail(w)) = Len(u)
      BY <1>5, <3>2
    <3> QED
      BY <3>2, <3>3
  <2>2. \A i \in 1 .. Len(u) : Tail(w)[i] = u[i]
    BY <1>5, <2>1
  <2>3. u \in Seq(S)
    BY <1>4 DEF u
  <2> QED
    BY <2>1, <2>2, <2>3, SeqEqual
<1> QED
  BY <1>4, <1>6, <1>7 DEF u, w, x, q

\* One more part of a path.
LEMMA ResolvedAppend ==
    ASSUME NEW S, NEW dir \in Seq(S), NEW parts \in Seq(S), NEW part \in S
    PROVE  Resolved(dir, Append(parts, part)) = AfterPart(Resolved(dir, parts), part)
<1> DEFINE n == Len(parts)
           more == Append(parts, part)
<1>1. /\ n \in Nat /\ more \in Seq(S) /\ Len(more) = n + 1
      /\ \A i \in 1 .. n : more[i] = parts[i]
      /\ more[n + 1] = part
  BY LenProperties, AppendProperties
<1>2. PICK a : Resolves(a, dir, parts) /\ Resolved(dir, parts) = a[n]
  BY ResolvedRecursion
<1>3. PICK b : Resolves(b, dir, more) /\ Resolved(dir, more) = b[Len(more)]
  <2>1. more \in Seq(S)
    BY <1>1
  <2> HIDE DEF more
  <2> QED
    BY <2>1, ResolvedRecursion
<1> HIDE DEF n, more
<1>4. a[0] = b[0] /\ \A i \in 1 .. n : a[i] = AfterPart(a[i - 1], parts[i])
  BY <1>2, <1>3 DEF Resolves, n
<1>5. \A i \in 1 .. n + 1 : b[i] = AfterPart(b[i - 1], more[i])
  BY <1>1, <1>3 DEF Resolves
<1> DEFINE P == {i \in Nat : i <= n => a[i] = b[i]}
<1>6. 0 \in P
  BY <1>4
<1>7. ASSUME NEW i \in Nat, i \in P
      PROVE  i + 1 \in P
  <2>1. SUFFICES ASSUME i + 1 <= n
                 PROVE  a[i + 1] = b[i + 1]
    OBVIOUS
  <2>2. i + 1 \in 1 .. n /\ i + 1 \in 1 .. n + 1 /\ (i + 1) - 1 = i /\ i <= n
    BY <1>1, <2>1
  <2>3. a[i + 1] = AfterPart(a[i], parts[i + 1])
    BY <1>4, <2>2
  <2>4. b[i + 1] = AfterPart(b[i], more[i + 1])
    BY <1>5, <2>2
  <2>5. a[i] = b[i] /\ more[i + 1] = parts[i + 1]
    BY <1>1, <1>7, <2>2
  <2> QED
    BY <2>3, <2>4, <2>5
<1>8. Nat \subseteq P
  <2> HIDE DEF P
  <2> QED
    BY <1>6, <1>7, NatInduct
<1>9. a[n] = b[n]
  BY <1>1, <1>8
<1>10. b[n + 1] = AfterPart(b[n], part)
  <2>1. n + 1 \in 1 .. n + 1 /\ (n + 1) - 1 = n
    BY <1>1
  <2>2. b[n + 1] = AfterPart(b[(n + 1) - 1], more[n + 1])
    BY <1>5, <2>1
  <2> QED
    BY <1>1, <2>1, <2>2
<1> QED
  BY <1>1, <1>2, <1>3, <1>9, <1>10 DEF more

\* A target by its text: where it is taken from, one part further, and its end.
LEMMA TextFacts ==
    ASSUME NEW path \in Seq(STRING), path # <<>>,
           NEW target, target.parts \in Seq(STRING)
    PROVE  /\ \A k \in 0 .. Len(target.parts) : ByText(path, target, k) \in Seq(STRING)
           /\ ByText(path, target, 0) = From(path, target)
           /\ ByText(path, target, Len(target.parts))
                = Resolved(From(path, target), target.parts).dir
           /\ \A k \in 0 .. Len(target.parts) - 1 :
                \E stop \in Stops(STRING) :
                    /\ ByText(path, target, k) = stop.dir
                    /\ ByText(path, target, k + 1) = AfterPart(stop, target.parts[k + 1]).dir
<1> DEFINE T == target.parts
           t == Len(T)
           dir0 == From(path, target)
           Upto(k) == Resolved(dir0, SubSeq(T, 1, k))
<1>1. T \in Seq(STRING) /\ t \in Nat /\ <<>> \in Seq(STRING)
  BY LenProperties, EmptySeq
<1>2. dir0 \in Seq(STRING)
  BY <1>1, DirOfFacts DEF From
<1>3. \A k : ByText(path, target, k) = Upto(k).dir
  BY DEF ByText
<1> HIDE DEF T, t, dir0
<1>4. ASSUME NEW k \in 0 .. t
      PROVE  SubSeq(T, 1, k) \in Seq(STRING)
  <2>1. \A i \in 1 .. k : T[i] \in STRING
    <3>1. \A i \in 1 .. k : i \in 1 .. t
      BY <1>1
    <3> QED
      BY <1>1, <3>1, ElementOfSeq DEF t
  <2> QED
    BY <1>1, <2>1, SubSeqProperties
<1>5. ASSUME NEW k \in 0 .. t
      PROVE  Upto(k) \in Stops(STRING)
  <2> DEFINE parts == SubSeq(T, 1, k)
  <2>1. parts \in Seq(STRING)
    BY <1>4
  <2> HIDE DEF parts
  <2>2. PICK stops : /\ Resolves(stops, dir0, parts)
                     /\ \A i \in 0 .. Len(parts) : stops[i] \in Stops(STRING)
                     /\ Resolved(dir0, parts) = stops[Len(parts)]
    BY <1>2, <2>1, ResolvedRecursion
  <2>3. Len(parts) \in 0 .. Len(parts)
    BY <2>1, LenProperties
  <2>4. Resolved(dir0, parts) \in Stops(STRING)
    BY <2>2, <2>3
  <2> QED
    BY <2>4 DEF parts
<1>6. Upto(0).dir = dir0
  <2>1. PICK stops : Resolves(stops, dir0, <<>>) /\ Resolved(dir0, <<>>) = stops[Len(<<>>)]
    <3> DEFINE none == <<>>
    <3>1. none \in Seq(STRING)
      BY <1>1
    <3> HIDE DEF none
    <3>2. \E stops : Resolves(stops, dir0, none) /\ Resolved(dir0, none) = stops[Len(none)]
      BY <1>2, <3>1, ResolvedRecursion
    <3> QED
      BY <3>2 DEF none
  <2>2. stops[0].dir = dir0 /\ Len(<<>>) = 0
    BY <2>1, EmptySeq DEF Resolves
  <2>3. SubSeq(T, 1, 0) = <<>>
    BY SubSeqEmpty
  <2> QED
    BY <2>1, <2>2, <2>3
<1>7. Upto(t) = Resolved(dir0, T)
  <2>1. SubSeq(T, 1, t) = T
    BY <1>1, SubSeqFull DEF t
  <2> QED
    BY <2>1
<1>8. ASSUME NEW k \in 0 .. t - 1
      PROVE  Upto(k + 1) = AfterPart(Upto(k), T[k + 1]) /\ Upto(k) \in Stops(STRING)
  <2>1. k \in 0 .. t /\ k + 1 \in 1 .. t
    BY <1>1
  <2>2. T[k + 1] \in STRING
    BY <1>1, <2>1, ElementOfSeq DEF t
  <2>3. Append(SubSeq(T, 1, k), T[k + 1]) = SubSeq(T, 1, k + 1)
    BY <1>1, PathGrows DEF t
  <2> DEFINE parts == SubSeq(T, 1, k)
             part == T[k + 1]
  <2>4. parts \in Seq(STRING)
    BY <1>4, <2>1
  <2> HIDE DEF parts, part
  <2>5. Resolved(dir0, Append(parts, part)) = AfterPart(Resolved(dir0, parts), part)
    BY <1>2, <2>2, <2>4, ResolvedAppend DEF part
  <2> QED
    BY <1>5, <2>1, <2>3, <2>5 DEF parts, part
<1> HIDE DEF Upto
<1>9. \A k \in 0 .. t : ByText(path, target, k) \in Seq(STRING)
  BY <1>3, <1>5 DEF Stops
<1>10. \A k \in 0 .. t - 1 :
         \E stop \in Stops(STRING) :
             /\ ByText(path, target, k) = stop.dir
             /\ ByText(path, target, k + 1) = AfterPart(stop, T[k + 1]).dir
  BY <1>3, <1>8
<1> QED
  BY <1>3, <1>6, <1>7, <1>9, <1>10 DEF T, t, dir0

\* An absolute target without ".." stays below its first part.
LEMMA AbsoluteTarget ==
    ASSUME NEW T \in Seq(STRING), T # <<>>, T[1] \in FhsTop, ".." \notin ToSet(T),
           NEW stops, Resolves(stops, <<>>, T), \A i \in 0 .. Len(T) : stops[i] \in Stops(STRING)
    PROVE  stops[Len(T)].dir # <<>> /\ stops[Len(T)].dir[1] \in FhsTop
<1> DEFINE t == Len(T)
           Below(i) == stops[i].dir # <<>> /\ stops[i].dir[1] \in FhsTop
           P == {i \in Nat : 1 <= i /\ i <= t => Below(i)}
<1>1. t \in Nat \ {0} /\ DOMAIN T = 1 .. t /\ <<>> \in Seq(STRING)
  BY LenProperties, EmptySeq
<1>2. ASSUME NEW dir \in Seq(STRING), NEW part \in STRING
      PROVE  /\ Append(dir, part) # <<>>
             /\ Append(dir, part)[1] = IF dir = <<>> THEN part ELSE dir[1]
  <2>1. Len(dir) \in Nat /\ (dir = <<>> <=> Len(dir) = 0)
    BY LenProperties, EmptySeq
  <2>2. /\ Append(dir, part) # <<>>
        /\ \A i \in 1 .. Len(dir) : Append(dir, part)[i] = dir[i]
        /\ Append(dir, part)[Len(dir) + 1] = part
    BY AppendProperties
  <2> QED
    BY <2>1, <2>2
<1>3. 0 \in P
  <2> HIDE DEF t, Below
  <2> QED
    OBVIOUS
<1>4. ASSUME NEW i \in Nat, i \in P
      PROVE  i + 1 \in P
  <2>1. SUFFICES ASSUME i + 1 <= t
                 PROVE  Below(i + 1)
    OBVIOUS
  <2>2. i + 1 \in 1 .. t /\ i \in 0 .. t /\ (i + 1) - 1 = i /\ i <= t
    <3> HIDE DEF t
    <3> QED
      BY <1>1, <2>1
  <2> DEFINE stop == stops[i]
             part == T[i + 1]
  <2>3. stops[i + 1] = AfterPart(stop, part) /\ stop \in Stops(STRING)
    BY <2>2 DEF Resolves
  <2>4. part \in STRING /\ part # ".."
    BY <1>1, <2>2, ElementOfSeq DEF ToSet
  <2>5. stop.dir \in Seq(STRING)
    BY <2>3 DEF Stops
  <2>6. CASE i = 0
    <3>1. stop.dir = <<>> /\ part \in FhsTop
      BY <2>6 DEF Resolves
    <3>2. part \notin {".", ".."}
      BY <3>1 DEF FhsTop
    <3> HIDE DEF stop, part
    <3>3. stops[i + 1].dir = Append(stop.dir, part)
      BY <2>3, <2>4, <3>2, AfterName
    <3>4. Append(stop.dir, part) # <<>> /\ Append(stop.dir, part)[1] = part
      BY <1>2, <2>4, <2>5, <3>1
    <3> QED
      BY <3>1, <3>3, <3>4
  <2>7. CASE i # 0
    <3>1. stop.dir # <<>> /\ stop.dir[1] \in FhsTop
      <4>1. 1 <= i /\ i <= t
        BY <2>2, <2>7
      <4>2. Below(i)
        <5> HIDE DEF Below, t
        <5> QED
          BY <1>4, <4>1
      <4> QED
        BY <4>2
    <3> HIDE DEF stop, part
    <3>2. CASE part = "."
      <4>1. AfterPart(stop, part).dir = stop.dir
        BY <2>3, <2>4, <3>2, AfterPartFacts
      <4> QED
        BY <2>3, <3>1, <4>1
    <3>3. CASE part # "."
      <4>1. AfterPart(stop, part).dir = Append(stop.dir, part)
        BY <2>3, <2>4, <3>3, AfterName
      <4>2. Append(stop.dir, part) # <<>> /\ Append(stop.dir, part)[1] = stop.dir[1]
        BY <1>2, <2>4, <2>5, <3>1
      <4> QED
        BY <2>3, <3>1, <4>1, <4>2
    <3> QED
      BY <3>2, <3>3
  <2> QED
    BY <2>6, <2>7
<1>5. Nat \subseteq P
  <2> HIDE DEF P
  <2> QED
    BY <1>3, <1>4, NatInduct
<1>6. t \in P /\ 1 <= t /\ t <= t
  BY <1>1, <1>5
<1>7. Below(t)
  <2> HIDE DEF t, Below
  <2> QED
    BY <1>6
<1> QED
  BY <1>7

InFhs(dir) == dir # <<>> /\ dir[1] \in FhsTop
NoUp(parts) == \A i \in DOMAIN parts : parts[i] # ".."

\* Read by its text, an accepted target leads into the FHS.
LEMMA TextInFhs ==
    ASSUME NEW path \in Seq(STRING), path # <<>>, NEW target, target.parts \in Seq(STRING),
           LinkOk(path, target)
    PROVE  InFhs(ByText(path, target, Len(target.parts)))
<1> DEFINE T == target.parts
           dir0 == From(path, target)
<1>1. ByText(path, target, Len(T)) = Resolved(dir0, T).dir
  BY TextFacts
<1>2. target.base \in {"rel", "abs"}
  BY DEF LinkOk
<1>3. CASE target.base = "rel"
  <2>1. dir0 = DirOf(path)
    BY <1>3 DEF From
  <2>2. Resolved(DirOf(path), T).dir # <<>> /\ Resolved(DirOf(path), T).dir[1] \in FhsTop
    BY <1>3 DEF LinkOk
  <2> QED
    BY <1>1, <2>1, <2>2 DEF InFhs
<1>4. CASE target.base = "abs"
  <2>1. dir0 = <<>> /\ <<>> \in Seq(STRING)
    BY <1>4, EmptySeq DEF From
  <2>2. T # <<>> /\ ".." \notin ToSet(T) /\ T[1] \in FhsTop /\ T \in Seq(STRING)
    BY <1>4 DEF LinkOk
  <2> HIDE DEF T
  <2>3. PICK stops : /\ Resolves(stops, dir0, T)
                     /\ \A i \in 0 .. Len(T) : stops[i] \in Stops(STRING)
                     /\ Resolved(dir0, T) = stops[Len(T)]
    <3> HIDE DEF dir0
    <3>1. dir0 \in Seq(STRING)
      BY <2>1
    <3> QED
      BY <2>2, <3>1, ResolvedRecursion
  <2>4. Resolves(stops, <<>>, T)
    BY <2>1, <2>3
  <2>5. stops[Len(T)].dir # <<>> /\ stops[Len(T)].dir[1] \in FhsTop
    BY <2>2, <2>3, <2>4, AbsoluteTarget
  <2>6. ByText(path, target, Len(T)) = stops[Len(T)].dir
    BY <1>1, <2>3
  <2> QED
    BY <2>5, <2>6 DEF InFhs, T
<1> QED
  BY <1>2, <1>3, <1>4

\* A walk that has gone j parts of the target of link q, after which it has the
\* parts in left to go.
OnTarget(tree, walk, q, j, left) ==
    /\ walk.dir = ByText(q, tree[q].target, j)
    /\ walk.parts = SubSeq(tree[q].target.parts, j + 1, Len(tree[q].target.parts)) \o left

\* A walk that cannot leave the FHS: it is there and goes down only, or it will
\* be there when it has gone the target of a link.
Bound(tree, walk) ==
    \E left \in Seq(STRING) :
        /\ NoUp(left)
        /\ \/ InFhs(walk.dir) /\ walk.parts = left
           \/ \E q \in Links(tree) : \E j \in 0 .. Len(tree[q].target.parts) :
                  OnTarget(tree, walk, q, j, left)

LEMMA LinkFacts ==
    ASSUME NEW tree, IsTree(tree), NEW q \in Links(tree)
    PROVE  /\ q \in DOMAIN tree /\ q \in Seq(STRING) /\ q # <<>>
           /\ tree[q].target.parts \in Seq(STRING) /\ Len(tree[q].target.parts) \in Nat
<1>1. q \in DOMAIN tree /\ q \in Seq(STRING) /\ q # <<>> /\ tree[q].target.parts \in Seq(STRING)
  BY DEF IsTree, Links, IsEntry
<1>2. \A parts \in Seq(STRING) : Len(parts) \in Nat
  BY LenProperties
<1> QED
  BY <1>1, <1>2

\* A path that a name is added to begins as before.
LEMMA StaysInFhs ==
    ASSUME NEW S, NEW dir \in Seq(S), InFhs(dir), NEW part \in S
    PROVE  InFhs(Append(dir, part))
<1>1. dir # <<>> /\ dir[1] \in FhsTop
  BY DEF InFhs
<1>2. 1 \in 1 .. Len(dir)
  BY <1>1, EmptySeq
<1>3. Append(dir, part) # <<>> /\ \A i \in 1 .. Len(dir) : Append(dir, part)[i] = dir[i]
  BY AppendProperties
<1> QED
  BY <1>1, <1>2, <1>3 DEF InFhs

LEMMA NoUpFacts ==
    ASSUME NEW s \in Seq(STRING), NoUp(s), s # <<>>
    PROVE  Head(s) \in STRING /\ Head(s) # ".." /\ Tail(s) \in Seq(STRING) /\ NoUp(Tail(s))
<1>1. Len(s) \in Nat \ {0} /\ DOMAIN s = 1 .. Len(s)
  BY EmptySeq, LenProperties
<1>2. /\ Head(s) \in STRING /\ Tail(s) \in Seq(STRING) /\ Len(Tail(s)) = Len(s) - 1
      /\ \A i \in 1 .. Len(Tail(s)) : Tail(s)[i] = s[i + 1]
  BY HeadTailProperties
<1>3. DOMAIN Tail(s) = 1 .. Len(Tail(s))
  BY <1>2, LenProperties
<1>4. Head(s) = s[1] /\ 1 \in DOMAIN s
  BY <1>1
<1>5. \A i \in 1 .. Len(Tail(s)) : i + 1 \in 1 .. Len(s)
  BY <1>1, <1>2
<1> DEFINE rest == Tail(s)
<1> HIDE DEF rest
<1>6. NoUp(rest)
  BY <1>1, <1>2, <1>3, <1>5 DEF NoUp, rest
<1> QED
  BY <1>2, <1>4, <1>6 DEF NoUp, rest

\* At a link such a walk goes on from its target.
LEMMA EntersLink ==
    ASSUME NEW tree, IsTree(tree), NEW walk \in Walks(STRING), walk.parts # <<>>,
           NEW q \in Links(tree), Append(walk.dir, Head(walk.parts)) = q,
           Head(walk.parts) \notin {".", ".."}, NoUp(Tail(walk.parts))
    PROVE  Bound(tree, WalkStep(tree, walk))
<1> DEFINE target == tree[q].target
           T == target.parts
           rest == Tail(walk.parts)
           end == WalkStep(tree, walk)
<1>1. /\ q \in Seq(STRING) /\ q # <<>> /\ T \in Seq(STRING) /\ Len(T) \in Nat
      /\ walk.dir \in Seq(STRING) /\ walk.parts \in Seq(STRING)
  BY LinkFacts DEF Walks
<1>2. Head(walk.parts) \in STRING /\ rest \in Seq(STRING)
  BY <1>1, HeadTailProperties
<1>3. walk.dir = DirOf(q)
  <2>1. Append(DirOf(q), Last(q)) = q /\ DirOf(q) \in Seq(STRING) /\ Last(q) \in STRING
    BY <1>1, LastOfPath
  <2> DEFINE dir == walk.dir
             part == Head(walk.parts)
  <2>2. dir \in Seq(STRING) /\ part \in STRING /\ Append(dir, part) = Append(DirOf(q), Last(q))
    BY <1>1, <1>2, <2>1
  <2> HIDE DEF dir, part
  <2>3. dir = DirOf(q)
    BY <2>1, <2>2, AppendInjective
  <2> QED
    BY <2>3 DEF dir
<1>4. end = [dir |-> IF target.base = "rel" THEN walk.dir ELSE <<>>, parts |-> T \o rest]
  BY WalkFollows
<1> HIDE DEF T, rest, end
<1>5. end.dir = From(q, target) /\ end.parts = T \o rest
  BY <1>3, <1>4 DEF From
<1>6. ByText(q, target, 0) = From(q, target)
  BY <1>1, TextFacts DEF T
<1>7. SubSeq(T, 0 + 1, Len(T)) = T
  <2>1. 0 + 1 = 1
    OBVIOUS
  <2> QED
    BY <1>1, <2>1, SubSeqFull
<1>8. OnTarget(tree, end, q, 0, rest)
  BY <1>5, <1>6, <1>7 DEF OnTarget, T
<1>9. 0 \in 0 .. Len(T)
  BY <1>1
<1>10. NoUp(rest)
  BY DEF rest
<1>11. Bound(tree, end)
  BY <1>2, <1>8, <1>9, <1>10 DEF Bound, T
<1> QED
  BY <1>11 DEF end

\* ... and one that is in the FHS and goes down stays there, or meets a link.
LEMMA GoesDown ==
    ASSUME NEW tree, IsTree(tree), NEW walk \in Walks(STRING), InFhs(walk.dir), NoUp(walk.parts)
    PROVE  Bound(tree, WalkStep(tree, walk))
<1> DEFINE part == Head(walk.parts)
           rest == Tail(walk.parts)
           next == Append(walk.dir, part)
           end == WalkStep(tree, walk)
<1>1. walk.dir \in Seq(STRING) /\ walk.parts \in Seq(STRING)
  BY DEF Walks
<1>2. CASE walk.parts = <<>>
  <2>1. end = walk
    BY <1>2, WalkEnds
  <2> QED
    BY <1>1, <2>1 DEF Bound
<1>3. ASSUME walk.parts # <<>>
      PROVE  part \in STRING /\ part # ".." /\ rest \in Seq(STRING) /\ NoUp(rest)
  BY <1>1, <1>3, NoUpFacts
<1>4. CASE walk.parts # <<>> /\ part = "."
  <2>1. end = [dir |-> walk.dir, parts |-> rest]
    BY <1>4, WalkStays
  <2> HIDE DEF rest, end
  <2>2. end.dir = walk.dir /\ end.parts = rest
    BY <2>1
  <2>3. Bound(tree, end)
    BY <1>3, <1>4, <2>2 DEF Bound
  <2> QED
    BY <2>3 DEF end
<1>5. CASE walk.parts # <<>> /\ part # "." /\ next \in Links(tree)
  <2>1. part \notin {".", ".."} /\ NoUp(rest)
    BY <1>3, <1>5
  <2> QED
    BY <1>5, <2>1, EntersLink
<1>6. CASE walk.parts # <<>> /\ part # "." /\ next \notin Links(tree)
  <2>1. part \notin {".", ".."}
    BY <1>3, <1>6
  <2>2. end = [dir |-> next, parts |-> rest]
    BY <1>6, <2>1, WalkGoesDown
  <2>3. InFhs(next)
    BY <1>1, <1>3, <1>6, StaysInFhs
  <2> HIDE DEF rest, next, end
  <2>4. end.dir = next /\ end.parts = rest
    BY <2>2
  <2>5. Bound(tree, end)
    BY <1>3, <1>6, <2>3, <2>4 DEF Bound
  <2> QED
    BY <2>5 DEF end
<1> QED
  BY <1>2, <1>4, <1>5, <1>6

\* A walk that cannot leave the FHS still cannot one turn later: a target that
\* has come to a link does not go back by "..".
LEMMA StaysBound ==
    ASSUME NEW tree, IsTree(tree), LinksOk(tree),
           \A q \in Links(tree) : ~ ReturnsFromLink(tree, q),
           NEW walk \in Walks(STRING), Bound(tree, walk)
    PROVE  Bound(tree, WalkStep(tree, walk))
<1>1. PICK left \in Seq(STRING) :
        /\ NoUp(left)
        /\ \/ InFhs(walk.dir) /\ walk.parts = left
           \/ \E q \in Links(tree) : \E j \in 0 .. Len(tree[q].target.parts) :
                  OnTarget(tree, walk, q, j, left)
  BY DEF Bound
<1>2. CASE InFhs(walk.dir) /\ walk.parts = left
  BY <1>1, <1>2, GoesDown
<1>3. ASSUME NEW q \in Links(tree), NEW j \in 0 .. Len(tree[q].target.parts),
             OnTarget(tree, walk, q, j, left)
      PROVE  Bound(tree, WalkStep(tree, walk))
  <2> DEFINE target == tree[q].target
             T == target.parts
             t == Len(T)
             end == WalkStep(tree, walk)
  <2>1. q \in Seq(STRING) /\ q # <<>> /\ T \in Seq(STRING) /\ t \in Nat /\ j \in 0 .. t
        /\ DOMAIN T = 1 .. t
    BY LinkFacts, LenProperties
  <2>2. LinkOk(q, target)
    BY DEF LinksOk
  <2>3. walk.dir = ByText(q, target, j) /\ walk.parts = SubSeq(T, j + 1, t) \o left
    BY <1>3 DEF OnTarget
  <2>4. CASE j = t
    <3>1. InFhs(walk.dir)
      BY <2>1, <2>2, <2>3, <2>4, TextInFhs
    <3>2. walk.parts = left
      <4> HIDE DEF T, t
      <4>1. j + 1 \in Int /\ t \in Int /\ t < j + 1
        BY <2>1, <2>4
      <4>2. SubSeq(T, j + 1, t) = <<>>
        BY <4>1, SubSeqEmpty
      <4> QED
        BY <2>3, <4>2, ConcatEmptySeq
    <3> QED
      BY <1>1, <3>1, <3>2, GoesDown
  <2>5. CASE j < t
    <3> DEFINE part == T[j + 1]
               after == SubSeq(T, j + 2, t)
               rest == after \o left
               next == Append(walk.dir, part)
    <3>1. j + 1 \in 1 .. t /\ j \in 0 .. t - 1 /\ j + 1 \in 0 .. t /\ (j + 1) + 1 = j + 2
      <4> HIDE DEF t
      <4> QED
        BY <2>1, <2>5
    <3>2. part \in STRING
      BY <2>1, <3>1, ElementOfSeq
    <3>3. PICK stop \in Stops(STRING) :
            /\ walk.dir = stop.dir
            /\ ByText(q, target, j + 1) = AfterPart(stop, part).dir
      <4> HIDE DEF t
      <4>1. \E stop \in Stops(STRING) :
              /\ ByText(q, target, j) = stop.dir
              /\ ByText(q, target, j + 1) = AfterPart(stop, T[j + 1]).dir
        BY <2>1, <3>1, TextFacts DEF t
      <4> QED
        BY <2>3, <4>1
    <3>4. /\ walk.parts # <<>> /\ Head(walk.parts) = part /\ Tail(walk.parts) = rest
          /\ after \in Seq(STRING) /\ rest \in Seq(STRING)
      <4> DEFINE more == SubSeq(T, j + 1, t)
      <4>1. more \in Seq(STRING) /\ more # <<>> /\ Head(more) = part /\ Tail(more) = after
        BY <2>1, <3>1, RestOfPath
      <4> HIDE DEF more, part, after
      <4>2. after \in Seq(STRING)
        BY <4>1, HeadTailProperties
      <4>3. more \o left # <<>> /\ Head(more \o left) = part /\ Tail(more \o left) = after \o left
        BY <4>1, HeadTailConcat
      <4>4. walk.parts = more \o left
        BY <2>3 DEF more
      <4>5. after \o left \in Seq(STRING)
        BY <4>2, ConcatProperties
      <4> QED
        BY <4>2, <4>3, <4>4, <4>5
    <3>5. ASSUME end = [dir |-> ByText(q, target, j + 1), parts |-> rest]
          PROVE  Bound(tree, end)
      <4> HIDE DEF end, rest, t, after
      <4>1. end.dir = ByText(q, target, j + 1) /\ end.parts = rest
        BY <3>5
      <4>2. OnTarget(tree, end, q, j + 1, left)
        BY <3>1, <4>1 DEF OnTarget, rest, after, t
      <4>3. \E i \in 0 .. Len(tree[q].target.parts) : OnTarget(tree, end, q, i, left)
        BY <3>1, <4>2 DEF t
      <4> QED
        BY <1>1, <4>3 DEF Bound
    <3>6. CASE part = "."
      <4>1. AfterPart(stop, part).dir = stop.dir
        BY <3>2, <3>6, AfterPartFacts
      <4>2. end = [dir |-> walk.dir, parts |-> rest]
        BY <3>4, <3>6, WalkStays
      <4> HIDE DEF rest, part, end
      <4> QED
        BY <3>3, <3>5, <4>1, <4>2 DEF end
    <3>7. CASE part = ".."
      <4>1. AfterPart(stop, part).dir = IF stop.dir = <<>> THEN <<>> ELSE DirOf(stop.dir)
        BY <3>2, <3>7, AfterPartFacts
      <4>2. end = [dir |-> IF walk.dir = <<>> THEN <<>> ELSE DirOf(walk.dir), parts |-> rest]
        BY <3>4, <3>7, WalkGoesUp
      <4> HIDE DEF rest, part, end
      <4> QED
        BY <3>3, <3>5, <4>1, <4>2 DEF end
    <3>8. CASE part \notin {".", ".."}
      <4>1. AfterPart(stop, part).dir = next
        BY <3>2, <3>3, <3>8, AfterName
      <4>2. CASE next \in Links(tree)
        <5>1. \A i \in (j + 1) + 1 .. t : T[i] # ".."
          <6>1. ByText(q, target, j + 1) \in Links(tree) /\ j + 1 \in DOMAIN T
            BY <2>1, <3>1, <3>3, <4>1, <4>2
          <6>2. ~ ReturnsFromLink(tree, q)
            OBVIOUS
          <6> QED
            BY <6>1, <6>2 DEF ReturnsFromLink
        <5>2. NoUp(rest)
          <6> HIDE DEF t, T
          <6>1. Len(after) = t - (j + 1) /\ \A i \in 1 .. t - (j + 1) : after[i] = T[(j + 1) + i]
            <7>1. j + 2 \in Int /\ t \in Int /\ \A i \in j + 2 .. t : T[i] \in STRING
              <8>1. \A i \in j + 2 .. t : i \in 1 .. t
                BY <2>1
              <8> QED
                BY <2>1, <8>1, ElementOfSeq DEF t
            <7> DEFINE m == j + 2
            <7>2. m \in Int /\ m <= t + 1
              BY <2>1, <2>5
            <7>3. \A i \in m .. t : T[i] \in STRING
              BY <7>1
            <7> HIDE DEF m
            <7>4. /\ Len(SubSeq(T, m, t)) = IF m <= t THEN t - m + 1 ELSE 0
                  /\ \A i \in 1 .. t - m + 1 : SubSeq(T, m, t)[i] = T[m + i - 1]
              BY <7>1, <7>2, <7>3, SubSeqProperties
            <7>5. m = j + 2 /\ t - m + 1 = t - (j + 1) /\ \A i \in Int : m + i - 1 = (j + 1) + i
              BY <2>1 DEF m
            <7> DEFINE s == SubSeq(T, m, t)
            <7>6. after = s
              BY <7>5
            <7> HIDE DEF s, after
            <7>7. Len(s) = t - (j + 1)
              BY <2>1, <7>2, <7>4, <7>5 DEF s
            <7>8. ASSUME NEW i \in 1 .. t - (j + 1)
                  PROVE  s[i] = T[(j + 1) + i]
              <8>1. i \in 1 .. t - m + 1 /\ i \in Int
                BY <2>1, <7>5
              <8>2. s[i] = T[m + i - 1]
                BY <7>4, <8>1 DEF s
              <8> QED
                BY <7>5, <8>1, <8>2
            <7> QED
              BY <7>6, <7>7, <7>8
          <6> HIDE DEF after
          <6>2. /\ Len(after \o left) = Len(after) + Len(left)
                /\ \A i \in 1 .. Len(after) + Len(left) : (after \o left)[i] =
                      IF i <= Len(after) THEN after[i] ELSE left[i - Len(after)]
            BY <3>4, ConcatProperties
          <6>3. Len(left) \in Nat /\ DOMAIN left = 1 .. Len(left) /\ Len(after) \in Nat
                /\ DOMAIN rest = 1 .. Len(rest)
            BY <3>4, LenProperties
          <6>4. ASSUME NEW i \in 1 .. Len(after)
                PROVE  after[i] # ".."
            <7>1. i \in 1 .. t - (j + 1) /\ (j + 1) + i \in (j + 1) + 1 .. t
              BY <2>1, <6>1
            <7> QED
              BY <5>1, <6>1, <7>1
          <6>5. ASSUME NEW i \in DOMAIN rest
                PROVE  rest[i] # ".."
            <7>1. i \in 1 .. Len(after) + Len(left)
              BY <6>2, <6>3
            <7>2. CASE i <= Len(after)
              BY <6>2, <6>3, <6>4, <7>1, <7>2
            <7>3. CASE ~ (i <= Len(after))
              <8>1. i - Len(after) \in DOMAIN left
                BY <6>3, <7>1, <7>3
              <8> QED
                BY <1>1, <6>2, <7>1, <7>3, <8>1 DEF NoUp
            <7> QED
              BY <7>2, <7>3
          <6> QED
            BY <6>5 DEF NoUp
        <5> HIDE DEF part, rest
        <5>3. next = Append(walk.dir, Head(walk.parts)) /\ Head(walk.parts) \notin {".", ".."}
              /\ NoUp(Tail(walk.parts)) /\ walk.parts # <<>>
          BY <3>4, <3>8, <5>2
        <5> QED
          BY <4>2, <5>3, EntersLink
      <4>3. CASE next \notin Links(tree)
        <5>1. end = [dir |-> next, parts |-> rest]
          <6> HIDE DEF part, rest
          <6>1. /\ walk.parts # <<>> /\ Head(walk.parts) \notin {".", ".."}
                /\ Append(walk.dir, Head(walk.parts)) \notin Links(tree)
            BY <3>4, <3>8, <4>3
          <6>2. end = [dir |-> Append(walk.dir, Head(walk.parts)), parts |-> Tail(walk.parts)]
            BY <6>1, WalkGoesDown
          <6> QED
            BY <3>4, <6>2
        <5> HIDE DEF rest, part, end, next
        <5> QED
          BY <3>3, <3>5, <4>1, <5>1 DEF end
      <4> QED
        BY <4>2, <4>3
    <3> QED
      BY <3>6, <3>7, <3>8
  <2>6. j = t \/ j < t
    <3> HIDE DEF t
    <3> QED
      BY <2>1
  <2> QED
    BY <2>4, <2>5, <2>6
<1> QED
  BY <1>1, <1>2, <1>3

\* A link leads into the FHS or nowhere: a walk that has come to it is bound.
LEMMA LinkLeads ==
    ASSUME NEW tree, IsTree(tree), LinksOk(tree),
           \A q \in Links(tree) : ~ ReturnsFromLink(tree, q),
           NEW path \in Links(tree)
    PROVE  LeadsIntoFhs(tree, path)
<1> DEFINE n == Len(path)
           N == Turns(path)
<1>1. /\ path \in DOMAIN tree /\ path \in Seq(STRING) /\ path # <<>> /\ n \in Nat \ {0}
      /\ DOMAIN path = 1 .. n
  BY LinkFacts, LenProperties, EmptySeq
<1>2. TargetsOver(tree, STRING)
  BY LinkFacts DEF TargetsOver
<1>3. PICK turn :
             /\ WalksBy(turn, tree, <<>>, path)
             /\ \A i \in 0 .. N : turn[i] \in Walks(STRING)
             /\ LET end == turn[N]
                IN  Walk(tree, <<>>, path) = IF end.parts = <<>> THEN end.dir ELSE Loop
  <2> DEFINE dir == <<>>
  <2>1. dir \in Seq(STRING)
    BY EmptySeq
  <2> HIDE DEF dir
  <2>2. \E turn :
             /\ WalksBy(turn, tree, dir, path)
             /\ \A i \in 0 .. Turns(path) : turn[i] \in Walks(STRING)
             /\ LET end == turn[Turns(path)]
                IN  Walk(tree, dir, path) = IF end.parts = <<>> THEN end.dir ELSE Loop
    BY <1>1, <1>2, <2>1, WalkRecursion
  <2> QED
    BY <2>2 DEF dir
<1>4. N \in Nat /\ n <= N
  BY <1>1, AuditAssumption DEF Turns
<1> HIDE DEF N
<1>5. ASSUME NEW i \in Nat, i < N
      PROVE  turn[i + 1] = WalkStep(tree, turn[i]) /\ turn[i] \in Walks(STRING)
  <2>1. i + 1 \in 1 .. N /\ (i + 1) - 1 = i /\ i \in 0 .. N
    BY <1>4, <1>5
  <2> QED
    BY <1>3, <2>1 DEF WalksBy, N
<1>6. Bound(tree, turn[n])
  <2> DEFINE here == turn[n - 1]
             one == <<Last(path)>>
  <2>1. here = [dir |-> DirOf(path), parts |-> one]
    BY <1>1, <1>2, <1>3, WalkComes
  <2>2. Append(DirOf(path), Last(path)) = path /\ Last(path) \in STRING
    BY <1>1, LastOfPath
  <2>3. Last(path) \notin {".", ".."}
    <3>1. n \in 1 .. n
      BY <1>1
    <3> QED
      BY <1>1, <3>1 DEF IsTree, NotAPart, Last
  <2>4. one # <<>> /\ Head(one) = Last(path) /\ Tail(one) = <<>>
    BY <2>2, OnePart
  <2>5. turn[n] = WalkStep(tree, here) /\ here \in Walks(STRING)
    <3>1. n - 1 \in Nat /\ n - 1 < N /\ (n - 1) + 1 = n
      BY <1>1, <1>4
    <3> HIDE DEF n
    <3> QED
      BY <1>5, <3>1
  <2> HIDE DEF here, one
  <2>6. here.dir = DirOf(path) /\ here.parts = one
    BY <2>1
  <2>7. NoUp(Tail(here.parts))
    BY <2>4, <2>6 DEF NoUp
  <2>8. /\ here.parts # <<>> /\ Append(here.dir, Head(here.parts)) = path
        /\ Head(here.parts) \notin {".", ".."}
    BY <2>2, <2>3, <2>4, <2>6
  <2> QED
    BY <2>5, <2>7, <2>8, EntersLink
<1>7. Bound(tree, turn[N])
  <2> DEFINE P == {i \in Nat : n + i <= N => Bound(tree, turn[n + i])}
  <2> HIDE DEF n
  <2>1. 0 \in P
    BY <1>1, <1>6
  <2>2. ASSUME NEW i \in Nat, i \in P
        PROVE  i + 1 \in P
    <3>1. SUFFICES ASSUME n + (i + 1) <= N
                   PROVE  Bound(tree, turn[n + (i + 1)])
      OBVIOUS
    <3> DEFINE m == n + i
    <3>2. m \in Nat /\ m < N /\ m <= N /\ n + (i + 1) = m + 1
      BY <1>1, <1>4, <3>1
    <3>3. Bound(tree, turn[m])
      BY <2>2, <3>2
    <3> HIDE DEF m
    <3>4. turn[m + 1] = WalkStep(tree, turn[m]) /\ turn[m] \in Walks(STRING)
      BY <1>5, <3>2
    <3>5. Bound(tree, turn[m + 1])
      BY <3>3, <3>4, StaysBound
    <3> QED
      BY <3>2, <3>5
  <2>3. Nat \subseteq P
    <3> HIDE DEF P
    <3> QED
      BY <2>1, <2>2, NatInduct
  <2>4. N - n \in Nat /\ n + (N - n) = N
    BY <1>1, <1>4
  <2>5. N - n \in P
    BY <2>3, <2>4
  <2> QED
    BY <1>4, <2>4, <2>5
<1> DEFINE end == turn[N]
<1>8. SUFFICES ASSUME Physical(tree, path) # Loop
               PROVE  InFhs(Physical(tree, path))
  BY DEF LeadsIntoFhs, InFhs
<1>9. end.parts = <<>> /\ Physical(tree, path) = end.dir
  BY <1>3, <1>8 DEF Physical, N
<1> HIDE DEF end
<1>10. PICK left \in Seq(STRING) :
         /\ NoUp(left)
         /\ \/ InFhs(end.dir) /\ end.parts = left
            \/ \E q \in Links(tree) : \E j \in 0 .. Len(tree[q].target.parts) :
                   OnTarget(tree, end, q, j, left)
  BY <1>7 DEF Bound, end
<1>11. ASSUME NEW q \in Links(tree), NEW j \in 0 .. Len(tree[q].target.parts),
              OnTarget(tree, end, q, j, left)
       PROVE  InFhs(end.dir)
  <2> DEFINE target == tree[q].target
             T == target.parts
             t == Len(T)
             more == SubSeq(T, j + 1, t)
  <2>1. q \in Seq(STRING) /\ q # <<>> /\ T \in Seq(STRING) /\ t \in Nat /\ j \in 0 .. t
    BY LinkFacts
  <2>2. end.dir = ByText(q, target, j) /\ end.parts = more \o left
    BY <1>11 DEF OnTarget
  <2>3. j = t
    <3>1. SUFFICES ASSUME j < t
                   PROVE  FALSE
      BY <2>1
    <3>2. j + 1 \in 1 .. t
      <4> HIDE DEF t
      <4> QED
        BY <2>1, <3>1
    <3>3. more \in Seq(STRING) /\ more # <<>>
      BY <2>1, <3>2, RestOfPath
    <3> HIDE DEF more
    <3>4. more \o left # <<>>
      BY <3>3, HeadTailConcat
    <3> QED
      BY <1>9, <2>2, <3>4
  <2>4. LinkOk(q, target)
    BY DEF LinksOk
  <2>5. InFhs(ByText(q, target, t))
    BY <2>1, <2>4, TextInFhs
  <2> QED
    BY <2>2, <2>3, <2>5
<1> QED
  BY <1>9, <1>10, <1>11

\* The symbolic links of an audited package lead into the FHS, as the kernel
\* follows them and each other, or nowhere, if no target goes back by ".." after
\* it went through a link.
THEOREM LinksStay == Spec => []LinkStaysInFhs
<1>1. ASSUME IInv, Vouched, NEW p \in Selected,
             \A path \in Links(root[p]) : ~ ReturnsFromLink(root[p], path),
             NEW path \in Links(root[p])
      PROVE  LeadsIntoFhs(root[p], path)
  <2> DEFINE tree == root[p]
  <2>1. IsTree(tree) /\ LinksOk(tree)
    BY <1>1, VouchedFacts
  <2>2. (\A q \in Links(tree) : ~ ReturnsFromLink(tree, q)) /\ path \in Links(tree)
    BY <1>1
  <2> HIDE DEF tree
  <2>3. LeadsIntoFhs(tree, path)
    BY <2>1, <2>2, LinkLeads
  <2> QED
    BY <2>3 DEF tree
<1>2. IInv => LinkStaysInFhs
  BY <1>1 DEF LinkStaysInFhs
<1> QED
  BY <1>2, Invariance, PTL
=============================================================================
