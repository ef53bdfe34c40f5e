-------------------------- MODULE PortsBuilderProofs --------------------------
(***************************************************************************)
(* Proofs about the ports builder, for any catalogue, selection and chain  *)
(* of processes, and whatever killed processes left in the output tree.    *)
(***************************************************************************)
EXTENDS PortsBuilder, SequenceTheorems, TLAPS

\* build_package is under way for the first port of the queue.
AtPort == {"phases", "archive", "clear", "clearing", "replace", "mark"}

Trees == Tree \cup {NoTree}

TypeOK ==
    /\ root \in [Ports -> Trees] /\ incomplete \in [Ports -> Trees]
    /\ marker \subseteq Ports
    /\ archive \in [Ports -> 0..MaxBuilds]
    /\ sysroot \in [1..MaxBuilds -> [Ports -> Trees]]
    /\ builds \in 0..MaxBuilds
    /\ published \in [Ports -> 0..MaxBuilds]
    /\ plan \in Plans /\ at \in 1..Len(plan)
    /\ wave \in SUBSET Ports /\ queue \in Seq(Ports)
    /\ pc \in Outcomes \cup {"start", "next"} \cup AtPort
    /\ made \subseteq Ports /\ failed \subseteq Ports /\ blocked \subseteq Ports

\* Which process is where, and with what it starts.
ControlInv ==
    /\ pc \in AtPort => Process = "build" /\ queue # <<>>
    /\ pc # "off" => wave \in Selections
    /\ pc = "start" => /\ made = {} /\ failed = {} /\ blocked = {}

InBuild == Process = "build" /\ pc \in {"next"} \cup AtPort

\* Every selected port is handled once, and after all that it needs.
QueueInv ==
    /\ made \subseteq wave /\ \A i \in 1..Len(queue) : queue[i] \in wave
    /\ \A p \in wave : \/ p \in made \cup failed \cup blocked
                       \/ \E i \in 1..Len(queue) : queue[i] = p
    /\ \A i, j \in 1..Len(queue) : /\ queue[i] = queue[j] => i = j
                                   /\ queue[j] \in Needs(queue[i]) => j < i
    /\ \A p \in made : \A i \in 1..Len(queue) : queue[i] \notin {p} \cup Needs(p)

\* What build b saw of a dependency is what is there.
SeenBy(b, p) == \A d \in Needs(p) : sysroot[b][d] = root[d]

\* How far the artifacts of the port under way are those of this build.
PortInv ==
    /\ builds \in 1..MaxBuilds /\ SeenBy(builds, Port)
    /\ pc \in {"archive", "clear", "clearing", "replace"} =>
          incomplete[Port] = [build |-> builds, whole |-> TRUE]
    /\ pc \in {"clear", "clearing", "replace", "mark"} => archive[Port] = builds
    /\ pc = "mark" => root[Port] = [build |-> builds, whole |-> TRUE]

\* What this process has completed is sound, and as new as what it was built
\* with.
MadeInv ==
    \A p \in made : Sound(p) /\ archive[p] \in 1..builds /\ SeenBy(archive[p], p)

WaveIsSound == \A p \in wave : Sound(p)

\* The inductive invariant.
IInv ==
    /\ TypeOK
    /\ ControlInv
    /\ InBuild => QueueInv
    /\ pc \in AtPort => PortInv
    /\ Process = "build" => MadeInv
    /\ Process = "build" /\ pc = "ok" => made = wave
    /\ Process = "audit" /\ pc = "ok" => WaveIsSound
    /\ Process = "upload" /\ at > 1 => WaveIsSound

-----------------------------------------------------------------------------
(* Types.                                                                  *)

LEMMA NeedsArePorts == \A p : Needs(p) \subseteq Ports
BY DEF Needs

LEMMA QueueFacts ==
    ASSUME TypeOK, queue # <<>>
    PROVE  /\ Len(queue) \in Nat \ {0} /\ 1 \in 1..Len(queue)
           /\ Port \in Ports /\ Port = queue[1]
           /\ Tail(queue) \in Seq(Ports) /\ Len(Tail(queue)) = Len(queue) - 1
           /\ \A i \in 1..Len(Tail(queue)) :
                 i + 1 \in 1..Len(queue) /\ Tail(queue)[i] = queue[i + 1]
<1>1. queue \in Seq(Ports)
  BY DEF TypeOK
<1> QED
  BY <1>1, HeadTailProperties, EmptySeq DEF Port

LEMMA SysrootTypes ==
    TypeOK => builds \in Nat /\ sysroot \in [1..MaxBuilds -> [Ports -> Trees]]
<1>1. MaxBuilds \in Nat
  BY BuilderAssumption
<1> QED
  BY <1>1 DEF TypeOK

LEMMA PlanFacts ==
    ASSUME NEW P \in Plans
    PROVE  /\ Len(P) \in Nat \ {0}
           /\ \A i \in 1..Len(P) : P[i] \in {"build", "audit", "upload"}
BY BuilderAssumption, EmptySeq, ElementOfSeq

\* The orders of a selection have exactly its ports.
LEMMA OrderFacts ==
    ASSUME NEW S \in Selections
    PROVE  /\ S \subseteq Ports
           /\ \A i \in 1..Len(BuildOrder[S]) : BuildOrder[S][i] \in S
           /\ BuildOrder[S] \in Seq(Ports) /\ UploadOrder[S] \in Seq(Ports)
           /\ \A p \in S : \E i \in 1..Len(BuildOrder[S]) : BuildOrder[S][i] = p
           /\ \A i, j \in 1..Len(BuildOrder[S]) :
                 /\ BuildOrder[S][i] = BuildOrder[S][j] => i = j
                 /\ BuildOrder[S][j] \in Needs(BuildOrder[S][i]) => j < i
<1>1. S \subseteq Ports /\ BuildOrder[S] \in Seq(S) /\ UploadOrder[S] \in Seq(S)
      /\ Range(BuildOrder[S]) = S
  BY BuilderAssumption
<1>2. \A s \in Seq(S) : s \in Seq(Ports)
  BY <1>1
<1>3. DOMAIN BuildOrder[S] = 1..Len(BuildOrder[S])
  BY <1>1, LenProperties
<1>4. \A p \in S : \E i \in 1..Len(BuildOrder[S]) : BuildOrder[S][i] = p
  BY <1>1, <1>3 DEF Range
<1>5. \A i, j \in 1..Len(BuildOrder[S]) :
        /\ BuildOrder[S][i] = BuildOrder[S][j] => i = j
        /\ BuildOrder[S][j] \in Needs(BuildOrder[S][i]) => j < i
  BY BuilderAssumption
<1> QED
  BY <1>1, <1>2, <1>4, <1>5, ElementOfSeq

LEMMA InitEstablishes == Init => IInv
<1> SUFFICES ASSUME Init PROVE IInv
  OBVIOUS
<1>1. TypeOK
  <2>1. NoTree \in Trees /\ <<>> \in Seq(Ports)
    BY DEF Trees
  <2>2. at \in 1..Len(plan)
    BY PlanFacts DEF Init
  <2> QED
    BY <2>1, <2>2, BuilderAssumption DEF Init, TypeOK, Outcomes, None
<1> QED
  BY <1>1 DEF Init, IInv, ControlInv, AtPort, InBuild, MadeInv

LEMMA TypeStep == ASSUME IInv, Next PROVE TypeOK'
<1> MaxBuilds \in Nat
  BY BuilderAssumption
<1>1. TypeOK /\ (pc \in AtPort => Port \in Ports /\ queue # <<>> /\ builds \in 1..MaxBuilds)
  BY QueueFacts DEF IInv, ControlInv, PortInv
<1>2. NoTree \in Trees /\ \A b \in 1..MaxBuilds : \A w \in BOOLEAN :
         [build |-> b, whole |-> w] \in Trees
  BY DEF Trees, Tree
<1>3. GiveUp /\ queue # <<>> =>
         /\ failed' \subseteq Ports /\ queue' \in Seq(Ports) /\ pc' = "next"
         /\ UNCHANGED <<plan, at, wave, made, blocked>>
  BY <1>1, QueueFacts DEF GiveUp, TypeOK
<1>4. \A where : Continue(where) =>
         pc' = where /\ UNCHANGED <<plan, at, wave, queue, made, failed, blocked>>
  BY DEF Continue
<1>5. CASE Invoke
  <2>1. at' \in 1..Len(plan') /\ wave' \in SUBSET Ports
    BY <1>5, PlanFacts, OrderFacts DEF Invoke
  <2> QED
    BY <1>1, <1>5, <2>1 DEF Invoke, TypeOK, artifactVars
<1>6. CASE Advance
  <2>1. at' \in 1..Len(plan')
    BY <1>1, <1>6, PlanFacts DEF Advance, TypeOK
  <2> QED
    BY <1>1, <1>6, <2>1 DEF Advance, TypeOK, artifactVars
<1>7. CASE Kill \/ EndBuild \/ Audit \/ EndUpload
  BY <1>1, <1>7 DEF Kill, EndBuild, Audit, EndUpload, Exit, TypeOK, artifactVars, Outcomes
<1>8. CASE StartBuild \/ StartUpload
  <2>1. wave \in Selections
    BY <1>8 DEF StartBuild, StartUpload, IInv, ControlInv
  <2>2. queue' \in Seq(Ports)
    BY <1>1, <1>8, <2>1, OrderFacts DEF StartBuild, StartUpload, Exit, TypeOK
  <2>3. pc' \in Outcomes \cup {"start", "next"} \cup AtPort
    BY <1>8 DEF StartBuild, StartUpload, Exit, Outcomes
  <2> QED
    BY <1>1, <1>8, <2>2, <2>3 DEF StartBuild, StartUpload, Exit, TypeOK, artifactVars
<1>9. CASE Block
  BY <1>1, <1>9, QueueFacts DEF Block, Building, TypeOK, artifactVars
<1>10. CASE Prepare
  <2>1. queue # <<>> /\ Port \in Ports
    BY <1>1, <1>10, QueueFacts DEF Prepare, Building
  <2>2. CASE GiveUp /\ UNCHANGED <<builds, sysroot, incomplete>>
    BY <1>1, <1>3, <1>10, <2>1, <2>2 DEF Prepare, TypeOK
  <2>3. CASE /\ builds < MaxBuilds /\ builds' = builds + 1
             /\ sysroot' = [sysroot EXCEPT ![builds'] =
                   [d \in Ports |-> IF d \in Needs(Port) THEN root[d] ELSE NoTree]]
             /\ incomplete' = [incomplete EXCEPT ![Port] =
                                  [build |-> builds', whole |-> FALSE]]
             /\ Continue("phases")
    <3>1. builds' \in 1..MaxBuilds
      BY <1>1, <2>3 DEF TypeOK
    <3>2. [d \in Ports |-> IF d \in Needs(Port) THEN root[d] ELSE NoTree] \in [Ports -> Trees]
      BY <1>1, <1>2 DEF TypeOK
    <3>3. sysroot' \in [1..MaxBuilds -> [Ports -> Trees]]
          /\ incomplete' \in [Ports -> Trees]
      BY <1>1, <1>2, <2>3, <3>1, <3>2 DEF TypeOK
    <3> QED
      BY <1>1, <1>4, <1>10, <2>3, <3>1, <3>3 DEF Prepare, TypeOK, AtPort
  <2> QED
    BY <1>10, <2>2, <2>3 DEF Prepare
<1>11. CASE RunPhases \/ RepositoryPrep
  <2>1. pc \in AtPort /\ incomplete' \in [Ports -> Trees] /\ archive' \in [Ports -> 0..MaxBuilds]
    <3>1. pc \in AtPort
      BY <1>11 DEF RunPhases, RepositoryPrep, AtPort
    <3>2. CASE RunPhases
      BY <1>1, <1>2, <3>1, <3>2 DEF RunPhases, Discard, TypeOK
    <3>3. CASE RepositoryPrep
      BY <1>1, <1>2, <3>1, <3>3 DEF RepositoryPrep, Discard, TypeOK
    <3> QED
      BY <1>11, <3>1, <3>2, <3>3
  <2>2. GiveUp \/ \E where \in AtPort : Continue(where)
    BY <1>11 DEF RunPhases, RepositoryPrep, Discard, AtPort
  <2> QED
    <3>1. UNCHANGED <<root, marker, sysroot, builds, published>>
      BY <1>11 DEF RunPhases, RepositoryPrep
    <3>2. CASE GiveUp
      BY <1>1, <1>3, <2>1, <3>1, <3>2 DEF TypeOK
    <3>3. ASSUME NEW where \in AtPort, Continue(where)
          PROVE  TypeOK'
      BY <1>1, <2>1, <3>1, <3>3 DEF Continue, TypeOK
    <3> QED
      BY <2>2, <3>2, <3>3
<1>12. CASE ClearRoot
  <2>1. pc \in AtPort /\ \E where \in AtPort : Continue(where)
    BY <1>12 DEF ClearRoot, AtPort
  <2>2. root[Port] # NoTree => root[Port].build \in 1..MaxBuilds
    BY <1>1, <2>1 DEF TypeOK, Trees, Tree
  <2>3. root' \in [Ports -> Trees]
    <3>1. root[Port] # NoTree =>
             [build |-> root[Port].build, whole |-> FALSE] \in Trees
      BY <1>2, <2>2
    <3> QED
      BY <1>1, <1>2, <1>12, <2>1, <3>1 DEF ClearRoot, TypeOK
  <2> QED
    BY <1>1, <1>4, <1>12, <2>1, <2>3 DEF ClearRoot, TypeOK
<1>13. CASE ReplaceRoot \/ WriteMarker
  <2>1. /\ pc \in AtPort /\ marker' \subseteq Ports
        /\ root' \in [Ports -> Trees] /\ incomplete' \in [Ports -> Trees]
    BY <1>1, <1>2, <1>13 DEF ReplaceRoot, WriteMarker, AtPort, TypeOK
  <2>2. CASE GiveUp
    BY <1>1, <1>3, <1>13, <2>1, <2>2 DEF ReplaceRoot, WriteMarker, TypeOK
  <2>3. CASE Continue("mark") /\ ReplaceRoot
    BY <1>1, <1>4, <2>1, <2>3 DEF ReplaceRoot, TypeOK, AtPort
  <2>4. CASE /\ made' = made \cup {Port} /\ WriteMarker
             /\ queue' = Tail(queue) /\ pc' = "next"
             /\ UNCHANGED <<plan, at, wave, failed, blocked>>
    BY <1>1, <2>1, <2>4, QueueFacts DEF WriteMarker, TypeOK
  <2> QED
    BY <1>13, <2>2, <2>3, <2>4 DEF ReplaceRoot, WriteMarker
<1>14. CASE Register
  <2>1. queue # <<>> /\ Port \in Ports /\ Tail(queue) \in Seq(Ports)
    BY <1>1, <1>14, QueueFacts DEF Register
  <2>2. published' \in [Ports -> 0..MaxBuilds] /\ queue' \in Seq(Ports)
    <3>1. archive[Port] \in 0..MaxBuilds
      BY <1>1, <2>1 DEF TypeOK
    <3> QED
      BY <1>1, <1>14, <2>1, <3>1 DEF Register, TypeOK
  <2> QED
    BY <1>1, <1>14, <2>1, <2>2 DEF Register, TypeOK, artifactVars, Outcomes
<1> QED
  BY <1>5, <1>6, <1>7, <1>8, <1>9, <1>10, <1>11, <1>12, <1>13, <1>14 DEF Next

-----------------------------------------------------------------------------
(* What building a port leaves alone, and what it achieves.                *)

\* A step for the port under way changes its artifacts and no other port's,
\* and a sysroot nobody has been built in.  The completed ports do not need
\* that port, and stay what they are.
LEMMA MadeStays ==
    ASSUME TypeOK, QueueInv, MadeInv, queue # <<>>,
           \A q \in Ports \ {Port} : root'[q] = root[q] /\ archive'[q] = archive[q],
           marker \subseteq marker', builds' \in Nat, builds <= builds',
           \A b \in 1..builds : sysroot'[b] = sysroot[b]
    PROVE  \A p \in made : /\ Sound(p)' /\ (archive[p] \in 1..builds)'
                           /\ SeenBy(archive[p], p)'
<1> SUFFICES ASSUME NEW p \in made
             PROVE  /\ Sound(p)' /\ (archive[p] \in 1..builds)'
                    /\ SeenBy(archive[p], p)'
  OBVIOUS
<1>1. p \in Ports /\ p # Port /\ Port \notin Needs(p) /\ Needs(p) \subseteq Ports
  BY QueueFacts, NeedsArePorts DEF QueueInv, TypeOK
<1>2. archive'[p] = archive[p] /\ archive[p] \in 1..builds /\ builds \in Nat
  BY <1>1, BuilderAssumption DEF MadeInv, TypeOK
<1>3. Sound(p)' /\ archive'[p] \in 1..builds'
  BY <1>1, <1>2 DEF MadeInv, Sound
<1>4. SeenBy(archive[p], p)'
  BY <1>1, <1>2 DEF MadeInv, SeenBy
<1> QED
  BY <1>3, <1>4

\* The first port leaves the queue: built, failed or blocked.
LEMMA QueueAdvances ==
    ASSUME TypeOK, QueueInv, queue # <<>>, queue' = Tail(queue), wave' = wave,
           failed \subseteq failed', blocked \subseteq blocked',
           made' = made \/ made' = made \cup {Port},
           Port \in made' \cup failed' \cup blocked'
    PROVE  QueueInv'
<1>1. /\ made' \subseteq wave' /\ \A i \in 1..Len(queue') : queue'[i] \in wave'
  BY QueueFacts DEF QueueInv
<1>2. ASSUME NEW p \in wave'
      PROVE  \/ p \in made' \cup failed' \cup blocked'
             \/ \E i \in 1..Len(queue') : queue'[i] = p
  <2>1. CASE p \in made \cup failed \cup blocked
    BY <2>1
  <2>2. CASE \E i \in 1..Len(queue) : queue[i] = p
    <3>1. PICK i \in 1..Len(queue) : queue[i] = p
      BY <2>2
    <3>2. CASE i = 1
      BY <3>1, <3>2, QueueFacts
    <3>3. CASE i # 1
      <4>1. i - 1 \in 1..Len(queue') /\ queue'[i - 1] = p
        BY <3>1, <3>3, QueueFacts
      <4> QED
        BY <4>1
    <3> QED
      BY <3>2, <3>3
  <2> QED
    BY <2>1, <2>2 DEF QueueInv
<1>3. ASSUME NEW i \in 1..Len(queue'), NEW j \in 1..Len(queue')
      PROVE  /\ queue'[i] = queue'[j] => i = j
             /\ queue'[j] \in Needs(queue'[i]) => j < i
  <2>1. /\ i + 1 \in 1..Len(queue) /\ queue'[i] = queue[i + 1]
        /\ j + 1 \in 1..Len(queue) /\ queue'[j] = queue[j + 1]
    BY QueueFacts
  <2>2. /\ queue[i + 1] = queue[j + 1] => i + 1 = j + 1
        /\ queue[j + 1] \in Needs(queue[i + 1]) => j + 1 < i + 1
    BY <2>1 DEF QueueInv
  <2> QED
    BY <2>1, <2>2
<1>4. ASSUME NEW p \in made', NEW i \in 1..Len(queue')
      PROVE  queue'[i] \notin {p} \cup Needs(p)
  <2>1. i + 1 \in 1..Len(queue) /\ queue'[i] = queue[i + 1] /\ 1 \in 1..Len(queue)
        /\ queue[1] = Port
    BY QueueFacts
  <2>2. CASE p \in made
    BY <2>1, <2>2 DEF QueueInv
  <2>3. CASE p = Port
    <3>1. ~(i + 1 = 1) /\ ~(i + 1 < 1)
      BY <2>1
    <3>2. /\ queue[1] = queue[i + 1] => 1 = i + 1
          /\ queue[i + 1] \in Needs(queue[1]) => i + 1 < 1
      BY <2>1 DEF QueueInv
    <3> QED
      BY <2>1, <2>3, <3>1, <3>2
  <2> QED
    BY <2>2, <2>3
<1>5. \A p : Needs(p)' = Needs(p)
  BY DEF Needs
<1> QED
  BY <1>1, <1>2, <1>3, <1>4, <1>5 DEF QueueInv

\* The steps of build_package, the last one and the failed ones included.
LEMMA BuildStep ==
    ASSUME IInv, TypeOK',
           Prepare \/ RunPhases \/ RepositoryPrep \/ ClearRoot \/ ReplaceRoot \/ WriteMarker
    PROVE  IInv'
<1>1. /\ TypeOK /\ Process = "build" /\ queue # <<>> /\ pc \in {"next"} \cup AtPort
      /\ QueueInv /\ MadeInv /\ (pc \in AtPort => PortInv)
      /\ Port \in Ports /\ 1 \in 1..Len(queue) /\ queue[1] = Port
  BY QueueFacts DEF IInv, ControlInv, InBuild, Prepare, Building, RunPhases,
     RepositoryPrep, ClearRoot, ReplaceRoot, WriteMarker, AtPort
<1>2. UNCHANGED <<plan, at, wave, blocked>> /\ Process' = Process
  BY DEF Prepare, RunPhases, RepositoryPrep, ClearRoot, ReplaceRoot, WriteMarker,
     Discard, GiveUp, Continue, Process
<1>3. \/ /\ pc' \in AtPort /\ UNCHANGED <<queue, made, failed>>
      \/ /\ pc' = "next" /\ queue' = Tail(queue) /\ failed' = failed \cup {Port}
         /\ made' = made
      \/ /\ pc' = "next" /\ queue' = Tail(queue) /\ failed' = failed
         /\ made' = made \cup {Port} /\ WriteMarker /\ pc = "mark" /\ Port \in marker'
  BY DEF Prepare, RunPhases, RepositoryPrep, ClearRoot, ReplaceRoot, WriteMarker,
     Discard, GiveUp, Continue, AtPort
<1>4. QueueInv'
  <2>1. CASE UNCHANGED <<queue, made, failed>>
    BY <1>1, <1>2, <2>1 DEF QueueInv, Needs
  <2>2. CASE queue' = Tail(queue)
    BY <1>1, <1>2, <1>3, <2>2, QueueAdvances
  <2> QED
    BY <1>3, <2>1, <2>2
<1>5. /\ \A q \in Ports \ {Port} : root'[q] = root[q] /\ archive'[q] = archive[q]
      /\ marker \subseteq marker'
  BY <1>1 DEF Prepare, RunPhases, RepositoryPrep, ClearRoot, ReplaceRoot, WriteMarker,
     Discard, TypeOK
<1>6. /\ builds' \in Nat /\ builds <= builds'
      /\ \A b \in 1..builds : sysroot'[b] = sysroot[b]
  <2>1. CASE UNCHANGED <<builds, sysroot>>
    BY <1>1, <2>1, BuilderAssumption DEF TypeOK
  <2>2. CASE Prepare /\ builds' = builds + 1
    <3>1. builds \in Nat /\ sysroot \in [1..MaxBuilds -> [Ports -> Trees]]
      BY <1>1, SysrootTypes
    <3>2. PICK seen : sysroot' = [sysroot EXCEPT ![builds'] = seen]
      BY <2>2, <3>1 DEF Prepare
    <3>3. \A b \in 1..builds : b # builds'
      BY <2>2, <3>1
    <3> QED
      BY <2>2, <3>1, <3>2, <3>3
  <2> QED
    BY <2>1, <2>2 DEF Prepare, RunPhases, RepositoryPrep, ClearRoot, ReplaceRoot,
       WriteMarker
<1>7. \A p \in made : /\ Sound(p)' /\ (archive[p] \in 1..builds)'
                      /\ SeenBy(archive[p], p)'
  BY <1>1, <1>5, <1>6, MadeStays
<1>8. MadeInv'
  <2>1. CASE made' = made
    BY <1>7, <2>1 DEF MadeInv
  <2>2. CASE WriteMarker /\ pc = "mark" /\ Port \in marker' /\ made' = made \cup {Port}
    <3>1. /\ root[Port] = [build |-> archive[Port], whole |-> TRUE]
          /\ archive[Port] = builds /\ builds \in 1..builds /\ SeenBy(archive[Port], Port)
      BY <1>1, <2>2, BuilderAssumption DEF PortInv, AtPort, TypeOK
    <3>2. UNCHANGED <<root, archive, sysroot, builds>>
      BY <2>2 DEF WriteMarker
    <3>3. ASSUME NEW p, p = Port
          PROVE  Sound(p)' /\ (archive[p] \in 1..builds)' /\ SeenBy(archive[p], p)'
      BY <2>2, <3>1, <3>2, <3>3 DEF Sound, SeenBy, Needs
    <3> QED
      BY <1>7, <2>2, <3>3 DEF MadeInv
  <2> QED
    BY <1>3, <2>1, <2>2
<1>9. pc' \in AtPort => PortInv'
  <2> SUFFICES ASSUME pc' \in AtPort PROVE PortInv'
    OBVIOUS
  <2>1. Port' = Port /\ Port \notin Needs(Port) /\ Needs(Port) \subseteq Ports
    BY <1>1, <1>3, NeedsArePorts DEF Port, QueueInv, AtPort
  <2>2. CASE Prepare
    <3> DEFINE seen == [d \in Ports |-> IF d \in Needs(Port) THEN root[d] ELSE NoTree]
    <3>0. /\ builds' = builds + 1 /\ builds < MaxBuilds /\ pc' = "phases" /\ root' = root
          /\ sysroot' = [sysroot EXCEPT ![builds'] = seen]
      BY <2>2 DEF Prepare, Continue, GiveUp, AtPort
    <3>2. builds' \in 1..MaxBuilds
      BY <1>1, <3>0, BuilderAssumption DEF TypeOK
    <3>1. /\ builds' = builds + 1 /\ pc' = "phases" /\ root' = root
          /\ sysroot'[builds'] = seen
      <4> HIDE DEF seen
      <4> QED BY <1>1, <3>0, <3>2 DEF TypeOK
    <3>3. SeenBy(builds, Port)'
      BY <2>1, <3>1 DEF SeenBy, Needs
    <3> QED
      BY <3>1, <3>2, <3>3 DEF PortInv
  <2>3. CASE pc \in AtPort
    <3>1. /\ builds' = builds /\ sysroot' = sysroot /\ builds \in 1..MaxBuilds
          /\ SeenBy(builds, Port)
      BY <1>1, <2>3 DEF RunPhases, RepositoryPrep, ClearRoot, ReplaceRoot,
         WriteMarker, Prepare, AtPort, PortInv
    <3>2. SeenBy(builds, Port)'
      BY <1>5, <2>1, <3>1 DEF SeenBy, Needs
    <3>3. /\ pc' \in {"archive", "clear", "clearing", "replace"} =>
                incomplete'[Port] = [build |-> builds, whole |-> TRUE]
          /\ pc' \in {"clear", "clearing", "replace", "mark"} => archive'[Port] = builds
          /\ pc' = "mark" => root'[Port] = [build |-> builds, whole |-> TRUE]
      BY <1>1, <2>3 DEF RunPhases, RepositoryPrep, ClearRoot, ReplaceRoot,
         WriteMarker, Prepare, PortInv, AtPort, Continue, Discard, GiveUp, TypeOK
    <3> QED
      BY <2>1, <3>1, <3>2, <3>3 DEF PortInv
  <2> QED
    BY <1>1, <2>2, <2>3 DEF RunPhases, RepositoryPrep, ClearRoot, ReplaceRoot,
       WriteMarker, AtPort
<1>10. ControlInv'
  <2>1. pc' \in AtPort => queue' = queue
    BY <1>3 DEF AtPort
  <2>2. pc' # "start" /\ pc # "off"
    BY <1>1, <1>3 DEF AtPort
  <2> QED
    BY <1>1, <1>2, <2>1, <2>2 DEF IInv, ControlInv
<1>11. pc' # "ok" /\ Process' = "build"
  BY <1>1, <1>2, <1>3 DEF AtPort
<1> QED
  BY <1>4, <1>8, <1>9, <1>10, <1>11 DEF IInv

-----------------------------------------------------------------------------
(* The other steps, and the theorems.                                      *)

\* A wrapper starts a process, or one ends.
LEMMA ProcessStep ==
    ASSUME IInv, Invoke \/ Advance \/ Kill \/ EndBuild \/ Audit
    PROVE  /\ ControlInv' /\ ~InBuild' /\ pc' \notin AtPort
           /\ Process' = "build" => MadeInv'
           /\ Process' = "build" /\ pc' = "ok" => made' = wave'
           /\ Process' = "audit" /\ pc' = "ok" => WaveIsSound'
           /\ Process' = "upload" /\ at' > 1 => WaveIsSound'
<1>0. UNCHANGED artifactVars
  BY DEF Invoke, Advance, Kill, EndBuild, Audit, Exit
<1>1. CASE Invoke
  BY <1>0, <1>1 DEF Invoke, ControlInv, InBuild, AtPort, MadeInv
<1>2. CASE Advance
  <2>1. /\ pc' = "start" /\ made' = {} /\ failed' = {} /\ blocked' = {}
        /\ at' = at + 1 /\ plan' = plan /\ wave' = wave /\ pc = "ok"
    BY <1>2 DEF Advance
  <2>2. plan \in Plans /\ at \in 1..Len(plan) /\ at + 1 \in 2..Len(plan)
    BY <1>2, PlanFacts DEF Advance, IInv, TypeOK
  <2>3. Process' = "upload" => Process \in {"build", "audit"}
    BY <2>1, <2>2, BuilderAssumption DEF Process
  <2>4. Process' = "upload" => WaveIsSound
    BY <2>1, <2>3 DEF IInv, MadeInv, WaveIsSound
  <2>5. Process' = "upload" => WaveIsSound'
    BY <1>0, <2>1, <2>4 DEF WaveIsSound, Sound, artifactVars
  <2>6. wave' \in Selections
    BY <2>1 DEF IInv, ControlInv
  <2> QED
    BY <2>1, <2>5, <2>6 DEF ControlInv, InBuild, AtPort, MadeInv
<1>3. CASE Kill \/ EndBuild \/ Audit
  <2>1. /\ UNCHANGED <<plan, at, wave, queue, made, failed, blocked>>
        /\ Process' = Process /\ pc' \in {"ok", "failed", "killed"}
    BY <1>3 DEF Kill, EndBuild, Audit, Exit, Process
  <2>2. Process' = "build" => MadeInv'
    BY <1>0, <2>1 DEF IInv, MadeInv, Sound, SeenBy, Needs, artifactVars
  <2>3. Process' = "build" /\ pc' = "ok" => made' = wave'
    <3>1. CASE EndBuild
      <4>1. pc' = "ok" => /\ failed = {} /\ blocked = {} /\ queue = <<>> /\ QueueInv
        BY <3>1 DEF EndBuild, Exit, IInv, InBuild
      <4>2. queue = <<>> => 1..Len(queue) = {}
        BY EmptySeq
      <4> QED
        BY <2>1, <4>1, <4>2 DEF QueueInv
    <3> QED
      BY <1>3, <3>1 DEF Kill, Audit, Exit, Process
  <2>4. Process' = "audit" /\ pc' = "ok" => WaveIsSound'
    BY <1>0, <1>3, <2>1 DEF Kill, EndBuild, Audit, Exit, AuditPasses, HasArtifacts,
       WaveIsSound, Sound, artifactVars
  <2>5. Process' = "upload" /\ at' > 1 => WaveIsSound'
    BY <1>0, <2>1 DEF IInv, WaveIsSound, Sound, artifactVars
  <2>6. pc # "off"
    BY <1>3 DEF Kill, EndBuild, Audit, Outcomes
  <2> QED
    BY <2>1, <2>2, <2>3, <2>4, <2>5, <2>6 DEF IInv, ControlInv, InBuild, AtPort
<1> QED
  BY <1>1, <1>2, <1>3

LEMMA NextPreserves == IInv /\ [Next]_vars => IInv'
<1> SUFFICES ASSUME IInv, [Next]_vars PROVE IInv'
  OBVIOUS
<1>1. CASE UNCHANGED vars
  <2> USE <1>1 DEF vars
  <2>1. TypeOK' /\ ControlInv'
    BY DEF IInv, TypeOK, ControlInv, Process
  <2>2. (InBuild => QueueInv)'
    BY DEF IInv, InBuild, Process, QueueInv, Needs
  <2>3. (pc \in AtPort => PortInv)'
    BY DEF IInv, PortInv, Port, SeenBy, Needs
  <2>4. (Process = "build" => MadeInv)' /\ (WaveIsSound => WaveIsSound')
    BY DEF IInv, Process, MadeInv, WaveIsSound, Sound, SeenBy, Needs
  <2> QED
    BY <2>1, <2>2, <2>3, <2>4 DEF IInv, Process
<1>2. CASE Next
  <2>1. TypeOK'
    BY <1>2, TypeStep
  <2>2. CASE Prepare \/ RunPhases \/ RepositoryPrep \/ ClearRoot \/ ReplaceRoot \/ WriteMarker
    BY <2>1, <2>2, BuildStep
  <2>3. CASE Invoke \/ Advance \/ Kill \/ EndBuild \/ Audit
    BY <2>1, <2>3, ProcessStep DEF IInv
  <2>4. CASE StartBuild
    <3>1. /\ pc' = "next" /\ Process = "build" /\ queue' = BuildOrder[wave]
          /\ UNCHANGED <<artifactVars, plan, at, wave, made, failed, blocked>>
          /\ Process' = Process /\ wave \in Selections /\ made = {}
      BY <2>4 DEF StartBuild, Process, IInv, ControlInv
    <3>2. QueueInv'
      <4>1. \A p : Needs(p)' = Needs(p)
        BY DEF Needs
      <4> DEFINE q == BuildOrder[wave]
      <4>2. /\ \A i \in 1..Len(q) : q[i] \in wave
            /\ \A p \in wave : \E i \in 1..Len(q) : q[i] = p
            /\ \A i, j \in 1..Len(q) : /\ q[i] = q[j] => i = j
                                       /\ q[j] \in Needs(q[i]) => j < i
        BY <3>1, OrderFacts
      <4> QED
        BY <3>1, <4>1, <4>2 DEF QueueInv
    <3> QED
      BY <2>1, <3>1, <3>2 DEF IInv, ControlInv, AtPort, MadeInv
  <2>5. CASE Block
    <3>1. /\ pc' = "next" /\ pc = "next" /\ Process = "build" /\ queue' = Tail(queue)
          /\ UNCHANGED <<artifactVars, plan, at, wave, made, failed>>
          /\ Process' = Process /\ blocked' = blocked \cup {Port} /\ queue # <<>>
      BY <2>5 DEF Block, Building, Process
    <3>2. QueueInv'
      BY <3>1, QueueAdvances DEF IInv, InBuild
    <3>3. MadeInv'
      BY <3>1 DEF IInv, MadeInv, Sound, SeenBy, Needs, artifactVars
    <3> QED
      BY <2>1, <3>1, <3>2, <3>3 DEF IInv, ControlInv, AtPort
  <2>6. CASE StartUpload \/ Register \/ EndUpload
    <3>1. /\ Process = "upload" /\ Process' = Process
          /\ UNCHANGED <<artifactVars, plan, at, wave>>
          /\ pc' \in {"next", "refused", "failed", "ok"}
      BY <2>6 DEF StartUpload, Register, EndUpload, Exit, Process
    <3>2. Process' = "upload" /\ at' > 1 => WaveIsSound'
      BY <3>1 DEF IInv, WaveIsSound, Sound, artifactVars
    <3>3. ControlInv'
      BY <3>1, <2>6 DEF IInv, ControlInv, AtPort, StartUpload, Register, EndUpload
    <3> QED
      BY <2>1, <3>1, <3>2, <3>3 DEF IInv, InBuild, AtPort
  <2> QED
    BY <1>2, <2>2, <2>3, <2>4, <2>5, <2>6 DEF Next
<1> QED
  BY <1>1, <1>2

THEOREM Inductive == Spec => []IInv
BY InitEstablishes, NextPreserves, PTL DEF Spec

\* buildsystem.py and build.py: what a process has built is a whole root, a
\* marker and the PUP of one build, although these are replaced one by one in a
\* tree where killed processes have left anything.
THEOREM BuiltStaysSound == Spec => []BuiltIsSound
<1>1. IInv => BuiltIsSound
  BY DEF IInv, MadeInv, BuiltIsSound
<1> QED
  BY <1>1, Inductive, PTL

\* build_all's exit status 0: every selected port was built from the trees its
\* requirements have now.
THEOREM SuccessMeansFresh == Spec => []SuccessIsFresh
<1>1. IInv => SuccessIsFresh
  <2> SUFFICES ASSUME IInv, Process = "build", pc = "ok"
               PROVE  /\ made = wave
                      /\ \A p \in wave : \A d \in Needs(p) :
                            sysroot[root[p].build][d] = root[d]
    BY DEF SuccessIsFresh
  <2> QED
    <3>1. made = wave
      BY DEF IInv
    <3>2. \A p \in made : root[p].build = archive[p] /\ SeenBy(archive[p], p)
      <4>1. \A p \in made : Sound(p) /\ SeenBy(archive[p], p)
        BY DEF IInv, MadeInv
      <4>2. ASSUME NEW p \in made PROVE root[p].build = archive[p]
        <5>1. root[p] = [build |-> archive[p], whole |-> TRUE]
          BY <4>1 DEF Sound
        <5> QED
          BY <5>1
      <4> QED
        BY <4>1, <4>2
    <3> QED
      BY <3>1, <3>2 DEF SeenBy
<1> QED
  BY <1>1, Inductive, PTL

\* buildPackages.sh --upload and publish-packages.py: an upload chained to a
\* build or an audit has sound artifacts only, to its last port.
THEOREM ChainedUploadsAreSound == Spec => []ChainedUploadIsSound
<1>1. IInv => ChainedUploadIsSound
  BY DEF IInv, WaveIsSound, ChainedUploadIsSound
<1> QED
  BY <1>1, Inductive, PTL
=============================================================================
