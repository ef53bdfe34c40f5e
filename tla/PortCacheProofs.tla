--------------------------- MODULE PortCacheProofs ---------------------------
(***************************************************************************)
(* Proofs about the cache of the language port builders, for any number of *)
(* components, checkouts and files, and however many helpers were killed.  *)
(***************************************************************************)
EXTENDS PortCache, SequenceTheorems, TLAPS

USE DEF archives, trees, closure

AtTree == {"fetch", "verify", "check", "clear", "extract", "patch"}
AtNative == {"native", "native copy", "vendor"}
AtBuild == {"compile", "link", "stage", "stage binary", "stage notices"}
Places == {"provision", "copy"} \cup AtTree \cup AtNative \cup AtBuild

Values == Stamps \cup {None, Junk, Unpatched}
Contents == [Files -> Values]
Executables == [prefix : Contents, source : Contents]
Running == [pc : Places, tree : Trees, component : Components, offline : BOOLEAN,
            exe : {None} \cup Executables, repeated : BOOLEAN]

TypeOK ==
    /\ checkout \in Checkouts
    /\ download \in [Trees -> Stamps \cup {None}]
    /\ partial \in Stamps \cup {None, Junk}
    /\ tree \in [Trees -> Contents] /\ mark \in [Trees -> Stamps \cup {None}]
    /\ native \in [Libraries -> {None, "part", "whole"}]
    /\ vendor \subseteq Crates /\ lockMark \in Locks \cup {None}
    /\ config \in {None, "part", "whole"}
    /\ interrupted \subseteq Trees
    /\ run = Idle \/ run \in Running

\* The helper is removing or replacing tree t.
Busy(t) == run.pc \in {"clear", "extract", "patch"} /\ run.tree = t

\* A marker vouches for its tree, unless a helper is at work under it or ended
\* while it was.
MarkInv ==
    \A t \in Trees \ interrupted : mark[t] # None => HoldsPin(tree[t], mark[t]) \/ Busy(t)

\* The trees a helper has been through bear the markers it wants.
PassedInv ==
    /\ At("provision") \/ At("copy") => run.tree = "prefix"
    /\ run.pc \in AtTree => run.tree \in {"component", "headers", run.component}
    /\ run.pc \in AtTree /\ run.tree = "component" => mark["prefix"] = None
    /\ At("copy") => mark["prefix"] = None /\ mark["component"] = Wanted("component")
    /\ \/ run.pc \in AtTree /\ run.tree \in {"headers", run.component}
       \/ run.pc \in AtNative \cup AtBuild
       => mark["prefix"] = Wanted("prefix")
    /\ \/ run.pc \in AtTree /\ run.tree = run.component
       \/ run.pc \in AtNative \cup AtBuild
       => /\ mark["headers"] = Wanted("headers")
          /\ download["headers"] = Wanted("headers")
    /\ run.pc \in AtNative \cup AtBuild =>
          /\ run.tree = run.component
          /\ mark[run.component] = Wanted(run.component)
          /\ download[run.component] = Wanted(run.component)
    /\ At("vendor") => config # None
    /\ run.pc \in AtBuild => lockMark = WantedLock /\ config # None

\* Where the work on one tree is.
TreeInv ==
    /\ run.pc \in {"check", "clear", "extract", "patch"} =>
          download[run.tree] = Wanted(run.tree)
    /\ At("patch") => \A f \in FilesOf[Wanted(run.tree)] :
                         tree[run.tree][f] \in {Unpatched, Wanted(run.tree)}

\* What was linked, and what is in the package root.
Pinned(exe) ==
    /\ run.component \notin interrupted => HoldsPin(exe.source, Wanted(run.component))
    /\ "prefix" \notin interrupted => HoldsPin(exe.prefix, Wanted("prefix"))
StageInv ==
    /\ run.pc \in {"stage", "stage binary", "stage notices"} => Pinned(run.exe)
    /\ At("stage binary") => stage = <<>>
    /\ At("stage notices") => stage = <<run.exe>>

\* Nothing is missing from the cache for another run of component c.
Complete(c) ==
    /\ \A t \in {"prefix", "headers", c} : mark[t] = Wanted(t)
    /\ \A t \in {"headers", c} : download[t] = Wanted(t)
    /\ lockMark = Lock[c][checkout] /\ config # None

\* After a success, and while it is repeated.
RepeatInv ==
    /\ last.result = "ok" => /\ At("idle") /\ last.component \in Components
                             /\ Complete(last.component)
    /\ ~At("idle") /\ run.repeated =>
          /\ Complete(run.component) /\ run.tree # "component"
          /\ run.pc \notin {"verify", "clear", "extract", "patch", "copy", "vendor"}

\* The inductive invariant.
IInv == /\ TypeOK /\ MarkInv /\ StagedIsPinned /\ OfflineRepeatWorks
        /\ RepeatInv
        /\ ~At("idle") => PassedInv /\ TreeInv /\ StageInv

-----------------------------------------------------------------------------
(* Constants and types.                                                    *)

LEMMA TreeFacts ==
    /\ "component" \in Trees /\ "prefix" \in Trees /\ "headers" \in Trees
    /\ Components \subseteq Trees
    /\ \A c \in Components : c \notin {"component", "prefix", "headers"}
BY CacheAssumption DEF Trees

LEMMA PinFacts ==
    ASSUME checkout \in Checkouts
    PROVE  /\ \A t \in Trees : Wanted(t) \in Stamps /\ Wanted(t) \in Values
           /\ \A t \in Trees : Wanted(t) \notin {None, Junk, Unpatched}
           /\ \A c \in Components : Lock[c][checkout] \in Locks
           /\ \A c \in Components : Lock[c][checkout] # None
<1>1. \A t \in Trees : Wanted(t) \in Stamps
  BY DEF Wanted, Stamps
<1>2. \A c \in Components : Lock[c][checkout] \in Locks
  BY DEF Locks
<1> QED
  BY <1>1, <1>2, CacheAssumption DEF Values

\* Where a step of a running helper leads.
LEMMA RunFacts ==
    ASSUME run \in Running
    PROVE  /\ run.pc \in Places /\ run.tree \in Trees /\ run.component \in Components
           /\ run.exe \in {None} \cup Executables /\ run.repeated \in BOOLEAN
           /\ \A p \in Places : Goto(p) =>
                 /\ run' \in Running /\ run'.pc = p /\ run'.tree = run.tree
                 /\ run'.component = run.component /\ run'.exe = run.exe
                 /\ run'.repeated = run.repeated /\ run'.offline = run.offline
           /\ \A p \in Places : \A t \in Trees : GotoTree(p, t) =>
                 /\ run' \in Running /\ run'.pc = p /\ run'.tree = t
                 /\ run'.component = run.component /\ run'.exe = run.exe
                 /\ run'.repeated = run.repeated /\ run'.offline = run.offline
BY DEF Running, Goto, GotoTree

LEMMA IdleFacts ==
    /\ Idle.pc = "idle"
    /\ \A r \in Running : r.pc \in Places /\ r.pc # "idle" /\ r # Idle
<1>1. Idle.pc = "idle"
  BY DEF Idle
<1>2. \A r \in Running : r.pc \in Places /\ r.pc # "idle"
  BY DEF Running, Places, AtTree, AtNative, AtBuild
<1> QED
  BY <1>1, <1>2

\* The steps of a helper that is under way.
Step ==
    \/ Provision \/ FetchCached \/ FetchOffline \/ FetchReceive \/ FetchVerify
    \/ TreeCheck \/ TreeClear \/ TreeExtract \/ TreePatch \/ TreeMark
    \/ PrefixCopy \/ NativeClear \/ \E l \in Libraries : NativeCopy(l)
    \/ VendorCheck \/ CargoVendor \/ VendorMark
    \/ CargoBuild \/ CargoBuildLink
    \/ StageClear \/ StageBinary \/ StageNotices

LEMMA StepIsBusy == TypeOK /\ Step => run \in Running /\ UNCHANGED checkout
BY IdleFacts DEF TypeOK, Step, At, Provision, FetchCached, FetchOffline, FetchReceive,
   FetchVerify, TreeCheck, TreeClear, TreeExtract, TreePatch, TreeMark, PrefixCopy,
   NativeClear, NativeCopy, VendorCheck, CargoVendor, VendorMark, CargoBuild,
   CargoBuildLink, StageClear, StageBinary, StageNotices, Idle

LEMMA InitEstablishes == Init => IInv
<1> SUFFICES ASSUME Init PROVE IInv
  OBVIOUS
<1>1. TypeOK
  BY DEF Init, TypeOK, Contents, Values
<1>2. MarkInv
  BY DEF Init, MarkInv
<1>3. StagedIsPinned /\ OfflineRepeatWorks /\ At("idle") /\ RepeatInv
  BY CacheAssumption, IdleFacts DEF Init, Nothing, StagedIsPinned, OfflineRepeatWorks,
     RepeatInv, At
<1> QED
  BY <1>1, <1>2, <1>3 DEF IInv

\* Only the tree that is removed, extracted, patched or copied changes.
LEMMA ContentsStep ==
    ASSUME TypeOK, ~At("idle") => TreeInv, Step
    PROVE  /\ tree' \in [Trees -> Contents] /\ mark' \in [Trees -> Stamps \cup {None}]
           /\ download' \in [Trees -> Stamps \cup {None}]
<1>1. /\ run \in Running /\ run.tree \in Trees
      /\ \A t \in Trees : Wanted(t) \in Stamps /\ Wanted(t) \in Values
      /\ "prefix" \in Trees /\ "component" \in Trees
      /\ ~At("idle")
  BY StepIsBusy, RunFacts, PinFacts, TreeFacts, IdleFacts DEF TypeOK, At
<1>2. ASSUME NEW t \in Trees, NEW f \in Files, NEW v \in Values
      PROVE  [tree EXCEPT ![t][f] = v] \in [Trees -> Contents]
  BY DEF TypeOK, Contents
<1>3. /\ None \in Values /\ Unpatched \in Values
      /\ FilesOf[Wanted(run.tree)] \subseteq Files
  BY <1>1, CacheAssumption DEF Values
<1>4. /\ mark' \in [Trees -> Stamps \cup {None}]
      /\ download' \in [Trees -> Stamps \cup {None}]
  <2>1. \/ UNCHANGED mark
        \/ \E t \in Trees : mark' \in {[mark EXCEPT ![t] = None],
                                        [mark EXCEPT ![t] = Wanted(t)]}
    BY <1>1 DEF Step, Provision, FetchCached, FetchOffline, FetchReceive, FetchVerify,
       TreeCheck, TreeClear, TreeExtract, TreePatch, TreeMark, PrefixCopy,
       NativeClear, NativeCopy, VendorCheck, CargoVendor, VendorMark, CargoBuild,
       CargoBuildLink, StageClear, StageBinary, StageNotices, cache
  <2>2. \/ UNCHANGED download
        \/ download' = [download EXCEPT ![run.tree] = Wanted(run.tree)]
    BY <1>1 DEF Step, Provision, FetchCached, FetchOffline, FetchReceive, FetchVerify,
       TreeCheck, TreeClear, TreeExtract, TreePatch, TreeMark, PrefixCopy,
       NativeClear, NativeCopy, VendorCheck, CargoVendor, VendorMark, CargoBuild,
       CargoBuildLink, StageClear, StageBinary, StageNotices, cache
  <2> QED
    BY <1>1, <2>1, <2>2 DEF TypeOK
<1>5. CASE TreeClear \/ TreePatch
  <2>1. \/ tree' = tree
        \/ \E f \in Files : tree' = [tree EXCEPT ![run.tree][f] = None]
        \/ \E f \in Files : tree' = [tree EXCEPT ![run.tree][f] = Wanted(run.tree)]
    BY <1>3, <1>5 DEF TreeClear, TreePatch
  <2>2. ASSUME NEW f \in Files, tree' = [tree EXCEPT ![run.tree][f] = None]
        PROVE  tree' \in [Trees -> Contents]
    BY <1>1, <1>2, <1>3, <2>2
  <2>3. ASSUME NEW f \in Files, tree' = [tree EXCEPT ![run.tree][f] = Wanted(run.tree)]
        PROVE  tree' \in [Trees -> Contents]
    BY <1>1, <1>2, <2>3
  <2>4. tree' = tree => tree' \in [Trees -> Contents]
    BY DEF TypeOK
  <2> QED
    BY <1>4, <2>1, <2>2, <2>3, <2>4
<1>6. CASE TreeExtract
  <2>1. Extracted \in Values
    BY <1>1, <1>3, <1>6 DEF TreeExtract, TreeInv, At, Extracted
  <2>2. \/ tree' = tree
        \/ \E f \in Files : tree' = [tree EXCEPT ![run.tree][f] = Extracted]
    BY <1>3, <1>6 DEF TreeExtract
  <2>3. ASSUME NEW f \in Files, tree' = [tree EXCEPT ![run.tree][f] = Extracted]
        PROVE  tree' \in [Trees -> Contents]
    BY <1>1, <1>2, <2>1, <2>3
  <2> QED
    BY <1>4, <2>2, <2>3 DEF TypeOK
<1>7. CASE PrefixCopy
  <2>1. \A f \in Files : tree["component"][f] \in Values
    BY <1>1 DEF TypeOK, Contents
  <2> QED
    BY <1>1, <1>2, <1>4, <1>7, <2>1 DEF PrefixCopy, TypeOK
<1> QED
  BY <1>4, <1>5, <1>6, <1>7 DEF TypeOK, Step, Provision, FetchCached, FetchOffline,
     FetchReceive, FetchVerify, TreeCheck, TreeMark, NativeClear, NativeCopy,
     VendorCheck, CargoVendor, VendorMark, CargoBuild, CargoBuildLink,
     StageClear, StageBinary, StageNotices, cache

\* Where a helper is after a step, and that it works for the same component.
LEMMA RunStep ==
    ASSUME TypeOK, Step
    PROVE  \/ run' = Idle
           \/ /\ run' \in Running /\ run'.component = run.component
              /\ run'.repeated = run.repeated
<1>1. run \in Running /\ run.component \in Trees
  BY StepIsBusy, RunFacts, TreeFacts
<1>2. \A t \in Trees : tree[t] \in Contents
  BY DEF TypeOK
<1>3. \A t \in Trees : TreeDone(t) =>
         \/ GotoTree("copy", "prefix") \/ GotoTree("fetch", "headers")
         \/ GotoTree("fetch", run.component) \/ Goto("native")
  BY DEF TreeDone
<1>4. CASE \/ run' = run
           \/ \E p \in Places : Goto(p)
           \/ \E p \in Places, t \in Trees : GotoTree(p, t)
           \/ \E t \in Trees : TreeDone(t)
           \/ \E result : End(result)
  <2>1. {"copy", "fetch", "native"} \subseteq Places
    BY DEF Places, AtTree, AtNative
  <2> QED
    BY <1>1, <1>3, <1>4, <2>1, RunFacts, TreeFacts DEF End
<1>5. CASE CargoBuildLink
  <2> DEFINE exe == [prefix |-> tree["prefix"], source |-> tree[run.component]]
  <2>1. exe \in Executables /\ "stage" \in Places
    BY <1>1, <1>2, TreeFacts DEF Executables, Places, AtBuild
  <2>2. run' = [run EXCEPT !.pc = "stage", !.exe = exe]
    BY <1>5 DEF CargoBuildLink
  <2> HIDE DEF exe
  <2> QED
    BY <1>1, <2>1, <2>2 DEF Running
<1>6. CASE Provision \/ FetchCached \/ FetchOffline \/ FetchReceive \/ FetchVerify
  BY <1>4, <1>6, TreeFacts DEF Places, AtTree, Provision, FetchCached, FetchOffline,
     FetchReceive, FetchVerify
<1>8. CASE TreeCheck \/ TreeClear \/ TreeExtract \/ TreePatch \/ TreeMark \/ PrefixCopy
  <2>1. \/ run' = run \/ TreeDone(run.tree) \/ TreeDone("prefix")
        \/ \E p \in {"clear", "extract", "patch"} : Goto(p)
    BY <1>8 DEF TreeCheck, TreeClear, TreeExtract, TreePatch, TreeMark, PrefixCopy
  <2>2. run.tree \in Trees /\ {"clear", "extract", "patch"} \subseteq Places
    BY <1>1, RunFacts DEF Places, AtTree
  <2> QED
    BY <1>4, <2>1, <2>2, TreeFacts
<1>7. CASE NativeClear \/ (\E l \in Libraries : NativeCopy(l)) \/ VendorCheck
           \/ CargoVendor \/ VendorMark \/ CargoBuild
           \/ StageClear \/ StageBinary \/ StageNotices
  BY <1>1, <1>4, <1>7 DEF Places, AtNative, AtBuild, NativeClear, NativeCopy,
     VendorCheck, CargoVendor, VendorMark, CargoBuild, StageClear,
     StageBinary, StageNotices
<1> QED
  BY <1>5, <1>6, <1>7, <1>8 DEF Step

LEMMA TypeStep ==
    ASSUME TypeOK, ~At("idle") => TreeInv, Step
    PROVE  TypeOK'
<1>1. /\ run \in Running /\ run.component \in Components /\ checkout' = checkout
      /\ checkout \in Checkouts /\ run.tree \in Trees
  BY StepIsBusy, RunFacts DEF TypeOK
<1>2. run' = Idle \/ run' \in Running
  BY RunStep
<1>3. partial' \in Stamps \cup {None, Junk} /\ native' \in [Libraries -> {None, "part", "whole"}]
  BY <1>1, PinFacts DEF TypeOK, Step, Provision, FetchCached, FetchOffline,
     FetchReceive, FetchVerify, TreeCheck, TreeClear, TreeExtract, TreePatch, TreeMark,
     PrefixCopy, NativeClear, NativeCopy, VendorCheck, CargoVendor, VendorMark,
     CargoBuild, CargoBuildLink, StageClear, StageBinary,
     StageNotices, cache
<1>4. WantedLock \in Locks /\ CratesOf[WantedLock] \subseteq Crates
  BY <1>1, PinFacts DEF WantedLock, Crates
<1>5. vendor' \subseteq Crates /\ lockMark' \in Locks \cup {None}
      /\ config' \in {None, "part", "whole"}
  BY <1>1, <1>4 DEF TypeOK, Step, Provision, FetchCached, FetchOffline, FetchReceive,
     FetchVerify, TreeCheck, TreeClear, TreeExtract, TreePatch, TreeMark, PrefixCopy,
     NativeClear, NativeCopy, VendorCheck, CargoVendor, VendorMark, CargoBuild,
     CargoBuildLink, StageClear, StageBinary, StageNotices, cache
<1>6. interrupted' \subseteq Trees
  <2>1. interrupted' \subseteq interrupted \cup {"prefix"}
    BY DEF Step, Provision, FetchCached, FetchOffline, FetchReceive,
       FetchVerify, TreeCheck, TreeClear, TreeExtract, TreePatch, TreeMark, PrefixCopy,
       NativeClear, NativeCopy, VendorCheck, CargoVendor, VendorMark, CargoBuild,
       CargoBuildLink, StageClear, StageBinary, StageNotices, cache
  <2> QED
    BY <2>1, TreeFacts DEF TypeOK
<1> QED
  BY <1>1, <1>2, <1>3, <1>5, <1>6, ContentsStep DEF TypeOK

-----------------------------------------------------------------------------
(* Markers.                                                                *)

\* A tree that is at rest with the marker the checkout asks for holds the pin.
LEMMA Trusted ==
    ASSUME TypeOK, MarkInv, NEW t \in Trees \ interrupted, mark[t] = Wanted(t), ~Busy(t)
    PROVE  HoldsPin(tree[t], Wanted(t))
BY PinFacts DEF TypeOK, MarkInv

LEMMA MarkStep ==
    ASSUME TypeOK, TypeOK', MarkInv, PassedInv, TreeInv, Step
    PROVE  MarkInv'
<1>1. /\ run \in Running /\ checkout' = checkout /\ run.tree \in Trees
      /\ \A t \in Trees : Wanted(t) \notin {None, Junk, Unpatched}
      /\ \A t \in Trees : Wanted(t) \in Stamps
      /\ "prefix" \in Trees /\ "component" \in Trees
  BY StepIsBusy, RunFacts, PinFacts, TreeFacts DEF TypeOK
<1>2. \A t \in Trees : FilesOf[Wanted(t)] \subseteq Files
  BY <1>1, CacheAssumption
\* A tree other than the one at work: its marker, contents and history stay.
<1> DEFINE Rests(t) == mark'[t] = mark[t] /\ tree'[t] = tree[t]
                       /\ (t \in interrupted => t \in interrupted')
<1>3. SUFFICES ASSUME NEW t \in Trees, t \notin interrupted'
               PROVE  \/ mark'[t] = None
                      \/ Rests(t) /\ (Busy(t) => Busy(t)')
                      \/ Busy(t)'
                      \/ mark'[t] = Wanted(t) /\ HoldsPin(tree'[t], Wanted(t))
  BY DEF MarkInv, HoldsPin
<1>4. CASE Provision
  <2>1. \/ mark' = [mark EXCEPT !["prefix"] = None] /\ tree' = tree
           /\ interrupted' = interrupted \ {"prefix"}
        \/ UNCHANGED <<mark, tree, interrupted>>
    BY <1>4 DEF Provision
  <2>2. ~Busy(t)
    BY <1>4 DEF Provision, Busy, At
  <2> QED
    BY <1>1, <2>1, <2>2 DEF TypeOK
<1>5. CASE TreeClear
  <2>1. /\ run.pc = "clear" /\ \/ run' = run \/ Goto("extract")
        /\ \A u \in Trees \ {run.tree} : tree'[u] = tree[u] /\ mark'[u] = mark[u]
        /\ interrupted \subseteq interrupted' \cup {run.tree}
    BY <1>1, <1>5 DEF TreeClear, TypeOK, At
  <2>2. run'.pc \in {"clear", "extract"} /\ run'.tree = run.tree
    BY <1>1, <2>1, RunFacts DEF Places, AtTree
  <2>3. CASE t = run.tree
    BY <2>2, <2>3 DEF Busy
  <2>4. CASE t # run.tree
    BY <2>1, <2>2, <2>4 DEF Busy
  <2> QED
    BY <2>3, <2>4
<1>6. CASE TreeExtract \/ TreePatch
  <2>1. /\ run.pc \in {"extract", "patch"} /\ \/ run' = run \/ Goto("patch")
        /\ \A u \in Trees \ {run.tree} : tree'[u] = tree[u]
        /\ mark' = mark /\ interrupted' = interrupted
    BY <1>1, <1>6 DEF TreeExtract, TreePatch, TypeOK, At
  <2>2. run'.pc \in {"extract", "patch"} /\ run'.tree = run.tree
    BY <1>1, <2>1, RunFacts DEF Places, AtTree
  <2>3. CASE t = run.tree
    BY <2>2, <2>3 DEF Busy
  <2>4. CASE t # run.tree
    BY <2>1, <2>2, <2>4 DEF Busy
  <2> QED
    BY <2>3, <2>4
<1>7. CASE TreeMark
  <2>1. /\ \A f \in FilesOf[Wanted(run.tree)] : tree[run.tree][f] = Wanted(run.tree)
        /\ tree' = tree /\ mark' = [mark EXCEPT ![run.tree] = Wanted(run.tree)]
        /\ interrupted' = interrupted \ {run.tree}
    BY <1>7 DEF TreeMark, TreeInv
  <2>2. CASE t = run.tree
    BY <1>1, <2>1, <2>2 DEF TypeOK, HoldsPin
  <2>3. CASE t # run.tree
    BY <1>1, <2>1, <2>3 DEF TypeOK, Busy
  <2> QED
    BY <2>2, <2>3
<1>8. CASE PrefixCopy
  <2>1. /\ mark["prefix"] = None /\ mark["component"] = Wanted("component")
        /\ ~Busy(t) /\ ~Busy("component")
    BY <1>8 DEF PrefixCopy, PassedInv, Busy, At
  <2>2. CASE mark' = mark
    <3>1. \A u \in Trees \ {"prefix"} : tree'[u] = tree[u]
      BY <1>8 DEF PrefixCopy, TypeOK
    <3>2. interrupted \subseteq interrupted'
      BY <1>8 DEF PrefixCopy
    <3> QED
      BY <2>1, <2>2, <3>1, <3>2
  <2>3. CASE mark' # mark
    <3>1. /\ \A f \in Files : tree["component"][f] # None => tree["prefix"][f] = tree["component"][f]
          /\ mark' = [mark EXCEPT !["prefix"] = Wanted("prefix")] /\ tree' = tree
          /\ interrupted' = interrupted \cup {u \in {"prefix"} : "component" \in interrupted}
      BY <1>8, <2>3 DEF PrefixCopy
    <3>2. CASE t = "prefix"
      <4>1. "component" \notin interrupted
        BY <1>3, <3>1, <3>2
      <4>2. HoldsPin(tree["component"], Wanted("component"))
        BY <1>1, <2>1, <4>1, Trusted
      <4>3. Wanted("component") = Wanted("prefix")
        BY CacheAssumption DEF Wanted
      <4>4. HoldsPin(tree["prefix"], Wanted("prefix"))
        BY <1>1, <1>2, <3>1, <4>2, <4>3 DEF HoldsPin
      <4> QED
        BY <1>1, <3>1, <3>2, <4>4 DEF TypeOK
    <3>3. CASE t # "prefix"
      BY <2>1, <3>1, <3>3 DEF TypeOK
    <3> QED
      BY <3>2, <3>3
  <2> QED
    BY <2>2, <2>3
<1> QED
  <2>1. CASE UNCHANGED <<mark, tree, interrupted>> /\ ~Busy(t)
    BY <2>1
  <2>2. \/ Provision \/ TreeClear \/ TreeExtract \/ TreePatch \/ TreeMark \/ PrefixCopy
        \/ UNCHANGED <<mark, tree, interrupted>> /\ ~Busy(t)
    BY DEF Step, FetchCached, FetchOffline, FetchReceive, FetchVerify, TreeCheck,
       NativeClear, NativeCopy, VendorCheck, CargoVendor, VendorMark, CargoBuild,
       CargoBuildLink, StageClear, StageBinary, StageNotices, cache, Busy, At
  <2> QED
    BY <1>4, <1>5, <1>6, <1>7, <1>8, <2>1, <2>2

-----------------------------------------------------------------------------
(* The way of a helper through the trees.                                  *)

\* The pins are those of one checkout during a step.
LEMMA StepPins ==
    ASSUME TypeOK, Step
    PROVE  /\ run \in Running /\ ~At("idle") /\ run.tree \in Trees
           /\ run.component \in Components /\ run.component \in Trees
           /\ run.component \notin {"component", "prefix", "headers"}
           /\ "prefix" \in Trees /\ "component" \in Trees /\ "headers" \in Trees
           /\ checkout' = checkout
           /\ \A t : Wanted(t)' = Wanted(t)
           /\ \A t \in Trees : Wanted(t) \notin {None, Junk, Unpatched}
<1>1. run \in Running /\ checkout' = checkout
  BY StepIsBusy
<1>2. ~At("idle")
  BY <1>1, IdleFacts DEF At
<1>3. \A t \in Trees : Wanted(t) \notin {None, Junk, Unpatched}
  BY PinFacts DEF TypeOK
<1>4. \A t : Wanted(t)' = Wanted(t)
  BY <1>1 DEF Wanted
<1> QED
  BY <1>1, <1>2, <1>3, <1>4, RunFacts, TreeFacts

\* What Goto and GotoTree change.
LEMMA GotoFacts ==
    ASSUME TypeOK, Step, NEW p \in Places
    PROVE  /\ Goto(p) => run'.pc = p /\ run'.tree = run.tree
                         /\ run'.component = run.component /\ run'.exe = run.exe
           /\ \A t \in Trees : GotoTree(p, t) => run'.pc = p /\ run'.tree = t
                         /\ run'.component = run.component /\ run'.exe = run.exe
BY StepPins, RunFacts

LEMMA PlaceFacts ==
    {"copy", "fetch", "verify", "check", "clear", "extract", "patch", "native",
     "native copy", "vendor", "compile", "link", "stage",
     "stage binary", "stage notices"} \subseteq Places
BY DEF Places, AtTree, AtNative, AtBuild

\* A tree is there: the helper goes on to the next one.
LEMMA TreeDoneStep ==
    ASSUME TypeOK, TypeOK', PassedInv, TreeInv, Step, TreeDone(run.tree),
           run.pc \in {"check", "patch", "copy"},
           \/ mark' = mark /\ mark[run.tree] = Wanted(run.tree)
           \/ mark' = [mark EXCEPT ![run.tree] = Wanted(run.tree)],
           download' = download
    PROVE  PassedInv' /\ TreeInv' /\ StageInv'
<1>1. /\ mark'[run.tree] = Wanted(run.tree)
      /\ \A t \in Trees \ {run.tree} : mark'[t] = mark[t]
  BY StepPins DEF TypeOK
<1>2. run.tree = "prefix" => run.pc = "copy"
  BY StepPins DEF PassedInv, AtTree
<1>3. run.pc # "copy" => /\ run.tree \in {"component", "headers", run.component}
                         /\ download[run.tree] = Wanted(run.tree)
  BY DEF PassedInv, TreeInv, AtTree
<1>4. CASE run.tree = "component"
  <2>1. /\ run'.pc = "copy" /\ run'.tree = "prefix" /\ run'.component = run.component
    BY <1>4, StepPins, RunFacts DEF TreeDone, Places
  <2>2. mark'["prefix"] = None /\ mark'["component"] = Wanted("component")
    BY <1>1, <1>4, <1>3, StepPins DEF PassedInv, AtTree, At
  <2> QED
    BY <2>1, <2>2, StepPins DEF PassedInv, TreeInv, StageInv, At, AtTree, AtNative, AtBuild
<1>5. CASE run.tree = "prefix"
  <2>1. /\ run'.pc = "fetch" /\ run'.tree = "headers" /\ run'.component = run.component
    BY <1>5, StepPins, RunFacts DEF TreeDone, Places, AtTree
  <2> QED
    BY <1>1, <1>5, <2>1, StepPins DEF PassedInv, TreeInv, StageInv, At, AtTree,
       AtNative, AtBuild
<1>6. CASE run.tree = "headers"
  <2>1. /\ run'.pc = "fetch" /\ run'.tree = run.component /\ run'.component = run.component
    BY <1>6, StepPins, RunFacts DEF TreeDone, Places, AtTree
  <2>2. run.pc # "copy" /\ run.pc \in AtTree
    BY <1>6 DEF PassedInv, AtTree, At
  <2>3. mark'["prefix"] = Wanted("prefix") /\ download'["headers"] = Wanted("headers")
    BY <1>1, <1>3, <1>6, <2>2, StepPins DEF PassedInv
  <2> QED
    BY <1>1, <1>6, <2>1, <2>3, StepPins DEF PassedInv, TreeInv, StageInv, At, AtTree,
       AtNative, AtBuild
<1>7. CASE run.tree = run.component
  <2>1. /\ run'.pc = "native" /\ run'.tree = run.component /\ run'.component = run.component
    BY <1>7, StepPins, RunFacts DEF TreeDone, Places, AtNative
  <2>2. run.pc # "copy" /\ run.pc \in AtTree
    BY <1>7, StepPins DEF PassedInv, AtTree, At
  <2>3. /\ mark'["prefix"] = Wanted("prefix") /\ mark'["headers"] = Wanted("headers")
        /\ download'["headers"] = Wanted("headers")
        /\ download'[run.component] = Wanted(run.component)
    BY <1>1, <1>3, <1>7, <2>2, StepPins DEF PassedInv
  <2>4. Wanted(run.component)' = Wanted(run.component)
    BY <2>1, StepPins DEF Wanted
  <2> QED
    BY <1>1, <1>7, <2>1, <2>3, <2>4, StepPins DEF PassedInv, TreeInv, StageInv, At, AtTree,
       AtNative, AtBuild
<1> QED
  BY <1>2, <1>3, <1>4, <1>5, <1>6, <1>7 DEF PassedInv, At

LEMMA FetchSteps ==
    ASSUME TypeOK, TypeOK', PassedInv, TreeInv, Step, run' # Idle,
           Provision \/ FetchCached \/ FetchReceive \/ FetchVerify
    PROVE  PassedInv' /\ TreeInv' /\ StageInv'
<1> USE DEF PassedInv, TreeInv, StageInv, At, AtTree, AtNative, AtBuild, Wanted
<1>1. CASE Provision
  <2>1. \/ /\ GotoTree("fetch", "headers") /\ mark' = mark
           /\ mark["prefix"] = Wanted("prefix")
        \/ /\ GotoTree("fetch", "component") /\ mark' = [mark EXCEPT !["prefix"] = None]
    BY <1>1 DEF Provision
  <2>2. /\ run'.component = run.component /\ run'.pc = "fetch"
        /\ \/ run'.tree = "headers" /\ mark' = mark /\ mark["prefix"] = Wanted("prefix")
           \/ run'.tree = "component" /\ mark' = [mark EXCEPT !["prefix"] = None]
    BY <2>1, StepPins, GotoFacts, PlaceFacts
  <2>3. \/ run'.tree = "headers" /\ mark'["prefix"] = Wanted("prefix")
        \/ run'.tree = "component" /\ mark'["prefix"] = None
    BY <2>2, StepPins DEF TypeOK
  <2> QED
    BY <2>2, <2>3, StepPins
<1>2. CASE FetchCached
  <2>1. /\ Goto("check") /\ run.pc = "fetch" /\ UNCHANGED <<mark, tree, download>>
        /\ download[run.tree] = Wanted(run.tree)
    BY <1>2 DEF FetchCached, cache
  <2>2. run'.pc = "check" /\ run'.tree = run.tree /\ run'.component = run.component
    BY <2>1, GotoFacts, PlaceFacts
  <2> QED
    BY <2>1, <2>2, StepPins
<1>3. CASE FetchReceive
  <2>1. Goto("verify") /\ run.pc = "fetch" /\ UNCHANGED <<mark, tree, download>>
    BY <1>3 DEF FetchReceive
  <2>2. run'.pc = "verify" /\ run'.tree = run.tree /\ run'.component = run.component
    BY <2>1, GotoFacts, PlaceFacts
  <2> QED
    BY <2>1, <2>2, StepPins
<1>4. CASE FetchVerify
  <2>1. /\ Goto("check") /\ run.pc = "verify" /\ mark' = mark /\ tree' = tree
        /\ download' = [download EXCEPT ![run.tree] = Wanted(run.tree)]
    BY <1>4 DEF FetchVerify, End
  <2>2. /\ run'.pc = "check" /\ run'.tree = run.tree /\ run'.component = run.component
    BY <2>1, GotoFacts, PlaceFacts
  <2>3. /\ download'[run.tree] = Wanted(run.tree)
        /\ \A t \in Trees \ {run.tree} : download'[t] = download[t]
    BY <2>1, StepPins DEF TypeOK
  <2> QED
    BY <2>1, <2>2, <2>3, StepPins
<1> QED
  BY <1>1, <1>2, <1>3, <1>4

LEMMA TreeSteps ==
    ASSUME TypeOK, TypeOK', PassedInv, TreeInv, Step,
           TreeCheck \/ TreeClear \/ TreeExtract \/ TreePatch \/ TreeMark \/ PrefixCopy
    PROVE  PassedInv' /\ TreeInv' /\ StageInv'
<1>1. CASE TreeCheck
  <2>1. CASE mark[run.tree] = Wanted(run.tree)
    BY <1>1, <2>1, TreeDoneStep DEF TreeCheck, At, cache
  <2>2. CASE mark[run.tree] # Wanted(run.tree)
    <3>1. /\ Goto("clear") /\ run.pc = "check" /\ UNCHANGED <<mark, tree, download>>
      BY <1>1, <2>2 DEF TreeCheck, At, cache
    <3>2. run'.pc = "clear" /\ run'.tree = run.tree /\ run'.component = run.component
      BY <3>1, GotoFacts, PlaceFacts
    <3> QED
      BY <2>2, <3>1, <3>2, StepPins DEF PassedInv, TreeInv, StageInv, At, AtTree,
         AtNative, AtBuild, Wanted
  <2> QED
    BY <2>1, <2>2
<1>2. CASE TreeMark
  BY <1>2, TreeDoneStep DEF TreeMark, At
<1>3. CASE PrefixCopy
  <2>1. CASE TreeDone("prefix")
    <3>1. /\ run.pc = "copy" /\ run.tree = "prefix" /\ download' = download
      BY <1>3 DEF PrefixCopy, PassedInv, At
    <3>2. ~ UNCHANGED <<mark, run>>
      <4>1. run'.pc = "fetch"
        BY <2>1, StepPins, GotoFacts, PlaceFacts DEF TreeDone
      <4> QED
        BY <3>1, <4>1
    <3>3. mark' = [mark EXCEPT !["prefix"] = Wanted("prefix")]
      BY <1>3, <3>2 DEF PrefixCopy
    <3> QED
      BY <2>1, <3>1, <3>3, TreeDoneStep
  <2>2. CASE UNCHANGED <<mark, run, download>>
    BY <1>3, <2>2, StepPins DEF PrefixCopy, PassedInv, TreeInv, StageInv, At, AtTree,
       AtNative, AtBuild, Wanted
  <2> QED
    BY <1>3, <2>1, <2>2 DEF PrefixCopy
<1>4. CASE TreeClear
  <2>1. /\ run.pc = "clear"
        /\ run' = run \/ Goto("extract")
        /\ UNCHANGED <<download, checkout>>
        /\ mark' = mark \/ mark' = [mark EXCEPT ![run.tree] = None]
    BY <1>4 DEF TreeClear, At
  <2>2. /\ run'.pc \in {"clear", "extract"} /\ run'.tree = run.tree
        /\ run'.component = run.component
    BY <2>1, GotoFacts, PlaceFacts
  <2>3. \A t \in Trees \ {run.tree} : mark'[t] = mark[t]
    BY <2>1, StepPins DEF TypeOK
  <2> QED
    BY <2>1, <2>2, <2>3, StepPins DEF PassedInv, TreeInv, StageInv, At, AtTree, AtNative,
       AtBuild, Wanted
<1>5. CASE TreeExtract
  <2>1. /\ run.pc = "extract" /\ UNCHANGED <<mark, download, checkout>>
        /\ \/ run' = run
           \/ /\ Goto("patch") /\ tree' = tree
              /\ \A f \in FilesOf[Wanted(run.tree)] : tree[run.tree][f] = Extracted
    BY <1>5 DEF TreeExtract, At
  <2>2. Extracted \in {Unpatched, Wanted(run.tree)}
    BY <2>1 DEF Extracted, TreeInv
  <2>3. /\ run'.tree = run.tree /\ run'.component = run.component
        /\ run'.pc \in {"extract", "patch"}
        /\ run'.pc = "patch" => \A f \in FilesOf[Wanted(run.tree)] :
                                   tree'[run.tree][f] \in {Unpatched, Wanted(run.tree)}
    <3>1. CASE run' = run
      BY <2>1, <3>1
    <3>2. CASE run' # run
      BY <2>1, <2>2, <3>2, GotoFacts, PlaceFacts
    <3> QED
      BY <3>1, <3>2
  <2> QED
    BY <2>1, <2>3, StepPins DEF PassedInv, TreeInv, StageInv, At, AtTree,
       AtNative, AtBuild, Wanted
<1>6. CASE TreePatch
  <2>1. PICK f \in FilesOf[Wanted(run.tree)] :
           /\ run.pc = "patch" /\ UNCHANGED <<run, mark, download, checkout>>
           /\ tree' = [tree EXCEPT ![run.tree][f] = Wanted(run.tree)]
    BY <1>6 DEF TreePatch, At
  <2>2. \A g \in FilesOf[Wanted(run.tree)] :
           tree'[run.tree][g] \in {Unpatched, Wanted(run.tree)}
    <3>1. \A g \in FilesOf[Wanted(run.tree)] :
             g \in Files /\ tree[run.tree][g] \in {Unpatched, Wanted(run.tree)}
      <4>1. FilesOf[Wanted(run.tree)] \subseteq Files
        BY StepPins, PinFacts, CacheAssumption DEF TypeOK
      <4> QED
        BY <2>1, <4>1 DEF TreeInv, At
    <3>2. \A g \in Files : tree'[run.tree][g] \in {Wanted(run.tree), tree[run.tree][g]}
      BY <2>1, StepPins DEF TypeOK, Contents
    <3> QED
      BY <3>1, <3>2
  <2> QED
    BY <2>1, <2>2, StepPins DEF PassedInv, TreeInv, StageInv, At, AtTree, AtNative,
       AtBuild, Wanted
<1> QED
  BY <1>1, <1>2, <1>3, <1>4, <1>5, <1>6

\* The native runtime, the vendored crates and the start of cargo.
LEMMA NativeSteps ==
    ASSUME TypeOK, TypeOK', PassedInv, TreeInv, Step, run' # Idle,
           \/ NativeClear \/ \E l \in Libraries : NativeCopy(l)
           \/ VendorCheck \/ CargoVendor \/ VendorMark
    PROVE  PassedInv' /\ TreeInv' /\ StageInv'
<1>1. /\ run.pc \in AtNative /\ UNCHANGED <<mark, tree, download>>
      /\ \/ run' = run \/ Goto("native copy") \/ Goto("vendor") \/ Goto("compile")
  BY DEF NativeClear, NativeCopy, VendorCheck, CargoVendor, VendorMark, End, At, AtNative
<1>2. /\ run'.tree = run.tree /\ run'.component = run.component
      /\ run'.pc \in AtNative \cup {"compile"}
  <2>1. run' = run => run'.pc \in AtNative
    BY <1>1
  <2> QED
    BY <1>1, <2>1, GotoFacts, PlaceFacts DEF AtNative
<1>3. run'.pc = "vendor" => config' # None
  <2>1. CASE NativeClear \/ \E l \in Libraries : NativeCopy(l)
    <3>1. \/ Goto("native copy")
          \/ run' = run /\ run.pc = "native copy"
      BY <2>1 DEF NativeClear, NativeCopy, At
    <3> QED
      BY <3>1, GotoFacts, PlaceFacts
  <2>2. CASE VendorCheck
    <3>1. Goto("compile") \/ config' = "part"
      BY <2>2 DEF VendorCheck, End
    <3> QED
      BY <3>1, GotoFacts, PlaceFacts, CacheAssumption
  <2>3. CASE CargoVendor \/ VendorMark
    <3>1. config # None /\ config' \in {config, "whole"}
      BY <2>3 DEF CargoVendor, VendorMark, PassedInv, At
    <3> QED
      BY <3>1, CacheAssumption
  <2> QED
    BY <2>1, <2>2, <2>3
<1>4. run'.pc = "compile" => lockMark' = WantedLock /\ config' # None
  <2>1. CASE NativeClear \/ (\E l \in Libraries : NativeCopy(l)) \/ CargoVendor
    <3>1. Goto("native copy") \/ run' = run
      BY <2>1 DEF NativeClear, NativeCopy, CargoVendor
    <3>2. run'.pc # "compile"
      BY <1>1, <3>1, GotoFacts, PlaceFacts DEF AtNative
    <3> QED
      BY <3>2
  <2>2. CASE VendorCheck
    <3>1. \/ lockMark' = WantedLock /\ config' # None
          \/ Goto("vendor")
      BY <2>2 DEF VendorCheck, End
    <3> QED
      BY <3>1, GotoFacts, PlaceFacts
  <2>3. CASE VendorMark
    <3>1. \/ lockMark' = WantedLock /\ config' = config
          \/ run' = run
      BY <2>3 DEF VendorMark
    <3>2. config # None /\ run.pc = "vendor"
      BY <2>3 DEF VendorMark, PassedInv, At
    <3> QED
      BY <3>1, <3>2
  <2> QED
    BY <2>1, <2>2, <2>3
<1>5. WantedLock' = WantedLock
  BY <1>2, StepPins DEF WantedLock
<1> QED
  BY <1>1, <1>2, <1>3, <1>4, <1>5, StepPins DEF PassedInv, TreeInv, StageInv, At, AtTree,
     AtNative, AtBuild, Wanted

\* cargo build and the package root.
LEMMA BuildSteps ==
    ASSUME TypeOK, TypeOK', MarkInv, PassedInv, TreeInv, StageInv, Step, run' # Idle,
           \/ CargoBuild \/ CargoBuildLink
           \/ StageClear \/ StageBinary \/ StageNotices
    PROVE  PassedInv' /\ TreeInv' /\ StageInv'
<1>1. /\ run.pc \in AtBuild
      /\ UNCHANGED <<mark, tree, interrupted, download, lockMark, config, checkout>>
  BY StepPins DEF CargoBuild, CargoBuildLink, StageClear, StageBinary,
     StageNotices, At, AtBuild, cache
<1>2. \/ Goto("link") \/ CargoBuildLink
      \/ StageClear \/ StageBinary
  BY IdleFacts DEF CargoBuild, CargoBuildLink, StageClear, StageBinary,
     StageNotices, End
<1>3. CASE Goto("link")
  <2>1. /\ run'.tree = run.tree /\ run'.component = run.component /\ run'.pc = "link"
    BY <1>3, GotoFacts, PlaceFacts
  <2> QED
    BY <1>1, <2>1, StepPins DEF PassedInv, TreeInv, StageInv, At, AtTree, AtNative,
       AtBuild, Wanted, WantedLock
<1>4. CASE CargoBuildLink
  <2> DEFINE exe == [prefix |-> tree["prefix"], source |-> tree[run.component]]
  <2>1. /\ mark["prefix"] = Wanted("prefix") /\ mark[run.component] = Wanted(run.component)
        /\ \A t : ~Busy(t)
    BY <1>1 DEF PassedInv, Busy, AtBuild
  <2>2. /\ "prefix" \notin interrupted => HoldsPin(tree["prefix"], Wanted("prefix"))
        /\ run.component \notin interrupted =>
              HoldsPin(tree[run.component], Wanted(run.component))
    BY <2>1, StepPins, Trusted
  <2>3. Pinned(exe)
    BY <2>2 DEF Pinned
  <2>4. run' = [run EXCEPT !.pc = "stage", !.exe = exe]
    BY <1>4 DEF CargoBuildLink
  <2> HIDE DEF exe
  <2>5. /\ run'.tree = run.tree /\ run'.component = run.component
        /\ run'.pc = "stage" /\ run'.exe = exe
    BY <2>4, StepPins DEF Running
  <2>6. Pinned(run.exe)'
    BY <1>1, <2>3, <2>5 DEF Pinned, HoldsPin, Wanted
  <2> QED
    BY <1>1, <2>5, <2>6, StepPins DEF PassedInv, TreeInv, StageInv, At, AtTree,
       AtNative, AtBuild, Wanted, WantedLock
<1>5. CASE StageClear \/ StageBinary
  <2>1. \/ run.pc = "stage" /\ Goto("stage binary") /\ stage' = <<>>
        \/ run.pc = "stage binary" /\ Goto("stage notices") /\ stage' = Append(stage, run.exe)
    BY <1>5 DEF StageClear, StageBinary, At
  <2>2. Pinned(run.exe)
    BY <2>1 DEF StageInv
  <2>3. run.pc = "stage binary" => Append(stage, run.exe) = <<run.exe>>
    <3>1. \A x : Append(<<>>, x) = <<x>>
      OBVIOUS
    <3> QED
      BY <3>1 DEF StageInv, At
  <2>4. /\ run'.tree = run.tree /\ run'.component = run.component /\ run'.exe = run.exe
        /\ \/ run'.pc = "stage binary" /\ stage' = <<>>
           \/ run'.pc = "stage notices" /\ stage' = <<run'.exe>>
    BY <2>1, <2>3, GotoFacts, PlaceFacts
  <2>5. Pinned(run.exe)'
    BY <1>1, <2>2, <2>4 DEF Pinned, HoldsPin, Wanted
  <2> QED
    BY <1>1, <2>4, <2>5, StepPins DEF PassedInv, TreeInv, StageInv, At, AtTree,
       AtNative, AtBuild, Wanted, WantedLock
<1> QED
  BY <1>2, <1>3, <1>4, <1>5

LEMMA WayStep ==
    ASSUME TypeOK, TypeOK', MarkInv, PassedInv, TreeInv, StageInv, Step
    PROVE  (~At("idle") => PassedInv /\ TreeInv /\ StageInv)'
<1>1. CASE run' = Idle
  BY <1>1, IdleFacts DEF At
<1>2. CASE FetchOffline
  BY <1>1, <1>2 DEF FetchOffline, End
<1> QED
  BY <1>1, <1>2, FetchSteps, TreeSteps, NativeSteps, BuildSteps DEF Step

-----------------------------------------------------------------------------
(* How a helper ends.                                                      *)

LEMMA LastStep ==
    ASSUME TypeOK, Step
    PROVE  \/ last' = last
           \/ last' = Nothing
           \/ /\ last' = [result |-> "refused", component |-> run.component,
                          repeated |-> run.repeated]
              /\ FetchOffline \/ (VendorCheck /\ ~(lockMark = WantedLock /\ config # None))
           \/ /\ last' = [result |-> "ok", component |-> run.component,
                          repeated |-> run.repeated]
              /\ run' = Idle /\ StageNotices
              /\ stage' = Append(stage, [lock |-> WantedLock,
                                         patches |-> Wanted(run.component)])
<1>1. CASE FetchOffline
  BY <1>1 DEF FetchOffline, End
<1>2. CASE FetchVerify
  BY <1>2 DEF FetchVerify, End
<1>3. CASE VendorCheck
  BY <1>3 DEF VendorCheck, End
<1>4. CASE CargoBuild
  BY <1>4 DEF CargoBuild, End
<1>5. CASE StageNotices
  BY <1>5 DEF StageNotices, End
<1> QED
  BY <1>1, <1>2, <1>3, <1>4, <1>5 DEF Step, Provision, FetchCached, FetchReceive,
     TreeCheck, TreeClear, TreeExtract, TreePatch, TreeMark, PrefixCopy, NativeClear,
     NativeCopy, CargoVendor, VendorMark, CargoBuildLink, StageClear,
     StageBinary

\* A repeated run finds everything and changes none of it.
LEMMA RepeatedStep ==
    ASSUME TypeOK, TypeOK', PassedInv, TreeInv, RepeatInv, Step, run.repeated,
           NEW c \in Components, c = run.component
    PROVE  /\ ~FetchOffline
           /\ VendorCheck => lockMark = WantedLock /\ config # None
           /\ Complete(c)'
           /\ run' # Idle => /\ run'.tree # "component"
                             /\ run'.pc \notin {"verify", "clear", "extract", "patch",
                                                "copy", "vendor"}
<1>1. /\ Complete(run.component) /\ run.tree # "component" /\ run.tree \in Trees
      /\ run.pc \notin {"verify", "clear", "extract", "patch", "copy", "vendor"}
      /\ ~At("idle")
  BY StepPins DEF RepeatInv
<1>2. /\ \A t \in {"prefix", "headers", run.component} : mark[t] = Wanted(t)
      /\ \A t \in {"headers", run.component} : download[t] = Wanted(t)
      /\ lockMark = WantedLock /\ config # None
  BY <1>1 DEF Complete, WantedLock
<1>3. run.pc \in AtTree =>
         /\ run.tree \in {"headers", run.component}
         /\ mark[run.tree] = Wanted(run.tree) /\ download[run.tree] = Wanted(run.tree)
  BY <1>1, <1>2 DEF PassedInv
<1>4. ~FetchOffline /\ ~FetchReceive
  BY <1>3 DEF FetchOffline, FetchReceive, At, AtTree
<1>5. ~FetchVerify /\ ~TreeClear /\ ~TreeExtract /\ ~TreePatch /\ ~TreeMark
      /\ ~PrefixCopy /\ ~CargoVendor /\ ~VendorMark
  BY <1>1 DEF FetchVerify, TreeClear, TreeExtract, TreePatch, TreeMark, PrefixCopy,
     CargoVendor, VendorMark, At
<1>6. VendorCheck => lockMark = WantedLock /\ config # None
  BY <1>2
<1>7. UNCHANGED <<mark, download, lockMark, config, checkout>>
  <2>1. CASE Provision
    BY <1>2, <2>1 DEF Provision
  <2>2. CASE VendorCheck
    BY <1>2, <2>2 DEF VendorCheck
  <2> QED
    BY <1>4, <1>5, <2>1, <2>2 DEF Step, FetchCached, TreeCheck, NativeClear, NativeCopy,
       CargoBuild, CargoBuildLink, StageClear, StageBinary,
       StageNotices, cache
<1>8. Complete(c)'
  <2>1. /\ \A t \in {"prefix", "headers", c} : mark'[t] = Stamp[t][checkout']
        /\ \A t \in {"headers", c} : download'[t] = Stamp[t][checkout']
        /\ lockMark' = Lock[c][checkout'] /\ config' # None
    BY <1>2, <1>7 DEF Wanted, WantedLock
  <2> QED
    BY <2>1 DEF Complete, Wanted
<1>9. ASSUME run' # Idle
      PROVE  /\ run'.tree # "component"
             /\ run'.pc \notin {"verify", "clear", "extract", "patch", "copy", "vendor"}
  <2>1. \/ run' = run
        \/ \E p \in {"check", "native copy", "compile", "link",
                     "stage binary", "stage notices"} : Goto(p)
        \/ GotoTree("fetch", "headers")
        \/ CargoBuildLink
        \/ TreeDone(run.tree) /\ run.pc \in AtTree
    <3>1. CASE Provision
      BY <1>2, <3>1 DEF Provision
    <3>2. CASE TreeCheck
      BY <1>3, <3>2 DEF TreeCheck, At, AtTree
    <3>3. CASE VendorCheck
      BY <1>2, <3>3 DEF VendorCheck
    <3>4. CASE CargoBuild \/ StageNotices
      BY <1>9, <3>4 DEF CargoBuild, StageNotices, End
    <3> QED
      BY <1>4, <1>5, <3>1, <3>2, <3>3, <3>4 DEF Step, FetchCached, NativeClear, NativeCopy,
         StageClear, StageBinary
  <2>2. CASE run' = run
    BY <1>1, <2>2
  <2>3. CASE \E p \in {"check", "native copy", "compile", "link",
                     "stage binary", "stage notices"} : Goto(p)
    BY <1>1, <2>3, GotoFacts, PlaceFacts
  <2>4. CASE GotoTree("fetch", "headers")
    BY <2>4, GotoFacts, PlaceFacts, StepPins
  <2>5. CASE CargoBuildLink
    BY <1>1, <2>5, StepPins DEF CargoBuildLink, Running
  <2>6. CASE TreeDone(run.tree) /\ run.pc \in AtTree
    <3>1. run.tree \in {"headers", run.component}
      BY <1>3, <2>6
    <3>2. GotoTree("fetch", run.component) \/ Goto("native")
      BY <2>6, <3>1, StepPins DEF TreeDone
    <3> QED
      BY <1>1, <3>2, GotoFacts, PlaceFacts, StepPins
  <2> QED
    BY <2>1, <2>2, <2>3, <2>4, <2>5, <2>6
<1> QED
  BY <1>4, <1>6, <1>8, <1>9

LEMMA EndStep ==
    ASSUME TypeOK, TypeOK', MarkInv, PassedInv, TreeInv, StageInv, RepeatInv,
           OfflineRepeatWorks, Step
    PROVE  RepeatInv' /\ StagedIsPinned' /\ OfflineRepeatWorks'
<1> DEFINE c == run.component
<1>1. /\ c \in Components /\ run \in Running /\ ~At("idle")
      /\ run' = Idle \/ (run' \in Running /\ run'.component = c /\ run'.repeated = run.repeated)
      /\ Nothing.result = None
      /\ run' = Idle <=> run'.pc = "idle"
  BY StepPins, RunStep, IdleFacts DEF Nothing
<1>2. last.result # "ok"
  BY <1>1 DEF RepeatInv
<1>3. CASE last' = last \/ last' = Nothing
  <2>1. last'.result # "ok" /\ OfflineRepeatWorks'
    BY <1>1, <1>2, <1>3, CacheAssumption DEF OfflineRepeatWorks
  <2>2. StagedIsPinned'
    BY <2>1 DEF StagedIsPinned
  <2>3. RepeatInv'
    BY <1>1, <2>1, RepeatedStep DEF RepeatInv, At
  <2> QED
    BY <2>1, <2>2, <2>3
<1>4. CASE /\ last' = [result |-> "refused", component |-> c, repeated |-> run.repeated]
           /\ FetchOffline \/ (VendorCheck /\ ~(lockMark = WantedLock /\ config # None))
  <2>1. ~run.repeated
    BY <1>1, <1>4, RepeatedStep
  <2>2. last'.result = "refused" /\ ~last'.repeated
    BY <1>4, <2>1
  <2>3. RepeatInv'
    BY <1>1, <2>1, <2>2 DEF RepeatInv, At
  <2> QED
    BY <2>2, <2>3 DEF StagedIsPinned, OfflineRepeatWorks
<1>5. CASE /\ last' = [result |-> "ok", component |-> c, repeated |-> run.repeated]
           /\ run' = Idle /\ StageNotices
           /\ stage' = Append(stage, [lock |-> WantedLock, patches |-> Wanted(c)])
  <2> DEFINE named == [lock |-> WantedLock, patches |-> Wanted(c)]
  <2>1. last'.result = "ok" /\ last'.component = c
    BY <1>5
  <2>2. /\ run.pc = "stage notices" /\ checkout' = checkout
        /\ UNCHANGED <<mark, download, lockMark, config>>
    BY <1>5, StepPins DEF StageNotices, At
  <2>3. /\ \A t \in {"prefix", "headers", c} : mark'[t] = Stamp[t][checkout']
        /\ \A t \in {"headers", c} : download'[t] = Stamp[t][checkout']
        /\ lockMark' = Lock[c][checkout'] /\ config' # None
    BY <2>2 DEF PassedInv, AtBuild, Wanted, WantedLock
  <2>5. RepeatInv'
    <3>1. last'.component \in Components /\ Complete(last.component)'
      BY <1>1, <2>1, <2>3 DEF Complete, Wanted
    <3> QED
      BY <1>1, <1>5, <3>1 DEF RepeatInv, At
  <2>6. Len(stage') = 2 /\ stage'[1] = run.exe /\ stage'[2] = named
    <3>1. ASSUME NEW x, NEW y
          PROVE  LET both == Append(<<x>>, y)
                 IN  Len(both) = 2 /\ both[1] = x /\ both[2] = y
      <4>1. <<x>> \in Seq({x, y}) /\ Len(<<x>>) = 1 /\ <<x>>[1] = x
        OBVIOUS
      <4> QED
        BY <4>1, AppendProperties
    <3>2. stage = <<run.exe>>
      BY <2>2 DEF StageInv, At
    <3> HIDE DEF named
    <3>3. stage' = Append(stage, named)
      BY <1>5 DEF named
    <3> QED
      BY <3>1, <3>2, <3>3
  <2>7. Pinned(stage'[1]) /\ stage'[2].lock = WantedLock /\ stage'[2].patches = Wanted(c)
    <3>1. Pinned(run.exe)
      BY <2>2 DEF StageInv
    <3> QED
      BY <2>6, <3>1
  <2>8. StagedIsPinned'
    <3>1. interrupted' = interrupted
      BY <1>5 DEF StageNotices
    <3>2. /\ c \notin interrupted' => HoldsPin(stage'[1].source, Stamp[c][checkout'])
          /\ "prefix" \notin interrupted' =>
                HoldsPin(stage'[1].prefix, Stamp["prefix"][checkout'])
      BY <2>2, <2>7, <3>1 DEF Pinned, Wanted
    <3>3. /\ stage'[2].lock = Lock[c][checkout'] /\ stage'[2].patches = Stamp[c][checkout']
      BY <2>2, <2>7 DEF Wanted, WantedLock
    <3> QED
      BY <2>1, <2>6, <3>2, <3>3 DEF StagedIsPinned, Wanted, HoldsPin
  <2> QED
    BY <2>1, <2>5, <2>8 DEF OfflineRepeatWorks
<1> QED
  BY <1>3, <1>4, <1>5, LastStep

-----------------------------------------------------------------------------
(* The inductive invariant and what follows from it.                       *)

LEMMA StartStep ==
    ASSUME IInv, NEW c \in Components, NEW offline \in BOOLEAN, Start(c, offline)
    PROVE  IInv'
<1> DEFINE again == last.result = "ok" /\ last.component = c
           begun == [pc |-> "provision", tree |-> "prefix", component |-> c,
                     offline |-> offline, exe |-> None, repeated |-> again]
<1>1. /\ UNCHANGED <<checkout, download, partial, tree, mark, interrupted,
                     native, vendor, lockMark, config>>
      /\ run' = begun /\ last' = Nothing
  BY DEF Start
<1>2. begun \in Running
  BY TreeFacts DEF Running, Places
<1>3. /\ run'.pc = "provision" /\ run'.tree = "prefix" /\ run'.component = c
      /\ run'.repeated = again
  BY <1>1
<1>4. TypeOK'
  BY <1>1, <1>2 DEF IInv, TypeOK
<1>9. MarkInv'
  <2>1. \A t : ~Busy(t)
    BY DEF Start, Busy, At
  <2> QED
    BY <1>1, <2>1 DEF IInv, MarkInv, HoldsPin
<1>5. last'.result \notin {"ok", "refused"}
  BY <1>1, CacheAssumption DEF Nothing
<1>6. again => Complete(c)'
  BY <1>1 DEF IInv, RepeatInv, Complete, Wanted
<1>7. RepeatInv'
  <2>1. again => Complete(run.component)'
    BY <1>3, <1>1 DEF IInv, RepeatInv, Complete, Wanted
  <2> QED
    BY <1>3, <1>5, <2>1 DEF RepeatInv
<1>8. (PassedInv /\ TreeInv /\ StageInv)'
  BY <1>3 DEF PassedInv, TreeInv, StageInv, At, AtTree, AtNative, AtBuild
<1> QED
  BY <1>4, <1>5, <1>7, <1>8, <1>9 DEF IInv, StagedIsPinned, OfflineRepeatWorks

LEMMA KilledStep == IInv /\ Killed => IInv'
<1> SUFFICES ASSUME IInv, Killed PROVE IInv'
  OBVIOUS
<1>1. /\ UNCHANGED <<checkout, download, tree, mark, vendor, lockMark, config>>
      /\ run' = Idle /\ last' = Nothing /\ partial' = None
      /\ native' = [l \in Libraries |-> None]
  BY DEF Killed, End
<1>2. run \in Running /\ run.tree \in Trees
  BY IdleFacts, RunFacts DEF IInv, TypeOK, Killed, At, Idle
<1>3. TypeOK'
  BY <1>1, <1>2 DEF IInv, TypeOK, Killed
<1>4. MarkInv'
  <2> SUFFICES ASSUME NEW t \in Trees \ interrupted', mark[t] # None
               PROVE  HoldsPin(tree[t], mark[t])
    BY <1>1 DEF MarkInv, HoldsPin
  <2>1. t \notin interrupted /\ ~Busy(t)
    BY DEF Killed, Busy
  <2> QED
    BY <2>1 DEF IInv, MarkInv
<1>5. last'.result \notin {"ok", "refused"} /\ At("idle")'
  BY <1>1, IdleFacts, CacheAssumption DEF Nothing, At
<1> QED
  BY <1>3, <1>4, <1>5 DEF IInv, StagedIsPinned, OfflineRepeatWorks, RepeatInv

LEMMA UpdateStep == IInv /\ Update => IInv'
<1> SUFFICES ASSUME IInv, Update PROVE IInv'
  OBVIOUS
<1>1. /\ UNCHANGED <<download, partial, tree, mark, interrupted, native, vendor,
                     lockMark, config, run>>
      /\ last' = Nothing /\ At("idle")
      /\ checkout' \in Checkouts
  BY DEF Update
<1>2. TypeOK' /\ MarkInv'
  BY <1>1 DEF IInv, TypeOK, MarkInv, Busy, HoldsPin
<1>3. last'.result \notin {"ok", "refused"} /\ At("idle")'
  BY <1>1, CacheAssumption DEF Nothing, At
<1> QED
  BY <1>2, <1>3 DEF IInv, StagedIsPinned, OfflineRepeatWorks, RepeatInv

LEMMA NextPreserves == IInv /\ [Next]_vars => IInv'
<1> SUFFICES ASSUME IInv, [Next]_vars PROVE IInv'
  OBVIOUS
<1>1. ASSUME NEW c \in Components, NEW offline \in BOOLEAN, Start(c, offline)
      PROVE  IInv'
  BY <1>1, StartStep
<1>2. CASE Step
  <2>1. TypeOK /\ MarkInv /\ RepeatInv /\ OfflineRepeatWorks
    BY DEF IInv
  <2>2. PassedInv /\ TreeInv /\ StageInv
    BY <1>2, <2>1, StepPins DEF IInv
  <2>3. TypeOK'
    BY <1>2, <2>1, <2>2, TypeStep
  <2>4. MarkInv' /\ (~At("idle") => PassedInv /\ TreeInv /\ StageInv)'
    BY <1>2, <2>1, <2>2, <2>3, MarkStep, WayStep
  <2>5. RepeatInv' /\ StagedIsPinned' /\ OfflineRepeatWorks'
    BY <1>2, <2>1, <2>2, <2>3, EndStep
  <2> QED
    BY <2>3, <2>4, <2>5 DEF IInv
<1>3. CASE UNCHANGED vars
  <2>1. TypeOK' /\ MarkInv'
    BY <1>3 DEF vars, cache, IInv, TypeOK, MarkInv, Busy, HoldsPin
  <2>2. StagedIsPinned' /\ OfflineRepeatWorks'
    BY <1>3 DEF vars, cache, IInv, StagedIsPinned, OfflineRepeatWorks, Wanted, HoldsPin
  <2>3. RepeatInv'
    BY <1>3 DEF vars, cache, IInv, RepeatInv, Complete, At, Wanted
  <2>4. (~At("idle") => PassedInv)'
    BY <1>3 DEF vars, cache, IInv, PassedInv, At, Wanted, WantedLock
  <2>5. (~At("idle") => TreeInv /\ StageInv)'
    BY <1>3 DEF vars, cache, IInv, TreeInv, StageInv, At, Pinned, HoldsPin, Wanted
  <2> QED
    BY <2>1, <2>2, <2>3, <2>4, <2>5 DEF IInv
<1> QED
  BY <1>1, <1>2, <1>3, KilledStep, UpdateStep DEF Next, Step

\* Whatever helpers of whatever checkouts were killed, and in whatever order
\* the checkouts came, a marker vouches for its tree, except where a helper
\* ended under it while it removed or replaced the tree.
THEOREM Inductive == Spec => []IInv
<1> QED
  BY InitEstablishes, NextPreserves, PTL DEF Spec

\* cargo compiles with the pinned compiler, headers and patched source, unless
\* a helper ended under the marker of that very tree (or of the component the
\* compiler was copied from): component, build and source_tree write a marker
\* only after its tree, and provision removes the prefix's before it copies.
THEOREM CompilesFromPins == Spec => []CompilesFromPinnedInputs
<1>1. IInv => CompilesFromPinnedInputs
  <2> SUFFICES ASSUME IInv, run.pc \in {"compile", "link"},
                      NEW t \in Inputs(run.component) \ interrupted
               PROVE  HoldsPin(tree[t], Wanted(t))
    BY DEF CompilesFromPinnedInputs
  <2>1. run \in Running /\ run.component \in Components
    BY IdleFacts, RunFacts DEF IInv, TypeOK, Idle
  <2>2. TypeOK /\ MarkInv /\ PassedInv
    BY DEF IInv, At
  <2>3. mark[t] = Wanted(t)
    BY <2>2 DEF PassedInv, AtBuild, Inputs
  <2>4. t \in Trees \ interrupted /\ ~Busy(t)
    BY <2>1, TreeFacts DEF Inputs, Busy
  <2> QED
    BY <2>2, <2>3, <2>4, Trusted
<1> QED
  BY <1>1, Inductive, PTL

\* The package root a successful helper leaves holds one executable, linked
\* from the prefix, the patched source and the lock its build.json names, with
\* the same exception.
THEOREM StagedPinned == Spec => []StagedIsPinned
<1>1. IInv => StagedIsPinned
  BY DEF IInv
<1> QED
  BY <1>1, Inductive, PTL

\* A helper repeated with --offline right after its success is not refused.
THEOREM OfflineRepeats == Spec => []OfflineRepeatWorks
<1>1. IInv => OfflineRepeatWorks
  BY DEF IInv
<1> QED
  BY <1>1, Inductive, PTL
=============================================================================
