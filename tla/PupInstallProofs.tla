--------------------------- MODULE PupInstallProofs ---------------------------
(***************************************************************************)
(* Proofs about `pup install`: with any number of processes dependencies   *)
(* are extracted before what needs them, and no installed package loses a  *)
(* regular file, or a link but to an extraction that makes it again; a     *)
(* process that nobody disturbs extracts verified archives only and leaves *)
(* what it reports as installed whole.                                     *)
(***************************************************************************)
EXTENDS PupInstall, SequenceTheorems, TLAPS

USE DEF extraction

Places == Ended \cup {"check", "unlink", "open", "copy", "verify", "reject",
                      "archive", "extract"}

Paths == UNION {Links[p] : p \in Packages}

TypeOK ==
    /\ pc \in [Clients -> Places]
    /\ queue \in [Clients -> Seq(Packages)]
    /\ command \in [Clients -> Commands]
    /\ repo \in [Clients -> 1..(Repos + 1)]
    /\ banned \in [Clients -> SUBSET (1..Repos)]
    /\ archive \in [Clients -> Data \cup {"changing"}]
    /\ cache \in [Packages -> File]
    /\ left \in [Clients -> SUBSET Paths] /\ hand \in [Clients -> SUBSET Paths]
    /\ links \in [Packages -> SUBSET Paths] /\ dropped \in [Packages -> SUBSET Paths]
    /\ root \in [Packages -> {"none", "torn", "good", "unverified"}]
    /\ forced \subseteq Packages

\* A process between "check" and the end of its command is at a package.
Working(c) == pc[c] \notin Ended \cup {"check"}

QueueInv == \A c \in Clients : Working(c) => queue[c] # <<>>

\* Some version of all the package's files is in the root.
Installed(p) == root[p] \in {"good", "unverified"}

\* What a process has still to install is in the order of its plan, and what a
\* package needs that comes no more is installed.
OrderInv ==
    \A c \in Clients : pc[c] \notin Ended =>
        \A i \in 1..Len(queue[c]) : queue[c][i] \notin forced =>
            \A d \in Deps[queue[c][i]] :
                Installed(d) \/ \E j \in 1..(i - 1) : queue[c][j] = d

\* Nobody but c has started a command.
AloneIs(c) == \A d \in Clients \ {c} : pc[d] = "idle"

\* As long as nobody else has run, c extracts what it has verified: the file at
\* the path is the one it left there, and nobody else has it open.
AloneInv ==
    \A c \in Clients : AloneIs(c) =>
        /\ \A p \in Packages : root[p] # "unverified"
        /\ \A p \in Packages : cache[p].open \subseteq {c}
        /\ \A p \in Packages : cache[p].open # {} =>
              pc[c] \in {"copy", "extract"} /\ p = Package(c)
        /\ pc[c] = "open" => cache[Package(c)].data = "none"
        /\ pc[c] = "archive" => cache[Package(c)].data = "good"
        /\ pc[c] = "extract" => archive[c] = "good"

\* The links of p are in place, in the hand of a process, or were dropped, but
\* for those in S.
Covered(p, S) == Links[p] \subseteq S \cup links[p] \cup InHand(p) \cup dropped[p]

\* An installed package misses links for these reasons only: an extraction
\* comes to each of them.
LinkInv ==
    /\ \A p \in Packages : root[p] = "good" => Covered(p, {})
    /\ \A c \in Clients : pc[c] = "extract" =>
          left[c] \subseteq Links[Package(c)] /\ Covered(Package(c), left[c])

\* What a process that is alone has taken off its queue is whole, and the links
\* of the package it extracts are in place or will be.
DoneInv ==
    \A c \in Clients : AloneIs(c) =>
        /\ pc[c] = "extract" =>
              Links[Package(c)] \subseteq left[c] \cup hand[c] \cup links[Package(c)]
        /\ pc[c] \notin {"idle", "failed", "killed"} =>
              /\ Plan[command[c]] \in Seq(Packages)
              /\ \A p \in Range(Plan[command[c]]) : p \in Range(queue[c]) \/
                    (root[p] = "good" /\ Links[p] \subseteq links[p])
        /\ pc[c] = "ok" => queue[c] = <<>>

\* The repository a process has asked is one of those configured.
AskedInv == \A c \in Clients : pc[c] \in {"copy", "verify", "reject"} =>
                                  repo[c] <= Repos

\* The inductive invariant.
IInv ==
    /\ TypeOK /\ QueueInv /\ AskedInv /\ OrderInv /\ LinkInv /\ DependenciesComeFirst
    /\ AloneInv /\ DoneInv

-----------------------------------------------------------------------------
(* Types.                                                                  *)

LEMMA WorkingPackage ==
    ASSUME TypeOK, NEW c \in Clients, queue[c] # <<>>
    PROVE  /\ Package(c) \in Packages /\ Package(c) = queue[c][1]
           /\ Len(queue[c]) \in Nat \ {0}
           /\ Tail(queue[c]) \in Seq(Packages)
           /\ Len(Tail(queue[c])) = Len(queue[c]) - 1
           /\ \A i \in 1..Len(Tail(queue[c])) : Tail(queue[c])[i] = queue[c][i + 1]
<1>1. queue[c] \in Seq(Packages)
  BY DEF TypeOK
<1> QED
  BY <1>1, HeadTailProperties, EmptySeq DEF Package

LEMMA Closed ==
    ASSUME TypeOK, NEW c \in Clients, CloseArchive(c)
    PROVE  /\ archive' \in [Clients -> Data \cup {"changing"}]
           /\ cache' \in [Packages -> File]
           /\ \A p \in Packages : /\ cache'[p].data = cache[p].data
                                  /\ cache'[p].open = cache[p].open \ {c}
           /\ left' \in [Clients -> SUBSET Paths] /\ hand' \in [Clients -> SUBSET Paths]
           /\ dropped' \in [Packages -> SUBSET Paths] /\ links' = links
           /\ \A d \in Clients \ {c} : archive'[d] = archive[d]
BY DEF CloseArchive, TypeOK, File, Data

LEMMA RootTypes ==
    ASSUME TypeOK, NEW p \in Packages, NEW data,
           \/ RootBecomes(p, Whole(p, data)) \/ RootBecomes(p, Torn(p, data))
           \/ root' = root
    PROVE  root' \in [Packages -> {"none", "torn", "good", "unverified"}]
BY DEF TypeOK, RootBecomes, Whole, Torn

LEMMA InitEstablishes == Init => IInv
<1> SUFFICES ASSUME Init PROVE IInv
  OBVIOUS
<1>1. TypeOK
  <2>1. queue \in [Clients -> Seq(Packages)]
    BY EmptySeq DEF Init
  <2>2. cache \in [Packages -> File]
    BY DEF Init, File
  <2> QED
    BY <2>1, <2>2, InstallAssumption DEF Init, TypeOK, Places, Ended, Data
<1>2. QueueInv /\ AskedInv /\ OrderInv
  BY DEF Init, QueueInv, AskedInv, OrderInv, Working, Ended
<1>3. DependenciesComeFirst /\ AloneInv /\ LinkInv /\ DoneInv
  BY DEF Init, DependenciesComeFirst, AloneInv, LinkInv, DoneInv
<1> QED
  BY <1>1, <1>2, <1>3 DEF IInv

\* A step leaves the cache, or changes the file of the process's package.
LEMMA CacheStep ==
    ASSUME TypeOK, QueueInv, NEW c \in Clients, Run(c), ~Extract(c)
    PROVE  \/ cache' = cache
           \/ Package(c) \in Packages /\ \E file \in File : CacheBecomes(c, file)
<1>1. Working(c) => /\ Package(c) \in Packages
                    /\ cache[Package(c)] \in File
                    /\ cache[Package(c)].open \cup {c} \in SUBSET Clients
                    /\ cache[Package(c)].open \ {c} \in SUBSET Clients
                    /\ cache[Package(c)].data \in Data
  BY WorkingPackage DEF QueueInv, TypeOK, File
<1>2. NoFile \in File
  BY DEF NoFile, File, Data
<1>3. CASE OpenTarget(c)
  <2>1. [data |-> "partial", open |-> cache[Package(c)].open \cup {c}] \in File
    BY <1>1, <1>3 DEF OpenTarget, Working, File, Data, Ended
  <2> QED
    BY <1>1, <1>3, <2>1 DEF OpenTarget, Working, Ended
<1>4. CASE Download(c)
  <2>1. Working(c)
    BY <1>4 DEF Download, Working, Ended
  <2>2. \A d \in Data : [data |-> d, open |-> cache[Package(c)].open \ {c}] \in File
    BY <1>1, <2>1 DEF File
  <2>3. \A served \in {"good", "bad", "partial"} : Written(c, served) \subseteq File
    BY <1>1, <2>1, <2>2 DEF Written, Data
  <2>4. \E served \in {"good", "bad", "partial"} :
           \E file \in Written(c, served) : CacheBecomes(c, file)
    BY <1>4 DEF Download
  <2> QED
    BY <2>1, <2>3, <2>4, <1>1
<1>5. CASE OpenArchive(c)
  <2>1. Working(c)
    BY <1>5 DEF OpenArchive, Working, Ended
  <2>2. [data |-> cache[Package(c)].data,
         open |-> cache[Package(c)].open \cup {c}] \in File
    BY <1>1, <2>1 DEF File
  <2> QED
    BY <1>1, <2>1, <2>2, <1>5 DEF OpenArchive
<1>6. CASE Unlink(c) \/ Reject(c)
  BY <1>1, <1>2, <1>6 DEF Unlink, Reject, Working, Ended
<1>7. CASE CheckCache(c) \/ SkipBanned(c) \/ Verify(c) \/ TakeLink(c) \/ PutLink(c)
           \/ Finish(c)
  BY <1>7 DEF CheckCache, SkipBanned, Verify, TakeLink, PutLink, Finish
<1> QED
  BY <1>3, <1>4, <1>5, <1>6, <1>7 DEF Run

LEMMA TypeStep ==
    ASSUME TypeOK, QueueInv, AskedInv, NEW c \in Clients,
           Start(c) \/ Run(c) \/ Kill(c)
    PROVE  TypeOK'
<1> USE InstallAssumption DEF Goto, Places, Ended
<1>1. Working(c) => Package(c) \in Packages
  BY WorkingPackage DEF QueueInv
<1>2. CASE Start(c)
  <2>1. PICK m \in Commands :
           /\ command' = [command EXCEPT ![c] = m]
           /\ \/ Plan[m] = Failed /\ Goto(c, "failed") /\ UNCHANGED <<queue, forced>>
              \/ /\ Plan[m] # Failed /\ Goto(c, "check")
                 /\ queue' = [queue EXCEPT ![c] = Plan[m]]
                 /\ forced' \in {forced, forced \cup Range(Plan[m])}
    BY <1>2 DEF Start
  <2>2. Plan[m] # Failed => Plan[m] \in Seq(Packages) /\ Range(Plan[m]) \subseteq Packages
    BY LenProperties, ElementOfSeq DEF Range
  <2>3. repo' \in [Clients -> 1..(Repos + 1)] /\ banned' \in [Clients -> SUBSET (1..Repos)]
        /\ archive' \in [Clients -> Data \cup {"changing"}] /\ UNCHANGED <<cache, extraction>>
    BY <1>2 DEF Start, Data, TypeOK
  <2> QED
    BY <2>1, <2>2, <2>3 DEF TypeOK
<1>3. CASE Run(c) /\ ~Extract(c) /\ ~TakeLink(c) /\ ~PutLink(c)
  <2>1. cache' \in [Packages -> File]
    BY <1>3, CacheStep DEF CacheBecomes, TypeOK
  <2>2. pc' \in [Clients -> Places] /\ UNCHANGED <<queue, command, hand, root, links, dropped, forced>>
    <3>1. \E to \in Places : pc' = pc \/ Goto(c, to)
      BY <1>3 DEF Run, CheckCache, Unlink, SkipBanned, OpenTarget, Download, Verify,
         Reject, OpenArchive, Finish
    <3> QED
      BY <3>1, <1>3 DEF Run, CheckCache, Unlink, SkipBanned, OpenTarget, Download,
         Verify, Reject, OpenArchive, Finish, TypeOK
  <2>3. archive' \in [Clients -> Data \cup {"changing"}]
    <3>1. CASE OpenTarget(c)
      BY <3>1 DEF OpenTarget, TypeOK
    <3>2. CASE OpenArchive(c)
      <4>1. Working(c)
        BY <3>2 DEF OpenArchive, Working
      <4>2. cache[Package(c)].data \in Data
        BY <4>1, <1>1 DEF TypeOK, File
      <4> QED
        BY <3>2, <4>2 DEF OpenArchive, TypeOK
    <3> QED
      BY <1>3, <3>1, <3>2 DEF Run, CheckCache, Unlink, SkipBanned, Download, Verify,
         Reject, Finish, TypeOK
  <2>4. repo' \in [Clients -> 1..(Repos + 1)] /\ banned' \in [Clients -> SUBSET (1..Repos)]
    <3>1. CASE SkipBanned(c)
      BY <3>1 DEF SkipBanned, TypeOK
    <3>2. CASE Reject(c)
      BY <3>2 DEF Reject, TypeOK, AskedInv
    <3>3. CASE Unlink(c)
      BY <3>3 DEF Unlink, TypeOK
    <3> QED
      BY <1>3, <3>1, <3>2, <3>3 DEF Run, CheckCache, OpenTarget, Download, Verify,
         OpenArchive, Finish, TypeOK
  <2>5. left' \in [Clients -> SUBSET Paths]
    <3>1. Working(c) => Links[Package(c)] \subseteq Paths
      BY <1>1 DEF Paths
    <3> QED
      BY <1>3, <3>1 DEF Run, CheckCache, Unlink, SkipBanned, OpenTarget, Download, Verify,
         Reject, OpenArchive, Finish, Working, TypeOK
  <2> QED
    BY <2>1, <2>2, <2>3, <2>4, <2>5 DEF TypeOK
<1>6. CASE TakeLink(c)
  <2>1. PICK l \in left[c] :
           /\ hand' = [hand EXCEPT ![c] = {l}]
           /\ left' = [left EXCEPT ![c] = @ \ {l}]
           /\ links' = [links EXCEPT ![Package(c)] = @ \ {l}]
           /\ UNCHANGED <<pc, queue, command, repo, banned, archive, cache, root, dropped,
                          forced>>
    BY <1>6 DEF TakeLink
  <2>2. hand' \in [Clients -> SUBSET Paths] /\ left' \in [Clients -> SUBSET Paths]
    BY <2>1 DEF TypeOK
  <2>3. links' \in [Packages -> SUBSET Paths]
    BY <2>1 DEF TypeOK
  <2> QED
    BY <2>1, <2>2, <2>3 DEF TypeOK
<1>7. CASE PutLink(c)
  <2>1. root' \in [Packages -> {"none", "torn", "good", "unverified"}]
    BY <1>1, <1>7, RootTypes DEF PutLink, Working
  <2>2. /\ hand' = [hand EXCEPT ![c] = {}]
        /\ links' = [links EXCEPT ![Package(c)] = @ \cup hand[c]]
        /\ dropped' = [dropped EXCEPT ![Package(c)] = @ \ hand[c]]
        /\ UNCHANGED <<pc, queue, command, repo, banned, archive, cache, left, forced>>
    BY <1>7 DEF PutLink
  <2>3. hand' \in [Clients -> SUBSET Paths] /\ links' \in [Packages -> SUBSET Paths]
    BY <2>2 DEF TypeOK
  <2>4. dropped' \in [Packages -> SUBSET Paths]
    BY <2>2 DEF TypeOK
  <2> QED
    BY <2>1, <2>2, <2>3, <2>4 DEF TypeOK
<1>4. CASE Extract(c)
  <2>1. Package(c) \in Packages /\ Tail(queue[c]) \in Seq(Packages)
    BY <1>4, WorkingPackage DEF Extract, QueueInv, Working
  <2>2. CloseArchive(c)
    BY <1>4 DEF Extract
  <2>3. root' \in [Packages -> {"none", "torn", "good", "unverified"}]
    BY <1>4, <2>1, RootTypes DEF Extract, Extracted, CutShort
  <2>4. /\ queue' = queue \/ queue' = [queue EXCEPT ![c] = Tail(@)]
        /\ \E to \in {"check", "failed"} : pc' = [pc EXCEPT ![c] = to]
        /\ UNCHANGED <<command, repo, banned, forced>>
    BY <1>4 DEF Extract
  <2>5. queue' \in [Clients -> Seq(Packages)]
    BY <2>1, <2>4 DEF TypeOK
  <2>6. pc' \in [Clients -> Places]
    BY <2>4 DEF TypeOK
  <2> QED
    BY <2>2, <2>3, <2>4, <2>5, <2>6, Closed DEF TypeOK
<1>5. CASE Kill(c)
  <2>1. CloseArchive(c) /\ pc' \in [Clients -> Places]
    BY <1>5 DEF Kill, TypeOK
  <2>2. root' \in [Packages -> {"none", "torn", "good", "unverified"}]
    <3>1. CASE root' = root
      BY <3>1 DEF TypeOK
    <3>2. CASE root' # root
      BY <1>5, <1>1, <3>2, RootTypes DEF Kill, CutShort, Working
    <3> QED
      BY <3>1, <3>2
  <2>3. UNCHANGED <<queue, command, repo, banned, forced>>
    BY <1>5 DEF Kill
  <2> QED
    BY <2>1, <2>2, <2>3, Closed DEF TypeOK
<1> QED
  BY <1>2, <1>3, <1>4, <1>5, <1>6, <1>7

-----------------------------------------------------------------------------
(* The order of dependencies.                                              *)

Step(c) == Start(c) \/ Run(c) \/ Kill(c)

\* Other processes see a step in the cache, the root and their archives only.
LEMMA OthersStay ==
    ASSUME TypeOK, NEW c \in Clients, Step(c)
    PROVE  /\ \A d \in Clients \ {c} : /\ pc'[d] = pc[d] /\ queue'[d] = queue[d]
                                       /\ repo'[d] = repo[d]
                                       /\ left'[d] = left[d] /\ hand'[d] = hand[d]
           /\ pc'[c] # "idle"
           /\ forced \subseteq forced'
<1>1. CASE Start(c)
  BY <1>1 DEF Start, Goto, TypeOK, Ended
<1>2. CASE Run(c)
  BY <1>2 DEF Run, CheckCache, Unlink, SkipBanned, OpenTarget, Download, Verify,
     Reject, OpenArchive, TakeLink, PutLink, Extract, CloseArchive, Finish, Goto, TypeOK
<1>3. CASE Kill(c)
  BY <1>3 DEF Kill, CloseArchive, Goto, TypeOK
<1> QED
  BY <1>1, <1>2, <1>3 DEF Step

\* Only an extraction changes the root, and only at its package.
LEMMA RootStep ==
    ASSUME TypeOK, NEW c \in Clients, Step(c), root' # root
    PROVE  /\ pc[c] = "extract" /\ forced' = forced
           /\ \/ RootBecomes(Package(c), Whole(Package(c), archive[c]))
              \/ RootBecomes(Package(c), Torn(Package(c), archive[c]))
BY DEF Step, Start, Run, CheckCache, Unlink, SkipBanned, OpenTarget, Download,
   Verify, Reject, OpenArchive, TakeLink, PutLink, Extract, Extracted, CutShort,
   Finish, Kill

\* What is installed stays installed.
LEMMA InstalledStays ==
    ASSUME TypeOK, QueueInv, NEW c \in Clients, Step(c), NEW p \in Packages
    PROVE  /\ Installed(p) => Installed(p)'
           /\ root'[p] # root[p] => p = Package(c) /\ pc[c] = "extract"
<1>1. CASE root' = root
  BY <1>1 DEF Installed
<1>2. CASE root' # root
  <2>1. pc[c] = "extract" /\ Package(c) \in Packages
    BY <1>2, RootStep, WorkingPackage DEF QueueInv, Working, Ended
  <2> QED
    BY <1>2, <2>1, RootStep DEF Installed, RootBecomes, Whole, Torn, TypeOK
<1> QED
  BY <1>1, <1>2

\* A process takes the first package off its queue when it has installed it.
LEMMA QueueStep ==
    ASSUME TypeOK, QueueInv, NEW c \in Clients, Step(c), ~Start(c)
    PROVE  \/ queue' = queue
           \/ /\ pc[c] = "extract" /\ Package(c) \in Packages
              /\ queue' = [queue EXCEPT ![c] = Tail(@)]
              /\ root'[Package(c)] \in {"good", "unverified"}
<1>1. CASE Extract(c)
  <2>1. Package(c) \in Packages
    BY <1>1, WorkingPackage DEF Extract, QueueInv, Working, Ended
  <2> QED
    BY <1>1, <2>1 DEF Extract, Extracted, RootBecomes, Whole, TypeOK
<1>2. CASE ~Extract(c)
  BY <1>2 DEF Step, Run, CheckCache, Unlink, SkipBanned, OpenTarget, Download,
     Verify, Reject, OpenArchive, TakeLink, PutLink, Finish, Kill
<1> QED
  BY <1>1, <1>2

LEMMA QueueInvStep ==
    ASSUME TypeOK, QueueInv, AskedInv, NEW c \in Clients, Step(c)
    PROVE  QueueInv' /\ AskedInv'
<1> USE DEF QueueInv, AskedInv, Working, Ended
<1>1. \A d \in Clients \ {c} : /\ (Working(d) => queue[d] # <<>>)'
                               /\ (pc[d] \in {"copy", "verify", "reject"} =>
                                      repo[d] <= Repos)'
  BY OthersStay
<1>2. CASE Start(c)
  BY <1>1, <1>2 DEF Start, Goto, TypeOK
<1>3. CASE Run(c)
  <2>1. (Working(c) => queue[c] # <<>>)'
    BY <1>3 DEF Run, CheckCache, Unlink, SkipBanned, OpenTarget, Download, Verify,
       Reject, OpenArchive, TakeLink, PutLink, Extract, Finish, Goto, TypeOK
  <2>2. (pc[c] \in {"copy", "verify", "reject"} => repo[c] <= Repos)'
    BY <1>3 DEF Run, CheckCache, Unlink, SkipBanned, OpenTarget, Download, Verify,
       Reject, OpenArchive, TakeLink, PutLink, Extract, Finish, Goto, Askable, TypeOK
  <2> QED
    BY <1>1, <2>1, <2>2
<1>4. CASE Kill(c)
  BY <1>1, <1>4 DEF Kill, Goto, TypeOK
<1> QED
  BY <1>2, <1>3, <1>4 DEF Step

\* Dependencies stay in front of what needs them: a plan starts in this order,
\* and a package leaves the queue as its first and installed.
LEMMA OrderStep ==
    ASSUME TypeOK, QueueInv, OrderInv, NEW c \in Clients, Step(c)
    PROVE  OrderInv'
<1> DEFINE Ordered(q) ==
        \A i \in 1..Len(q) : q[i] \notin forced =>
            \A d \in Deps[q[i]] : Installed(d) \/ \E j \in 1..(i - 1) : q[j] = d
<1>1. \A d \in Clients : \A i \in 1..Len(queue[d]) :
         queue[d][i] \in Packages /\ Deps[queue[d][i]] \subseteq Packages
  BY ElementOfSeq, InstallAssumption DEF TypeOK
<1>2. ASSUME NEW d \in Clients, queue'[d] = queue[d], Ordered(queue[d])
      PROVE  Ordered(queue[d])'
  BY <1>1, <1>2, OthersStay, InstalledStays
<1>3. \A d \in Clients \ {c} : pc'[d] \notin Ended => Ordered(queue[d])'
  BY <1>2, OthersStay DEF OrderInv
<1>4. pc'[c] \notin Ended => Ordered(queue[c])'
  <2>1. CASE Start(c) /\ pc'[c] \notin Ended
    <3>1. PICK m \in Commands :
             /\ Plan[m] # Failed /\ queue'[c] = Plan[m]
             /\ m.nodeps => Range(Plan[m]) \subseteq forced'
      BY <2>1 DEF Start, Goto, Ended, TypeOK
    <3>2. Plan[m] \in Seq(Packages)
      BY <3>1, InstallAssumption
    <3>3. CASE m.nodeps
      BY <3>1, <3>2, <3>3, LenProperties DEF Range
    <3>4. CASE ~m.nodeps
      BY <3>1, <3>4, InstallAssumption
    <3> QED
      BY <3>3, <3>4
  <2>2. CASE ~Start(c) /\ queue' = queue /\ pc'[c] \notin Ended
    <3>1. pc[c] \notin Ended
      BY <2>2 DEF Step, Run, CheckCache, Unlink, SkipBanned, OpenTarget, Download,
         Verify, Reject, OpenArchive, TakeLink, PutLink, Extract, Finish, Kill, Goto, TypeOK, Ended
    <3> QED
      BY <1>2, <2>2, <3>1 DEF OrderInv
  <2>3. CASE ~Start(c) /\ queue' # queue
    <3>1. /\ pc[c] = "extract" /\ queue'[c] = Tail(queue[c])
          /\ root'[Package(c)] \in {"good", "unverified"}
      BY <2>3, QueueStep DEF TypeOK
    <3>2. queue[c] # <<>> /\ Ordered(queue[c])
      BY <3>1 DEF QueueInv, OrderInv, Working, Ended
    <3> SUFFICES ASSUME NEW i \in 1..Len(queue'[c]), queue'[c][i] \notin forced',
                        NEW d \in Deps[queue'[c][i]], ~Installed(d)'
                 PROVE  \E j \in 1..(i - 1) : queue'[c][j] = d
      OBVIOUS
    <3>3. i + 1 \in 1..Len(queue[c]) /\ queue'[c][i] = queue[c][i + 1]
      BY <3>1, <3>2, WorkingPackage
    <3>4. ~Installed(d) /\ d # Package(c)
      BY <1>1, <3>1, <3>3, InstalledStays DEF Installed
    <3>5. PICK j \in 1..i : queue[c][j] = d
      BY <3>2, <3>3, <3>4, OthersStay
    <3>6. j # 1
      BY <3>2, <3>4, <3>5, WorkingPackage
    <3>7. j - 1 \in 1..(i - 1) /\ queue'[c][j - 1] = d
      BY <3>1, <3>2, <3>5, <3>6, WorkingPackage
    <3> QED
      BY <3>7
  <2> QED
    BY <2>1, <2>2, <2>3
<1> QED
  BY <1>3, <1>4 DEF OrderInv

\* A package is extracted when all it needs is installed, and stays so.
LEMMA DependenciesStep ==
    ASSUME TypeOK, QueueInv, OrderInv, DependenciesComeFirst, LinkInv',
           NEW c \in Clients, Step(c)
    PROVE  DependenciesComeFirst'
<1> SUFFICES ASSUME NEW p \in Packages \ forced', root'[p] # "none", NEW d \in Deps[p]
             PROVE  root'[d] \in {"good", "unverified"}
  BY InstallAssumption DEF DependenciesComeFirst, LinkInv, Covered
<1>1. p \notin forced /\ d \in Packages /\ p \in Packages
  BY OthersStay, InstallAssumption
<1>2. Installed(d)
  <2>1. CASE root[p] # "none"
    BY <1>1, <2>1 DEF DependenciesComeFirst, Installed, TypeOK
  <2>2. CASE root[p] = "none"
    <3>1. p = Package(c) /\ pc[c] = "extract"
      BY <1>1, <2>2, InstalledStays
    <3>2. 1 \in 1..Len(queue[c]) /\ queue[c][1] = p
      BY <3>1, WorkingPackage DEF QueueInv, Working, Ended
    <3>3. Installed(d) \/ \E j \in 1..(1 - 1) : queue[c][j] = d
      BY <1>1, <3>1, <3>2 DEF OrderInv, Ended
    <3> QED
      BY <3>3
  <2> QED
    BY <2>1, <2>2
<1> QED
  BY <1>1, <1>2, InstalledStays DEF Installed

-----------------------------------------------------------------------------
(* Links.                                                                  *)

\* Only makelink takes links, those of the package it extracts, into its hand.
LEMMA LinksLeave ==
    ASSUME TypeOK, LinkInv, NEW c \in Clients, Step(c), NEW p \in Packages
    PROVE  links[p] \subseteq links'[p] \cup InHand(p)'
<1>1. CASE TakeLink(c)
  <2>1. PICK l \in left[c] :
           /\ hand' = [hand EXCEPT ![c] = {l}]
           /\ links' = [links EXCEPT ![Package(c)] = @ \ {l}]
    BY <1>1 DEF TakeLink
  <2>2. pc[c] = "extract" /\ pc' = pc /\ queue' = queue /\ l \in Links[Package(c)]
    BY <1>1, <2>1 DEF TakeLink, LinkInv
  <2>3. p = Package(c) => l \in InHand(p)'
    BY <2>1, <2>2 DEF InHand, Package, TypeOK
  <2> QED
    BY <2>1, <2>3 DEF TypeOK
<1>2. CASE PutLink(c)
  BY <1>2 DEF PutLink, TypeOK
<1>3. CASE ~TakeLink(c) /\ ~PutLink(c)
  BY <1>3 DEF Step, Start, Run, CheckCache, Unlink, SkipBanned, OpenTarget, Download,
     Verify, Reject, OpenArchive, Extract, Finish, Kill, CloseArchive
<1> QED
  BY <1>1, <1>2, <1>3

\* A link that is there, in a hand or dropped is so after the step.
LEMMA CoveredStep ==
    ASSUME TypeOK, LinkInv, NEW c \in Clients, Step(c), NEW p \in Packages,
           NEW l \in links[p] \cup InHand(p) \cup dropped[p]
    PROVE  l \in links'[p] \cup InHand(p)' \cup dropped'[p]
<1>1. CASE l \in links[p]
  BY <1>1, LinksLeave
<1>2. CASE l \in InHand(p)
  <2>1. PICK e \in Clients : pc[e] = "extract" /\ Package(e) = p /\ l \in hand[e]
    BY <1>2 DEF InHand
  <2>2. CASE e # c
    <3>1. pc'[e] = "extract" /\ Package(e)' = p /\ hand'[e] = hand[e]
      BY <2>1, <2>2, OthersStay DEF Package
    <3> QED
      BY <1>2, <2>1, <3>1 DEF InHand
  <2>3. CASE e = c
    <3>1. CASE PutLink(c)
      BY <2>1, <2>3, <3>1 DEF PutLink, TypeOK
    <3>2. CASE Extract(c) \/ Kill(c)
      <4>1. CloseArchive(c)
        BY <3>2 DEF Extract, Kill
      <4> QED
        BY <2>1, <2>3, <4>1 DEF CloseArchive, TypeOK
    <3>3. ~TakeLink(c) /\ ~Start(c)
      BY <2>1, <2>3 DEF TakeLink, Start, Ended
    <3> QED
      BY <2>1, <2>3, <3>1, <3>2, <3>3 DEF Step, Run, CheckCache, Unlink, SkipBanned,
         OpenTarget, Download, Verify, Reject, OpenArchive, Finish
  <2> QED
    BY <2>2, <2>3
<1>3. CASE l \in dropped[p]
  <2>1. CASE PutLink(c)
    BY <1>3, <2>1 DEF PutLink, TypeOK
  <2>2. CASE Extract(c) \/ Kill(c)
    <3>1. CloseArchive(c)
      BY <2>2 DEF Extract, Kill
    <3> QED
      BY <1>3, <3>1 DEF CloseArchive, TypeOK
  <2>3. CASE ~PutLink(c) /\ ~Extract(c) /\ ~Kill(c)
    BY <1>3, <2>3 DEF Step, Start, Run, CheckCache, Unlink, SkipBanned, OpenTarget,
       Download, Verify, Reject, OpenArchive, TakeLink, Finish
  <2> QED
    BY <2>1, <2>2, <2>3
<1> QED
  BY <1>1, <1>2, <1>3

LEMMA LinkStep ==
    ASSUME TypeOK, QueueInv, LinkInv, NEW c \in Clients, Step(c)
    PROVE  LinkInv'
<1>1. ASSUME NEW p \in Packages, root'[p] = "good"
      PROVE  Covered(p, {})'
  <2>1. Covered(p, {})
    <3>1. CASE root[p] = "good"
      BY <3>1 DEF LinkInv
    <3>2. CASE root[p] # "good"
      <4>1. p = Package(c) /\ pc[c] = "extract"
        BY <1>1, <3>2, InstalledStays
      <4>2. RootBecomes(p, Whole(p, archive[c])) /\ archive[c] = "good" /\ left[c] = {}
        BY <1>1, <3>2, <4>1 DEF Step, Start, Run, CheckCache, Unlink, SkipBanned,
           OpenTarget, Download, Verify, Reject, OpenArchive, TakeLink, PutLink, Extract,
           Extracted, CutShort, Finish, Kill, RootBecomes, Whole, Torn, TypeOK, Ended
      <4> QED
        BY <4>1, <4>2 DEF LinkInv
    <3> QED
      BY <3>1, <3>2
  <2> QED
    BY <2>1, CoveredStep DEF Covered
<1>2. ASSUME NEW e \in Clients, pc'[e] = "extract"
      PROVE  (left[e] \subseteq Links[Package(e)] /\ Covered(Package(e), left[e]))'
  <2>1. CASE pc[e] = "extract" /\ Package(e)' = Package(e)
    <3>1. left[e] \subseteq Links[Package(e)] /\ Covered(Package(e), left[e])
          /\ Package(e) \in Packages
      BY <2>1, WorkingPackage DEF LinkInv, QueueInv, Working, Ended
    <3>2. CASE left'[e] = left[e]
      BY <2>1, <3>1, <3>2, CoveredStep DEF Covered
    <3>3. CASE left'[e] # left[e]
      <4>1. e = c
        BY <3>3, OthersStay
      <4>2. TakeLink(c)
        BY <1>2, <2>1, <3>3, <4>1 DEF Step, Start, Run, CheckCache, Unlink, SkipBanned,
           OpenTarget, Download, Verify, Reject, OpenArchive, PutLink, Extract, Finish,
           Kill, Goto, TypeOK, Ended
      <4>3. PICK l \in left[c] : /\ hand' = [hand EXCEPT ![c] = {l}]
                                 /\ left' = [left EXCEPT ![c] = @ \ {l}]
        BY <4>2 DEF TakeLink
      <4>4. l \in InHand(Package(c))'
        BY <1>2, <2>1, <3>1, <4>1, <4>3 DEF InHand, TypeOK
      <4> QED
        BY <2>1, <3>1, <4>1, <4>3, <4>4, CoveredStep DEF Covered, TypeOK
    <3> QED
      BY <3>2, <3>3
  <2>2. CASE pc[e] # "extract"
    <3>1. e = c
      BY <1>2, <2>2, OthersStay
    <3>2. OpenArchive(c)
      BY <1>2, <2>2, <3>1 DEF Step, Start, Run, CheckCache, Unlink, SkipBanned, OpenTarget,
         Download, Verify, Reject, TakeLink, PutLink, Extract, Finish, Kill, Goto, TypeOK
    <3>3. queue' = queue /\ left'[c] = Links[Package(c)]
      BY <1>2, <3>1, <3>2 DEF OpenArchive, Goto, TypeOK
    <3> QED
      BY <3>1, <3>3 DEF Covered, Package
  <2>3. CASE pc[e] = "extract" /\ Package(e)' # Package(e)
    <3>1. e = c /\ queue' # queue
      BY <2>3, OthersStay DEF Package
    <3>2. Start(c) \/ Extract(c)
      BY <3>1 DEF Step, Run, CheckCache, Unlink, SkipBanned, OpenTarget, Download, Verify,
         Reject, OpenArchive, TakeLink, PutLink, Finish, Kill
    <3> QED
      BY <1>2, <2>3, <3>1, <3>2 DEF Start, Extract, Goto, TypeOK, Ended
  <2> QED
    BY <2>1, <2>2, <2>3
<1> QED
  BY <1>1, <1>2 DEF LinkInv

-----------------------------------------------------------------------------
(* A process that nobody disturbs.                                         *)

\* Another process that takes a step ends the solitude for good, and so a step
\* after which c is alone is a step of c, which was alone.
LEMMA AloneStep ==
    ASSUME TypeOK, NEW c \in Clients, Step(c), NEW e \in Clients, AloneIs(e)'
    PROVE  e = c /\ AloneIs(c)
BY OthersStay DEF AloneIs

LEMMA AloneInvStep ==
    ASSUME TypeOK, QueueInv, AloneInv, NEW c \in Clients, Step(c), AloneIs(c)
    PROVE  /\ \A p \in Packages : root'[p] # "unverified"
           /\ \A p \in Packages : cache'[p].open \subseteq {c}
           /\ \A p \in Packages : cache'[p].open # {} =>
                 pc'[c] \in {"copy", "extract"} /\ p = Package(c)'
           /\ pc'[c] = "open" => cache'[Package(c)'].data = "none"
           /\ pc'[c] = "archive" => cache'[Package(c)'].data = "good"
           /\ pc'[c] = "extract" => archive'[c] = "good"
<1> DEFINE Claim == /\ \A p \in Packages : root'[p] # "unverified"
                    /\ \A p \in Packages : cache'[p].open \subseteq {c}
                    /\ \A p \in Packages : cache'[p].open # {} =>
                          pc'[c] \in {"copy", "extract"} /\ p = Package(c)'
                    /\ pc'[c] = "open" => cache'[Package(c)'].data = "none"
                    /\ pc'[c] = "archive" => cache'[Package(c)'].data = "good"
                    /\ pc'[c] = "extract" => archive'[c] = "good"
<1>1. /\ \A p \in Packages : root[p] # "unverified"
      /\ \A p \in Packages : cache[p].open \subseteq {c}
      /\ \A p \in Packages : cache[p].open # {} =>
            pc[c] \in {"copy", "extract"} /\ p = Package(c)
      /\ pc[c] = "open" => cache[Package(c)].data = "none"
      /\ pc[c] = "archive" => cache[Package(c)].data = "good"
      /\ pc[c] = "extract" => archive[c] = "good"
  BY DEF AloneInv
<1>2. Working(c) => Package(c) \in Packages
  BY WorkingPackage DEF QueueInv
<1>3. queue' = queue => Package(c)' = Package(c)
  BY DEF Package
<1>4. CASE Start(c)
  <2>1. /\ pc[c] \in Ended /\ UNCHANGED <<cache, root>>
        /\ pc'[c] \in {"check", "failed"}
    BY <1>4 DEF Start, Goto, TypeOK
  <2> QED
    BY <2>1, <1>1 DEF Ended
<1>5. CASE CheckCache(c) \/ Finish(c)
  BY <1>1, <1>3, <1>5 DEF CheckCache, Finish, Goto, TypeOK
<1>6. CASE Unlink(c)
  BY <1>1, <1>2, <1>3, <1>6 DEF Unlink, Goto, CacheBecomes, NoFile, Working, Ended, TypeOK
<1>7. CASE SkipBanned(c) \/ Verify(c)
  BY <1>1, <1>3, <1>7 DEF SkipBanned, Verify, Goto, TypeOK
<1>8. CASE OpenTarget(c)
  <2>1. pc[c] = "open" /\ Package(c) \in Packages /\ cache[Package(c)].open = {}
    BY <1>1, <1>2, <1>8 DEF OpenTarget, Working, Ended
  <2>2. CASE pc'[c] = "reject" /\ cache' = cache
    BY <1>1, <1>3, <1>8, <2>1, <2>2 DEF OpenTarget
  <2>3. CASE pc'[c] = "copy" /\ CacheBecomes(c, [data |-> "partial", open |-> {c}])
    BY <1>1, <1>3, <1>8, <2>1, <2>3 DEF OpenTarget, CacheBecomes, TypeOK
  <2> QED
    BY <1>8, <2>1, <2>2, <2>3 DEF OpenTarget, Goto, TypeOK
<1>9. CASE Download(c)
  <2>1. pc[c] = "copy" /\ Package(c) \in Packages
    BY <1>2, <1>9 DEF Download, Working, Ended
  <2>2. \A served : \A file \in Written(c, served) : file.open = {}
    BY <1>1, <2>1 DEF Written
  <2>3. \E file : file.open = {} /\ CacheBecomes(c, file)
    BY <1>9, <2>2 DEF Download
  <2>4. pc'[c] \in {"verify", "reject", "failed"} /\ UNCHANGED <<root, queue>>
    BY <1>9 DEF Download, Goto, TypeOK
  <2> QED
    BY <1>1, <1>3, <2>1, <2>3, <2>4 DEF CacheBecomes, TypeOK
<1>10. CASE Reject(c)
  BY <1>1, <1>2, <1>3, <1>10 DEF Reject, Goto, CacheBecomes, NoFile, Working, Ended,
     TypeOK
<1>11. CASE OpenArchive(c)
  <2>1. /\ pc[c] \in {"archive", "open"} /\ Package(c) \in Packages
        /\ cache[Package(c)].open = {}
    BY <1>1, <1>2, <1>11 DEF OpenArchive, Working, Ended
  <2>2. CASE cache[Package(c)].data = "none"
    BY <1>1, <1>3, <1>11, <2>1, <2>2 DEF OpenArchive, Goto, TypeOK
  <2>3. CASE cache[Package(c)].data # "none"
    <3>1. cache[Package(c)].data = "good" /\ Users(c, "copy") = {}
      BY <1>1, <2>1, <2>3 DEF Users
    <3>2. /\ pc'[c] = "extract" /\ archive'[c] = "good"
          /\ CacheBecomes(c, [data |-> "good", open |-> {c}])
          /\ UNCHANGED <<root, queue>>
      BY <1>11, <2>1, <2>3, <3>1 DEF OpenArchive, Goto, TypeOK
    <3> QED
      BY <1>1, <1>3, <2>1, <3>2 DEF CacheBecomes, TypeOK
  <2> QED
    BY <2>2, <2>3
<1>12. CASE Extract(c) \/ Kill(c)
  <2>1. /\ CloseArchive(c)
        /\ pc'[c] \in {"check", "failed", "killed"}
    BY <1>12 DEF Extract, Kill, Goto, TypeOK
  <2>2. \A p \in Packages : root'[p] # "unverified"
    <3>1. CASE root' = root
      BY <1>1, <3>1
    <3>2. CASE root' # root
      <4>1. pc[c] = "extract" /\ archive[c] = "good" /\ Package(c) \in Packages
        BY <1>1, <1>2, <3>2, RootStep DEF Working, Ended
      <4>2. RootBecomes(Package(c), "good") \/ RootBecomes(Package(c), "torn")
            \/ RootBecomes(Package(c), root[Package(c)])
        BY <1>1, <3>2, <4>1, RootStep DEF Whole, Torn
      <4> QED
        BY <1>1, <4>1, <4>2 DEF RootBecomes, TypeOK
    <3> QED
      BY <3>1, <3>2
  <2>3. \A p \in Packages : cache'[p].open = {}
    BY <1>1, <2>1, Closed
  <2> QED
    BY <2>1, <2>2, <2>3
<1>13. CASE TakeLink(c) \/ PutLink(c)
  <2>1. /\ pc[c] = "extract" /\ UNCHANGED <<pc, queue, archive, cache>>
        /\ archive[c] = "good" /\ Package(c) \in Packages
    BY <1>1, <1>2, <1>13 DEF TakeLink, PutLink, Working, Ended
  <2>2. \A p \in Packages : root'[p] # "unverified"
    BY <1>1, <1>13, <2>1 DEF TakeLink, PutLink, RootBecomes, Torn, TypeOK
  <2> QED
    BY <1>1, <1>3, <2>1, <2>2
<1> QED
  BY <1>4, <1>5, <1>6, <1>7, <1>8, <1>9, <1>10, <1>11, <1>12, <1>13 DEF Step, Run

\* What a process that is alone has installed it touches no more, unless its
\* plan names the package again.
LEMMA DoneStep ==
    ASSUME TypeOK, QueueInv, AloneInv, DoneInv, NEW c \in Clients, Step(c), AloneIs(c)
    PROVE  /\ pc'[c] = "extract" => Links[Package(c)'] \subseteq
                 left'[c] \cup hand'[c] \cup links'[Package(c)']
           /\ pc'[c] \notin {"idle", "failed", "killed"} =>
                 /\ Plan[command'[c]] \in Seq(Packages)
                 /\ \A p \in Range(Plan[command'[c]]) : p \in Range(queue'[c]) \/
                       (root'[p] = "good" /\ Links[p] \subseteq links'[p])
           /\ pc'[c] = "ok" => queue'[c] = <<>>
<1>1. /\ pc[c] = "extract" =>
            Links[Package(c)] \subseteq left[c] \cup hand[c] \cup links[Package(c)]
      /\ pc[c] \notin {"idle", "failed", "killed"} =>
            /\ Plan[command[c]] \in Seq(Packages)
            /\ \A p \in Range(Plan[command[c]]) : p \in Range(queue[c]) \/
                  (root[p] = "good" /\ Links[p] \subseteq links[p])
      /\ pc[c] = "ok" => queue[c] = <<>>
  BY DEF DoneInv
<1>2. Working(c) => /\ Package(c) \in Packages /\ Package(c) \in Range(queue[c])
                    /\ queue[c] # <<>> /\ queue[c] \in Seq(Packages)
  BY WorkingPackage DEF QueueInv, Range, TypeOK
<1>3. queue' = queue => Package(c)' = Package(c)
  BY DEF Package
<1>4. CASE Start(c)
  <2>1. PICK m \in Commands :
           /\ command' = [command EXCEPT ![c] = m]
           /\ \/ Goto(c, "failed")
              \/ /\ Plan[m] # Failed /\ Goto(c, "check")
                 /\ queue' = [queue EXCEPT ![c] = Plan[m]]
    BY <1>4 DEF Start
  <2> QED
    BY <2>1, InstallAssumption DEF Goto, TypeOK
<1>5. CASE CheckCache(c) \/ Unlink(c) \/ SkipBanned(c) \/ OpenTarget(c) \/ Download(c)
           \/ Verify(c) \/ Reject(c) \/ Finish(c)
  BY <1>1, <1>3, <1>5 DEF CheckCache, Unlink, SkipBanned, OpenTarget, Download, Verify,
     Reject, Finish, Goto, TypeOK
<1>6. CASE OpenArchive(c)
  <2>1. /\ UNCHANGED <<queue, command, hand, root, links>>
        /\ pc'[c] \in {"failed", "extract"} /\ pc[c] \in {"archive", "open"}
        /\ pc'[c] = "extract" => left'[c] = Links[Package(c)]
    BY <1>6 DEF OpenArchive, Goto, TypeOK
  <2> QED
    BY <1>1, <1>3, <2>1
<1>7. CASE TakeLink(c)
  <2>1. PICK l \in left[c] :
           /\ hand' = [hand EXCEPT ![c] = {l}]
           /\ left' = [left EXCEPT ![c] = @ \ {l}]
           /\ links' = [links EXCEPT ![Package(c)] = @ \ {l}]
    BY <1>7 DEF TakeLink
  <2>2. /\ UNCHANGED <<pc, queue, command, root>> /\ pc[c] = "extract" /\ hand[c] = {}
        /\ Package(c) \in Packages /\ Package(c) \in Range(queue[c])
    BY <1>2, <1>7 DEF TakeLink, Working, Ended
  <2>3. Links[Package(c)] \subseteq left'[c] \cup hand'[c] \cup links'[Package(c)]
    BY <1>1, <2>1, <2>2 DEF TypeOK
  <2> QED
    BY <1>1, <1>3, <2>1, <2>2, <2>3 DEF TypeOK
<1>8. CASE PutLink(c)
  <2>1. /\ UNCHANGED <<pc, queue, command, left>> /\ pc[c] = "extract"
        /\ hand' = [hand EXCEPT ![c] = {}]
        /\ links' = [links EXCEPT ![Package(c)] = @ \cup hand[c]]
        /\ \A p \in Packages : p # Package(c) => root'[p] = root[p]
        /\ Package(c) \in Packages /\ Package(c) \in Range(queue[c])
    BY <1>2, <1>8 DEF PutLink, Working, Ended, RootBecomes, TypeOK
  <2>2. Links[Package(c)] \subseteq left'[c] \cup hand'[c] \cup links'[Package(c)]
    BY <1>1, <2>1 DEF TypeOK
  <2>3. \A p \in Range(Plan[command[c]]) : p \in Packages
    BY <1>1, <2>1 DEF Range
  <2> QED
    BY <1>1, <1>3, <2>1, <2>2, <2>3 DEF TypeOK
<1>9. CASE Extract(c) \/ Kill(c)
  <2>1. pc'[c] # "ok" /\ pc'[c] # "extract" /\ links' = links /\ command' = command
    BY <1>9 DEF Extract, Kill, Goto, CloseArchive, TypeOK
  <2>2. CASE pc'[c] \in {"failed", "killed"}
    BY <2>1, <2>2
  <2>3. CASE pc'[c] \notin {"failed", "killed"}
    <3>1. pc[c] = "extract" /\ Extracted(c) /\ queue'[c] = Tail(queue[c])
      BY <1>9, <2>3 DEF Extract, Kill, Goto, TypeOK
    <3>2. Package(c) \in Packages /\ queue[c] # <<>>
      BY <1>2, <3>1 DEF Working, Ended
    <3>3. root'[Package(c)] = "good" /\ Links[Package(c)] \subseteq links'[Package(c)]
          /\ \A p \in Packages : p # Package(c) => root'[p] = root[p]
      BY <1>1, <2>1, <3>1, <3>2 DEF AloneInv, Extracted, RootBecomes, Whole, TypeOK
    <3>4. ASSUME NEW p \in Range(queue[c]), p # Package(c)
          PROVE  p \in Range(queue'[c])
      <4>1. PICK i \in 1..Len(queue[c]) : queue[c][i] = p
        BY <3>4, <3>2, LenProperties DEF Range, TypeOK
      <4>2. i # 1 /\ Len(queue[c]) \in Nat
        BY <3>2, <3>4, <4>1, WorkingPackage
      <4>3. i - 1 \in 1..Len(queue'[c]) /\ queue'[c][i - 1] = p
        BY <3>1, <3>2, <4>1, <4>2, WorkingPackage
      <4> QED
        BY <3>1, <3>2, <4>3, WorkingPackage, LenProperties DEF Range
    <3>5. \A p \in Range(Plan[command[c]]) : p \in Packages
      BY <1>1, <3>1 DEF Range
    <3> QED
      BY <1>1, <2>1, <3>1, <3>3, <3>4, <3>5
  <2> QED
    BY <2>2, <2>3
<1> QED
  BY <1>4, <1>5, <1>6, <1>7, <1>8, <1>9 DEF Step, Run

-----------------------------------------------------------------------------
(* The theorems.                                                           *)

LEMMA NextPreserves == IInv /\ [Next]_vars => IInv'
<1> SUFFICES ASSUME IInv, [Next]_vars PROVE IInv'
  OBVIOUS
<1>1. CASE UNCHANGED vars
  <2>1. /\ UNCHANGED <<pc, queue, command, repo, banned, archive, cache, left, hand, root,
                        links, dropped, forced>>
        /\ TypeOK /\ QueueInv /\ AskedInv /\ OrderInv /\ LinkInv /\ DependenciesComeFirst
        /\ AloneInv /\ DoneInv
    BY <1>1 DEF vars, IInv
  <2>2. TypeOK'
    BY <2>1 DEF TypeOK
  <2>3. QueueInv' /\ AskedInv'
    BY <2>1 DEF QueueInv, AskedInv, Working
  <2>4. OrderInv'
    BY <2>1 DEF OrderInv, Installed
  <2>5. DependenciesComeFirst'
    BY <2>1 DEF DependenciesComeFirst, InHand, Package
  <2>6. AloneInv'
    BY <2>1 DEF AloneInv, AloneIs, Package
  <2>7. LinkInv'
    BY <2>1 DEF LinkInv, Covered, InHand, Package
  <2>8. DoneInv'
    BY <2>1 DEF DoneInv, AloneIs, Package
  <2> QED
    BY <2>2, <2>3, <2>4, <2>5, <2>6, <2>7, <2>8 DEF IInv
<1>2. CASE Next
  <2>1. PICK c \in Clients : Step(c)
    BY <1>2 DEF Next, Step
  <2>2. TypeOK' /\ QueueInv' /\ AskedInv'
    BY <2>1, TypeStep, QueueInvStep DEF IInv, Step
  <2>3. OrderInv' /\ LinkInv' /\ DependenciesComeFirst'
    BY <2>1, OrderStep, LinkStep, DependenciesStep DEF IInv
  <2>4. AloneInv' /\ DoneInv'
    <3>1. ASSUME NEW e \in Clients, AloneIs(e)'
          PROVE  e = c /\ AloneIs(c)
      BY <2>1, <3>1, AloneStep DEF IInv
    <3> QED
      BY <2>1, <3>1, AloneInvStep, DoneStep DEF IInv, AloneInv, DoneInv
  <2> QED
    BY <2>2, <2>3, <2>4 DEF IInv
<1> QED
  BY <1>1, <1>2

\* The invariant of the composition of any number of pup processes.
THEOREM Inductive == Spec => []IInv
BY InitEstablishes, NextPreserves, PTL DEF Spec

\* install.py:182-232: whatever earlier runs left in the cache and repositories
\* serve, a process that is the only one to have run puts files of the listed
\* archives into the root and no others.
THEOREM VerifiedFirst == Spec => []OnlyVerifiedIsExtracted
<1>1. IInv => OnlyVerifiedIsExtracted
  BY DEF IInv, AloneInv, AloneIs, OnlyVerifiedIsExtracted, Alone
<1> QED
  BY <1>1, Inductive, PTL

\* install.py:58-102 and 182-232: the plan's order is the order in which files
\* reach the root, through kills, failures and other processes.
THEOREM DependenciesFirst == Spec => []DependenciesComeFirst
<1>1. IInv => DependenciesComeFirst
  BY DEF IInv
<1> QED
  BY <1>1, Inductive, PTL

\* install.py:41-55 and tarfile.makelink: no process takes a regular file of an
\* installed package, and it takes a link only to make it again.
THEOREM InstalledStay == Spec => InstalledSurvives
<1> DEFINE Survives ==
      \A p \in Packages : root[p] = "good" =>
          /\ root'[p] \in {"good", "unverified"}
          /\ Alone' => root'[p] = "good"
          /\ links[p] \subseteq links'[p] \cup InHand(p)'
<1>1. IInv /\ IInv' /\ [Next]_vars => [Survives]_vars
  <2> SUFFICES ASSUME IInv, IInv', Next, NEW p \in Packages, root[p] = "good"
               PROVE  /\ root'[p] \in {"good", "unverified"}
                      /\ Alone' => root'[p] = "good"
                      /\ links[p] \subseteq links'[p] \cup InHand(p)'
    OBVIOUS
  <2>1. root'[p] \in {"good", "unverified"} /\ links[p] \subseteq links'[p] \cup InHand(p)'
    BY InstalledStays, LinksLeave DEF Next, Step, IInv, Installed
  <2>2. Alone' => root'[p] # "unverified"
    BY DEF IInv, AloneInv, AloneIs, Alone
  <2> QED
    BY <2>1, <2>2
<1> QED
  BY <1>1, Inductive, PTL DEF Spec, InstalledSurvives

\* install.py:180-234: when a process that is the only one to have run reports
\* success, every file and link of its plan is in place, whatever its earlier
\* commands were killed at.
THEOREM OkInstalls == Spec => []OkIsInstalled
<1>1. IInv => OkIsInstalled
  <2> SUFFICES ASSUME IInv, Alone, NEW c \in Clients, pc[c] = "ok",
                      NEW p \in Range(Plan[command[c]])
               PROVE  root[p] = "good" /\ Links[p] \subseteq links[p]
    BY DEF OkIsInstalled
  <2>1. AloneIs(c)
    BY DEF Alone, AloneIs
  <2>2. queue[c] = <<>> /\ (p \in Range(queue[c]) \/
                               (root[p] = "good" /\ Links[p] \subseteq links[p]))
    BY <2>1 DEF IInv, DoneInv
  <2>3. p \notin Range(queue[c])
    BY <2>2 DEF Range
  <2> QED
    BY <2>2, <2>3
<1> QED
  BY <1>1, Inductive, PTL
=============================================================================
