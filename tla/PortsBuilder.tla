----------------------------- MODULE PortsBuilder -----------------------------
(***************************************************************************)
(* The local ports builder: buildPackages.py with support/build.py and     *)
(* support/deps.py, the artifact audit it runs, and the two wrappers that  *)
(* chain its processes, buildPackages.sh --upload and                      *)
(* scripts/publish-packages.py.                                            *)
(*                                                                         *)
(* One builder process runs at a time over an output tree that outlives    *)
(* it.  Each change of a file or directory another process reads later is  *)
(* one step, a recursive deletion has a state in which part of the tree is *)
(* gone, and the process may be killed between any two steps.              *)
(***************************************************************************)
EXTENDS Naturals, Sequences, FiniteSets, SequencesExt

CONSTANTS
    Ports,        \* the active packages
    Requires,     \* port -> the set of its build requirements
    InstallDeps,  \* port -> the set of its runtime dependencies
    BuildOrder,   \* set of ports -> its sequence as sort_dependencies orders it
    UploadOrder,  \* set of ports -> its sequence by order_uploads
    Selections,   \* the sets of ports a command line selects
    Plans,        \* the chains of processes a wrapper runs
    MaxBuilds     \* bound on the number of builds that are begun

None == 0

\* A tree under OUTPUT_BASE: the build that wrote it, and whether all of it
\* is there.
Tree == [build : 1..MaxBuilds, whole : BOOLEAN]
NoTree == [build |-> None, whole |-> FALSE]

\* collect_dependencies: everything a port's requirements lead to.
Needs(p) ==
    {d \in Ports : \A T \in SUBSET Ports :
        Requires[p] \subseteq T /\ (\A q \in T : Requires[q] \subseteq T) => d \in T}

ASSUME BuilderAssumption ==
    /\ Requires \in [Ports -> SUBSET Ports]
    /\ Selections \subseteq SUBSET Ports /\ {} \notin Selections
    /\ DOMAIN BuildOrder = Selections
    /\ \A S \in Selections : BuildOrder[S] \in Seq(S) /\ Range(BuildOrder[S]) = S
    /\ \A S \in Selections : \A i, j \in 1..Len(BuildOrder[S]) :
          /\ BuildOrder[S][i] = BuildOrder[S][j] => i = j
          /\ BuildOrder[S][j] \in Needs(BuildOrder[S][i]) => j < i
    /\ DOMAIN UploadOrder = Selections
    /\ \A S \in Selections : UploadOrder[S] \in Seq(S) /\ Range(UploadOrder[S]) = S
    /\ InstallDeps \in [Ports -> SUBSET Ports]
    /\ \A S \in Selections : \A i, j \in 1..Len(UploadOrder[S]) :
          UploadOrder[S][j] \in InstallDeps[UploadOrder[S][i]] => j < i
    /\ Plans \subseteq Seq({"build", "audit", "upload"}) \ {<<>>}
    /\ \A P \in Plans : \A i \in 2..Len(P) :
          P[i] = "upload" => P[i - 1] \in {"build", "audit"}
    /\ MaxBuilds \in Nat \ {0}

VARIABLES
    root,         \* port -> OUTPUT_BASE/<name>/<version>/root
    incomplete,   \* port -> .../root.incomplete
    marker,       \* the ports with a .complete file
    archive,      \* port -> the build whose payload its PUP holds, or None
    sysroot,      \* build -> the trees copied into its sysroot, by port
    builds,       \* how many builds were begun
    published,    \* port -> the build whose PUP the repository serves, or None
    plan,         \* the processes the wrapper runs one after the other
    at,           \* which of them is the current one
    wave,         \* the selected ports
    queue,        \* the ports the current process has still to handle
    pc,           \* what the current process does next
    made,         \* the ports it has built or uploaded
    failed,       \* the ports whose build raised
    blocked       \* the ports not built since a requirement was not

artifactVars == <<root, incomplete, marker, archive, sysroot, builds>>
processVars == <<plan, at, wave, queue, pc, made, failed, blocked>>
vars == <<root, incomplete, marker, archive, sysroot, builds, published,
          plan, at, wave, queue, pc, made, failed, blocked>>

Outcomes == {"off", "ok", "failed", "refused", "killed"}

Init ==
    /\ root = [p \in Ports |-> NoTree]
    /\ incomplete = [p \in Ports |-> NoTree]
    /\ marker = {}
    /\ archive = [p \in Ports |-> None]
    /\ sysroot = [b \in 1..MaxBuilds |-> [p \in Ports |-> NoTree]]
    /\ builds = 0
    /\ published = [p \in Ports |-> None]
    /\ plan \in Plans /\ at = 1 /\ wave = {} /\ queue = <<>> /\ pc = "off"
    /\ made = {} /\ failed = {} /\ blocked = {}

-----------------------------------------------------------------------------
(* Processes.                                                              *)

Process == plan[at]

\* Somebody runs a wrapper on a selection.
Invoke ==
    /\ pc \in Outcomes
    /\ plan' \in Plans /\ at' = 1
    /\ wave' \in Selections
    /\ pc' = "start"
    /\ queue' = <<>> /\ made' = {} /\ failed' = {} /\ blocked' = {}
    /\ UNCHANGED <<artifactVars, published>>

\* The next process of the chain starts only if the last one exited with 0.
Advance ==
    /\ pc = "ok" /\ at < Len(plan)
    /\ at' = at + 1
    /\ pc' = "start"
    /\ queue' = <<>> /\ made' = {} /\ failed' = {} /\ blocked' = {}
    /\ UNCHANGED <<artifactVars, published, plan, wave>>

Kill ==
    /\ pc \notin Outcomes
    /\ pc' = "killed"
    /\ UNCHANGED <<artifactVars, published, plan, at, wave, queue, made, failed, blocked>>

\* Exit with a status and without another change.
Exit(outcome) ==
    /\ pc' = outcome
    /\ UNCHANGED <<artifactVars, published, plan, at, wave, queue, made, failed, blocked>>

-----------------------------------------------------------------------------
(* build_all.                                                              *)

\* Mutant: the wave is built in the order it is uploaded in.
StartBuildInUploadOrder ==
    /\ pc = "start" /\ Process = "build"
    /\ queue' = UploadOrder[wave]
    /\ pc' = "next"
    /\ UNCHANGED <<artifactVars, published, plan, at, wave, made, failed, blocked>>

StartBuild ==
    /\ pc = "start" /\ Process = "build"
    /\ queue' = BuildOrder[wave]
    /\ pc' = "next"
    /\ UNCHANGED <<artifactVars, published, plan, at, wave, made, failed, blocked>>

Port == Head(queue)
Building == Process = "build" /\ queue # <<>>

\* except Exception in build_all: the port failed, the loop goes on.
GiveUp ==
    /\ failed' = failed \cup {Port}
    /\ queue' = Tail(queue) /\ pc' = "next"
    /\ UNCHANGED <<plan, at, wave, made, blocked>>

Continue(where) ==
    pc' = where /\ UNCHANGED <<plan, at, wave, queue, made, failed, blocked>>

HeldUp(p) == Requires[p] \cap (failed \cup blocked) # {}

Block ==
    /\ pc = "next" /\ Building
    /\ HeldUp(Port)
    /\ blocked' = blocked \cup {Port}
    /\ queue' = Tail(queue)
    /\ UNCHANGED <<artifactVars, published, plan, at, wave, pc, made, failed>>

\* The check of prepare_sysroot: a directory and a marker.
HasCompleted(d) == root[d] # NoTree /\ d \in marker

\* prepare_sysroot, and build_package up to the phases: the download, a fresh
\* work directory and an empty root.incomplete.  Any of it may raise.
Prepare ==
    /\ pc = "next" /\ Building /\ ~HeldUp(Port)
    /\ \/ /\ \A d \in Needs(Port) : HasCompleted(d)
          /\ builds < MaxBuilds
          /\ builds' = builds + 1
          /\ sysroot' = [sysroot EXCEPT ![builds'] =
                            [d \in Ports |-> IF d \in Needs(Port)
                                             THEN root[d] ELSE NoTree]]
          /\ incomplete' = [incomplete EXCEPT ![Port] =
                               [build |-> builds', whole |-> FALSE]]
          /\ Continue("phases")
       \/ UNCHANGED <<builds, sysroot, incomplete>> /\ GiveUp
    /\ UNCHANGED <<root, marker, archive, published>>

\* except BaseException in build_package: rmtree(ignore_errors=True), which
\* may leave something behind.
Discard ==
    /\ incomplete' \in {incomplete, [incomplete EXCEPT ![Port] = NoTree]}
    /\ GiveUp

\* extract, patch, prebuild, configure, build, deploy, postdeploy, check.
RunPhases ==
    /\ pc = "phases"
    /\ \/ /\ incomplete' = [incomplete EXCEPT ![Port] = [build |-> builds, whole |-> TRUE]]
          /\ Continue("archive")
       \/ Discard
    /\ UNCHANGED <<root, marker, archive, sysroot, builds, published>>

\* Mutant: the exit status of `pup create` is not looked at.
RepositoryPrepUnchecked ==
    /\ pc = "archive"
    /\ archive' \in {archive, [archive EXCEPT ![Port] = builds]}
    /\ Continue("clear")
    /\ UNCHANGED <<root, incomplete, marker, sysroot, builds, published>>

\* repository_prep: `pup create` replaces the PUP of the port, then
\* build_package goes on; the command may fail before or after.
RepositoryPrep ==
    /\ pc = "archive"
    /\ \/ archive' = [archive EXCEPT ![Port] = builds]
          /\ incomplete' = incomplete /\ Continue("clear")
       \/ archive' \in {archive, [archive EXCEPT ![Port] = builds]} /\ Discard
    /\ UNCHANGED <<root, marker, sysroot, builds, published>>

\* shutil.rmtree(deploydir, ignore_errors=True): files go one by one, and an
\* error leaves the rest where it is.
ClearRoot ==
    /\ \/ /\ pc = "clear" /\ root[Port] = NoTree
          /\ root' = root /\ Continue("replace")
       \/ /\ pc = "clear" /\ root[Port] # NoTree
          /\ root' = [root EXCEPT ![Port] = [build |-> @.build, whole |-> FALSE]]
          /\ Continue("clearing")
       \/ /\ pc = "clearing"
          /\ root' \in {root, [root EXCEPT ![Port] = NoTree]}
          /\ Continue("replace")
    /\ UNCHANGED <<incomplete, marker, archive, sysroot, builds, published>>

\* os.replace(staging_deploydir, deploydir): a directory is not put in the
\* place of one that is not empty.
ReplaceRoot ==
    /\ pc = "replace"
    /\ \/ /\ root[Port] = NoTree
          /\ root' = [root EXCEPT ![Port] = incomplete[Port]]
          /\ incomplete' = [incomplete EXCEPT ![Port] = NoTree]
          /\ Continue("mark")
       \/ UNCHANGED <<root, incomplete>> /\ GiveUp
    /\ UNCHANGED <<marker, archive, sysroot, builds, published>>

\* The marker is written beside and moved into place; build_package returns.
WriteMarker ==
    /\ pc = "mark"
    /\ \/ /\ marker' = marker \cup {Port}
          /\ made' = made \cup {Port}
          /\ queue' = Tail(queue) /\ pc' = "next"
          /\ UNCHANGED <<plan, at, wave, failed, blocked>>
       \/ marker' = marker /\ GiveUp
    /\ UNCHANGED <<root, incomplete, archive, sysroot, builds, published>>

EndBuild ==
    /\ pc = "next" /\ Process = "build" /\ queue = <<>>
    /\ Exit(IF failed = {} /\ blocked = {} THEN "ok" ELSE "failed")

-----------------------------------------------------------------------------
(* audit_packages and upload_all.                                          *)

HasArtifacts(p) == root[p] # NoTree /\ p \in marker /\ archive[p] # None

\* Mutant: the payloads are not compared.
AuditPresence(p) == HasArtifacts(p)

\* audit_package: the marker is there, and the archive has exactly the
\* payload of the root.
AuditPasses(p) ==
    HasArtifacts(p) /\ root[p] = [build |-> archive[p], whole |-> TRUE]

Audit ==
    /\ pc = "start" /\ Process = "audit"
    /\ Exit(IF \A p \in wave : AuditPasses(p) THEN "ok" ELSE "failed")

\* The preflight of upload_all over the whole wave.
StartUpload ==
    /\ pc = "start" /\ Process = "upload"
    /\ \/ /\ \A p \in wave : HasArtifacts(p)
          /\ queue' = UploadOrder[wave] /\ pc' = "next"
          /\ UNCHANGED <<artifactVars, published, plan, at, wave, made, failed, blocked>>
       \/ /\ \E p \in wave : ~HasArtifacts(p)
          /\ Exit("refused")

\* `pup register` for the next port.  The repository refuses other contents
\* for a published version; the command may also fail before or after the
\* repository has taken the package, and the first failure ends the process.
Register ==
    /\ pc = "next" /\ Process = "upload" /\ queue # <<>>
    /\ \/ /\ published[Port] \in {None, archive[Port]}
          /\ published' = [published EXCEPT ![Port] = archive[Port]]
          /\ made' = made \cup {Port} /\ queue' = Tail(queue) /\ pc' = pc
       \/ /\ \/ published' = published
             \/ /\ published[Port] = None
                /\ published' = [published EXCEPT ![Port] = archive[Port]]
          /\ pc' = "failed" /\ UNCHANGED <<made, queue>>
    /\ UNCHANGED <<artifactVars, plan, at, wave, failed, blocked>>

EndUpload ==
    /\ pc = "next" /\ Process = "upload" /\ queue = <<>>
    /\ Exit("ok")

Next ==
    \/ Invoke \/ Advance \/ Kill
    \/ StartBuild \/ Block \/ Prepare \/ RunPhases \/ RepositoryPrep
    \/ ClearRoot \/ ReplaceRoot \/ WriteMarker \/ EndBuild
    \/ Audit \/ StartUpload \/ Register \/ EndUpload

Spec == Init /\ [][Next]_vars

-----------------------------------------------------------------------------
(* Properties.                                                             *)

\* The three artifacts of a port belong together: a whole root, a marker, and
\* the PUP of the same build.
Sound(p) ==
    p \in marker /\ root[p] = [build |-> archive[p], whole |-> TRUE]

\* What build_package has completed stays sound to the end of the process,
\* whatever killed processes and failed builds left in the tree before, and
\* although PUP, root and marker are replaced one after the other.
BuiltIsSound ==
    Process = "build" => \A p \in made : Sound(p)

\* Exit 0 of a build: every selected port was built, from the trees that its
\* dependencies have now, those rebuilt by the same process included.
SuccessIsFresh ==
    Process = "build" /\ pc = "ok" =>
        /\ made = wave
        /\ \A p \in wave : \A d \in Needs(p) :
              sysroot[root[p].build][d] = root[d]

\* The upload that buildPackages.sh --upload or publish-packages.py chains to
\* a build or an audit never finds a port of the wave that is not sound.
ChainedUploadIsSound ==
    Process = "upload" /\ at > 1 => \A p \in wave : Sound(p)

\* prepare_sysroot (support/deps.py:81-85) refuses a dependency that "has not
\* completed a build": what it copies would then be a complete root.
SysrootsAreWhole ==
    \A b \in 1..builds : \A d \in Ports :
        sysroot[b][d] # NoTree => sysroot[b][d].whole
=============================================================================
