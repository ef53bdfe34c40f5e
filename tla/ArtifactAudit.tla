---------------------------- MODULE ArtifactAudit ----------------------------
(***************************************************************************)
(* From a staged package root to an audited PUP: the check of the builder  *)
(* (support/buildsystem.py), pup create, whatever happens to the output    *)
(* tree afterwards, and the audit of support/audit.py, whose exit status   *)
(* scripts/publish-packages.py takes as leave to publish.                  *)
(*                                                                         *)
(* The audit compares what it reads from the archive with the root.  What  *)
(* an installation makes of the archive is Installed below: the members in *)
(* their order, through the symbolic links that are there by then, with    *)
(* hard links sharing an inode, as the filter of pup's Python leaves them. *)
(***************************************************************************)
EXTENDS ArtifactFormats, FiniteSets, SequencesExt

CONSTANTS
    Packages,      \* the selection, in the order of the audit
    Stagings,      \* what recipes may stage: package -> [tree, twins]
    RuntimeDeps,   \* RuntimeDeps[p]: install_deps()
    Strangers,     \* members that other programs might put into an archive
    Disturbed,     \* the staged roots whose output somebody changes later
    MaxEdits,      \* bound on changes to the output tree after the build
    Accidents,     \* which ones: subset of {"members", "torn", "marker"}
    MaxDetour      \* bound on the parts that links add to a path

FhsTop == {"bin", "boot", "dev", "etc", "home", "lib", "lib64", "media",
           "mnt", "opt", "proc", "root", "run", "sbin", "srv", "sys", "tmp",
           "usr", "var"}
LegacyTop == {"applications", "config", "doc", "docs", "include",
              "libraries", "support", "system"}
LegacyUsr == {"doc", "info", "man"}

Files(tree) == {path \in DOMAIN tree : tree[path].kind = "file"}
Links(tree) == {path \in DOMAIN tree : tree[path].kind = "symlink"}

\* The modes: 0644 "r", 0755 "x", with set-id bits "setid", 0444 "readonly", and
\* "others": executable, but not by the owner.
Executable(entry) == entry.mode \in {"x", "setid", "others"}

\* What a part of a path of a directory tree never is.
NotAPart == {"", ".", "..", "/"}

\* No option, assignment or -- has the name of an interpreter.
IsWord(word) ==
    /\ word.name \in STRING
    /\ word.kind # "path" => word.name \notin BaseInterpreters \cup DOMAIN ProviderOf
IsContents(data) ==
    /\ data # None
    /\ data.words \in Seq(Range(data.words))
    /\ \A word \in Range(data.words) : IsWord(word)
    /\ data.elf.interps \in Seq(STRING)
    /\ \A k \in DOMAIN data.elf.paths : data.elf.paths[k].parts \in Seq(STRING)

IsEntry(e) ==
    /\ e = [kind |-> e.kind, mode |-> e.mode, data |-> e.data, target |-> e.target]
    /\ e.kind \in {"directory", "file", "symlink", "special"}
    /\ IF e.kind = "file" THEN IsContents(e.data) ELSE e.data = None
    /\ IF e.kind = "symlink" THEN e.target.parts \in Seq(STRING) ELSE e.target = None

\* A directory tree: what is not at its top is in a directory of it.
IsTree(tree) ==
    /\ IsFiniteSet(DOMAIN tree)
    /\ tree = [path \in DOMAIN tree |-> tree[path]]
    /\ \A path \in DOMAIN tree :
         /\ path \in Seq(STRING) \ {<<>>}
         /\ \A k \in DOMAIN path : path[k] \notin NotAPart
         /\ IsEntry(tree[path])
         /\ Len(path) > 1 =>
              DirOf(path) \in DOMAIN tree /\ tree[DirOf(path)].kind = "directory"

\* The names of one inode are files with the same data and mode.
AreTwins(tree, ts) ==
    /\ \A t \in ts : \A a, b \in t :
         /\ a \in Files(tree) /\ tree[a].data = tree[b].data
         /\ tree[a].mode = tree[b].mode
    /\ \A s, t \in ts : s \cap t # {} => s = t

\* A member of a tar archive: only files have data, only links a target.
IsMember(m) ==
    /\ m = [name |-> m.name, type |-> m.type, link |-> m.link, mode |-> m.mode,
            data |-> m.data, target |-> m.target, owner |-> m.owner]
    /\ m.type # "file" => m.data = None
    /\ m.type # "symlink" => m.target = None

ASSUME AuditAssumption ==
    /\ Packages # <<>> /\ Packages \in Seq(Range(Packages))
    /\ None \notin {"passed", "success", "special", "marker", "archive", "compare",
                   "scripts"}
    /\ \A staged \in Stagings : \A p \in Range(Packages) :
         IsTree(staged[p].tree) /\ AreTwins(staged[p].tree, staged[p].twins)
    /\ \A m \in Strangers : IsMember(m)
    /\ MaxDetour \in Nat

VARIABLES
    root,       \* root[p]: the staged tree, path -> entry
    twins,      \* twins[p]: sets of paths that are one inode
    stage,      \* staged, checked, refused, packed
    archive,    \* archive[p]: the members of the PUP, in their order
    torn,       \* torn[p]: does the archive end early?
    marker,     \* marker[p]: exact, other, undecodable
    edits,      \* changes made since the build
    at, phase,  \* the package being audited and what is examined next
    payload,    \* what the audit has read from the archive
    reason,     \* reason[p]: the phase that failed p, "passed", or None
    status      \* None, success, failure or traceback

outputVars == <<root, twins, archive, torn, marker>>
auditVars == <<at, phase, payload, reason, status>>
vars == <<outputVars, stage, edits, auditVars>>

Selected == Range(Packages)

Init ==
    \E staged \in Stagings :
        /\ root = [p \in Selected |-> staged[p].tree]
        /\ twins = [p \in Selected |-> staged[p].twins]
        /\ stage = [p \in Selected |-> "staged"]
        /\ archive = [p \in Selected |-> <<>>]
        /\ torn = [p \in Selected |-> FALSE]
        /\ marker = [p \in Selected |-> "exact"]
        /\ edits = 0
        /\ at = 0 /\ phase = "idle" /\ payload = <<>>
        /\ reason = [p \in Selected |-> None] /\ status = None

(***************************************************************************)
(* The build.                                                              *)
(***************************************************************************)

ScriptsOk(p) ==
    \A path \in Files(root[p]) :
        ScriptOk(path, root[p][path].data, Executable(root[p][path]),
                 p, RuntimeDeps[p])

\* Package.check.  os.walk counts a link to a directory among the directories, so
\* that a target in a directory of the build ("builddir") is not looked at.
CheckPasses(p) ==
    /\ \A path \in DOMAIN root[p] :
         /\ path[1] \notin LegacyTop
         /\ ~ (Len(path) > 1 /\ path[1] = "usr" /\ path[2] \in LegacyUsr)
    /\ ScriptsOk(p)
    /\ \A path \in Links(root[p]) : root[p][path].target.base # "build"
    /\ \A path \in Files(root[p]) : NoLeak(root[p][path].data)

\* The caller fails the build; so does pup create with an empty root.
BuildCheck(p) ==
    /\ stage[p] = "staged"
    /\ stage' = [stage EXCEPT ![p] = IF CheckPasses(p) /\ root[p] # <<>>
                                             THEN "checked" ELSE "refused"]
    /\ UNCHANGED <<outputVars, edits, auditVars>>

\* Mutant: pup create keeps the builder's user as the owner of files.
MemberNotOwned(p, order, k) ==
    LET path == order[k]
        entry == root[p][path]
        earlier == {j \in 1 .. k - 1 : \E t \in twins[p] : {order[j], path} \subseteq t}
        first == CHOOSE j \in earlier : \A i \in earlier : j <= i
    IN  [name |-> path,
         type |-> IF earlier # {} THEN "link" ELSE entry.kind,
         link |-> IF earlier # {} THEN order[first] ELSE <<>>,
         mode |-> entry.mode,
         data |-> IF earlier # {} THEN None ELSE entry.data,
         target |-> entry.target,
         owner |-> IF entry.kind = "file" THEN "builder" ELSE "root"]

\* tar.add with filter=_root_owned: a later name of an inode that is in the
\* archive becomes a hard link to the first one.
Member(p, order, k) ==
    LET path == order[k]
        entry == root[p][path]
        earlier == {j \in 1 .. k - 1 : \E t \in twins[p] : {order[j], path} \subseteq t}
        first == CHOOSE j \in earlier : \A i \in earlier : j <= i
    IN  [name |-> path,
         type |-> IF earlier # {} THEN "link" ELSE entry.kind,
         link |-> IF earlier # {} THEN order[first] ELSE <<>>,
         mode |-> entry.mode,
         data |-> IF earlier # {} THEN None ELSE entry.data,
         target |-> entry.target,
         owner |-> "root"]

\* The orders in which tar.add meets the paths: a directory before what is in
\* it, the entries of the root in the order of os.listdir.
WalkOrders(tree) ==
    {order \in SetToSeqs(DOMAIN tree) :
        \A i, j \in DOMAIN order : IsStrictPrefix(order[i], order[j]) => i < j}

\* CreatePackageCommand.run, called by Package.repository_prep; then the
\* marker is written.
Create(p) ==
    /\ stage[p] = "checked"
    /\ stage' = [stage EXCEPT ![p] = "packed"]
    /\ \E order \in WalkOrders(root[p]) :
         archive' = [archive EXCEPT ![p] =
                       [k \in DOMAIN order |-> Member(p, order, k)]]
    /\ UNCHANGED <<root, twins, torn, marker, edits, auditVars>>

\* Between the build and the audit files of the output tree are copied,
\* replaced by other programs or cut off.
Accident(p) ==
    /\ stage[p] = "packed" /\ phase = "idle" /\ edits < MaxEdits
    /\ [tree |-> root[p], twins |-> twins[p]] \in Disturbed
    /\ edits' = edits + 1
    /\ \/ /\ "members" \in Accidents
          /\ \E k \in 1 .. Len(archive[p]) + 1, m \in Strangers :
               archive' = [archive EXCEPT ![p] = InsertAt(@, k, m)]
          /\ UNCHANGED <<torn, marker>>
       \/ /\ "members" \in Accidents
          /\ \E k \in 1 .. Len(archive[p]) :
               archive' = [archive EXCEPT ![p] = RemoveAt(@, k)]
          /\ UNCHANGED <<torn, marker>>
       \/ /\ "torn" \in Accidents
          /\ torn' = [torn EXCEPT ![p] = TRUE]
          /\ UNCHANGED <<archive, marker>>
       \/ /\ "marker" \in Accidents
          /\ \E content \in {"other", "undecodable"} :
               marker' = [marker EXCEPT ![p] = content]
          /\ UNCHANGED <<archive, torn>>
    /\ UNCHANGED <<root, twins, stage, auditVars>>

(***************************************************************************)
(* audit_packages and audit_package, one action per part.                  *)
(***************************************************************************)

Phases == <<"presence", "marker", "root", "fhs", "links", "archive",
            "compare", "scripts", "formats">>

NextPhase(ph) == Phases[(CHOOSE k \in DOMAIN Phases : Phases[k] = ph) + 1]

Begin ==
    /\ phase = "idle"
    /\ \A p \in Selected : stage[p] \in {"packed", "refused"}
    /\ at' = 1 /\ phase' = "presence"
    /\ UNCHANGED <<outputVars, stage, edits, payload, reason, status>>

\* audit_package has returned, or has raised an AuditError or an OSError.
Verdict(p, verdict) ==
    /\ reason' = [reason EXCEPT ![p] = verdict]
    /\ payload' = <<>>
    /\ IF at < Len(Packages)
       THEN at' = at + 1 /\ phase' = "presence" /\ UNCHANGED status
       ELSE /\ UNCHANGED at
            /\ phase' = "done"
            /\ status' = IF \A q \in Selected : reason'[q] = "passed" THEN "success" ELSE "failure"

Examine(ph, ok) ==
    /\ phase = ph
    /\ IF ok
       THEN IF ph = Last(Phases) THEN Verdict(Packages[at], "passed")
            ELSE /\ phase' = NextPhase(ph)
                 /\ UNCHANGED <<at, payload, reason, status>>
       ELSE Verdict(Packages[at], ph)
    /\ UNCHANGED <<outputVars, stage, edits>>

\* An exception that audit_packages does not catch.
Escape ==
    /\ phase' = "done" /\ status' = "traceback"
    /\ UNCHANGED <<outputVars, stage, edits, at, payload, reason>>

CheckPresence == Examine("presence", stage[Packages[at]] = "packed")

CheckMarker ==
    /\ phase = "marker"
    /\ IF marker[Packages[at]] = "undecodable" THEN Escape
       ELSE Examine("marker", marker[Packages[at]] = "exact")

\* _filesystem_payload.
ReadRoot ==
    LET tree == root[Packages[at]]
    IN  Examine("root", /\ tree # <<>>
                        /\ \A path \in DOMAIN tree : tree[path].kind # "special")

\* _check_fhs.
FhsOk(tree) ==
    \A path \in DOMAIN tree :
        /\ path[1] \in FhsTop
        /\ ~ (Len(path) > 1 /\ path[1] = "usr" /\ path[2] \in LegacyUsr)
        /\ Len(path) = 1 => tree[path].kind \in {"directory", "symlink"}

CheckFhs == Examine("fhs", FhsOk(root[Packages[at]]))

\* Mutant: a relative target is taken from the root of the package.
LinkOkFromTop(path, target) ==
    CASE target.base = "abs" ->
            /\ target.parts # <<>> /\ ".." \notin ToSet(target.parts)
            /\ target.parts[1] \in FhsTop
      [] target.base = "rel" ->
            /\ target.parts # <<>>
            /\ target.parts[1] \in FhsTop \cup {".."}
      [] OTHER -> FALSE

\* The body of the loop of _check_symlinks.
LinkOk(path, target) ==
    LET resolved == Resolved(DirOf(path), target.parts)
    IN  CASE target.base = "abs" ->
                /\ target.parts # <<>> /\ ".." \notin ToSet(target.parts)
                /\ target.parts[1] \in FhsTop
          [] target.base = "rel" ->
                /\ resolved.ok /\ resolved.dir # <<>>
                /\ resolved.dir[1] \in FhsTop
          [] OTHER -> FALSE

CheckSymlinks ==
    LET tree == root[Packages[at]]
    IN  Examine("links", \A path \in Links(tree) : LinkOk(path, tree[path].target))

\* _safe_archive_name, without the slash that ends a directory's name.
SafeName(name) ==
    /\ name # <<>> /\ name[1] # "/" /\ ".." \notin ToSet(name)
    /\ "." \in ToSet(name) => name = <<".">>

\* posixpath.normpath of a relative path.
NormalPart(path, part) ==
    CASE part = "." -> path
      [] part = ".." /\ path # <<>> /\ Last(path) # ".." -> DirOf(path)
      [] OTHER -> Append(path, part)
Normalised(parts) ==
    LET path[i \in 0 .. Len(parts)] ==
          IF i = 0 THEN <<>> ELSE NormalPart(path[i - 1], parts[i])
    IN  path[Len(parts)]

\* _find_link_target: a hard link means an earlier member of its target's name, a
\* symbolic link any of the name it leads to, an absolute one from its directory.
Behind(members, j) ==
    LET m == members[j]
    IN  {i \in DOMAIN members :
           \/ m.type = "link" /\ i < j /\ members[i].name = m.link
           \/ /\ m.type = "symlink" /\ (m.target.base = "rel" \/ DirOf(m.name) # <<>>)
              /\ members[i].name = Normalised(DirOf(m.name) \o m.target.parts)}

LastOf(S) == CHOOSE j \in S : \A i \in S : i <= j

\* TarFile.extractfile follows links from member to member.
Followed(members, j) == IF Behind(members, j) = {} THEN j ELSE LastOf(Behind(members, j))
Source(members, k) ==
    LET j[n \in 0 .. Len(members)] == IF n = 0 THEN k ELSE Followed(members, j[n - 1])
    IN  j[Len(members)]

\* None: no data, or a KeyError.
DataOf(members, k) == members[Source(members, k)].data

\* Mutant: a second member of one name replaces the first.
MemberOkRepeated(members, k) ==
    LET m == members[k]
    IN  /\ SafeName(m.name)
        /\ m.owner = "root"
        /\ m.type \in {"directory", "file", "link", "symlink"}
        /\ m.type = "link" => SafeName(m.link) /\ DataOf(members, k) # None

\* The refusals of _archive_payload.
MemberOk(members, k) ==
    LET m == members[k]
    IN  /\ SafeName(m.name)
        /\ \A j \in 1 .. k - 1 : members[j].name # m.name
        /\ m.owner = "root"
        /\ m.type \in {"directory", "file", "link", "symlink"}
        /\ m.type = "link" => SafeName(m.link) /\ DataOf(members, k) # None
MembersOk(members) == \A k \in DOMAIN members : MemberOk(members, k)

\* The first member that is refused is a hard link that leads back to itself
\* through symbolic links: a RecursionError.
Endless(members) ==
    \E k \in DOMAIN members :
        /\ members[k].type = "link" /\ Behind(members, Source(members, k)) # {}
        /\ ~ MemberOk(members, k)
        /\ \A j \in 1 .. k - 1 : MemberOk(members, j)

\* ... and its result.
PayloadOf(members) ==
    [name \in {m.name : m \in ToSet(members)} |->
        LET k == CHOOSE k \in DOMAIN members :
                     /\ members[k].name = name
                     /\ \A j \in DOMAIN members : members[j].name = name => j <= k
            m == members[k]
        IN  [kind |-> IF m.type = "link" THEN "file" ELSE m.type,
             mode |-> m.mode,
             data |-> IF m.type \in {"file", "link"} THEN DataOf(members, k) ELSE None,
             target |-> IF m.type = "symlink" THEN m.target ELSE None]]

\* _archive_payload.  An archive that is too short to be opened is refused; when
\* it ends later, getmembers or the reading of a member's data raise an EOFError
\* or a TarError.
ReadArchive ==
    LET p == Packages[at]
        refused == Verdict(p, "archive") /\ UNCHANGED <<outputVars, stage, edits>>
    IN  /\ phase = "archive"
        /\ IF torn[p] THEN Escape \/ refused
           ELSE IF Endless(archive[p]) THEN Escape
           ELSE IF MembersOk(archive[p])
           THEN /\ payload' = PayloadOf(archive[p])
                /\ phase' = "compare"
                /\ UNCHANGED <<outputVars, stage, edits, at, reason, status>>
           ELSE refused

\* _compare_payloads.
SamePayload(tree, read) ==
    /\ DOMAIN tree = DOMAIN read
    /\ \A path \in DOMAIN tree :
         /\ tree[path].kind = read[path].kind
         /\ tree[path].mode = read[path].mode
         /\ tree[path].kind = "file" => tree[path].data = read[path].data
         /\ tree[path].kind = "symlink" => tree[path].target = read[path].target

Compare == Examine("compare", SamePayload(root[Packages[at]], payload))

CheckScripts == Examine("scripts", ScriptsOk(Packages[at]))

\* _check_artifact_formats.
CheckFormats ==
    LET tree == root[Packages[at]]
    IN  Examine("formats", \A path \in Files(tree) :
                               FormatOk(path, tree[path].data, Executable(tree[path])))

Next ==
    \/ \E p \in Selected : BuildCheck(p) \/ Create(p) \/ Accident(p)
    \/ Begin
    \/ CheckPresence \/ CheckMarker \/ ReadRoot \/ CheckFhs \/ CheckSymlinks
    \/ ReadArchive \/ Compare \/ CheckScripts \/ CheckFormats

Spec == Init /\ [][Next]_vars

(***************************************************************************)
(* What an installation makes of an archive.                               *)
(***************************************************************************)

Loop == <<"/">>

\* One turn of a walk that has come to the directory dir and has the parts of
\* a path left.
WalkStep(tree, walk) ==
    LET part == Head(walk.parts)
        rest == Tail(walk.parts)
        next == Append(walk.dir, part)
    IN  CASE walk.parts = <<>> -> walk
          [] walk.parts # <<>> /\ part = "." -> [walk EXCEPT !.parts = rest]
          [] walk.parts # <<>> /\ part = ".." ->
               [dir |-> IF walk.dir = <<>> THEN <<>> ELSE DirOf(walk.dir), parts |-> rest]
          [] OTHER ->
               IF next \in Links(tree)
               THEN [dir |-> IF tree[next].target.base = "rel" THEN walk.dir ELSE <<>>,
                     parts |-> tree[next].target.parts \o rest]
               ELSE [dir |-> next, parts |-> rest]

\* Where a path leads when the links on its way are followed, one part at a
\* time; Loop when it does not end.
Walk(tree, dir, parts) ==
    LET turn[i \in 0 .. Len(parts) + MaxDetour] ==
          IF i = 0 THEN [dir |-> dir, parts |-> parts] ELSE WalkStep(tree, turn[i - 1])
        end == turn[Len(parts) + MaxDetour]
    IN  IF end.parts = <<>> THEN end.dir ELSE Loop

Physical(tree, path) == Walk(tree, <<>>, path)
Place(tree, path) == Append(Physical(tree, DirOf(path)), Last(path))

\* One member: inode maps paths to inodes, node inodes to entries.  A file
\* is a new inode that replaces what has its name (InstallTarFile.makefile);
\* a hard link is a name of its target's inode, or a copy of the target when
\* that does not exist, and its mode is then set through whatever it is.
InstallMember(disk, m, k) ==
    LET tree == [path \in DOMAIN disk.inode |-> disk.node[disk.inode[path]]]
        place == Place(tree, m.name)
        fresh == [kind |-> IF m.type = "link" THEN "file" ELSE m.type,
                  mode |-> m.mode, data |-> m.data, target |-> m.target]
        put == [inode |-> [path \in DOMAIN tree \cup {place} |->
                             IF path = place THEN k ELSE disk.inode[path]],
                node |-> [disk.node EXCEPT ![k] = fresh]]
        linked == [path \in DOMAIN tree \cup {place} |->
                     disk.inode[IF path = place THEN Place(tree, m.link) ELSE path]]
        aimed == Walk([path \in DOMAIN linked |-> disk.node[linked[path]]],
                      DirOf(place), <<Last(place)>>)
    IN  IF m.type = "directory" /\ Physical(tree, m.name) \in DOMAIN tree THEN disk
        ELSE IF m.type # "link" THEN put
        ELSE IF Place(tree, m.link) \notin DOMAIN tree THEN put
        ELSE IF aimed \in DOMAIN linked
             THEN [inode |-> linked,
                   node |-> [disk.node EXCEPT ![linked[aimed]].mode = m.mode]]
        ELSE [disk EXCEPT !.inode = linked]

Installed(members) ==
    LET none == [kind |-> None, mode |-> None, data |-> None, target |-> None]
        disk[k \in 0 .. Len(members)] ==
          IF k = 0 THEN [inode |-> <<>>, node |-> [j \in DOMAIN members |-> none]]
          ELSE InstallMember(disk[k - 1], members[k], k)
        final == disk[Len(members)]
    IN  [path \in DOMAIN final.inode |-> final.node[final.inode[path]]]

\* extractall has no filter argument: every member is trusted, or, since Python
\* 3.14, goes through tarfile.data_filter, here for the root directory "/".
Filters == {"trusted", "data"}

\* What the data filter leaves of a mode: no set-id bits, no executable file that
\* its owner may not execute; the owner may read and write.  Directories get the
\* mode of a new one, links have none.
DataMode(kind, mode) ==
    CASE kind = "directory" -> "x"
      [] kind = "symlink" -> mode
      [] OTHER -> IF mode \in {"x", "setid"} THEN "x" ELSE "r"

\* ... and of the target of a link: normalised.
DataTarget(kind, target) ==
    IF kind = "symlink" THEN [target EXCEPT !.parts = Normalised(@)] ELSE target

\* A member of that type, or an entry of that kind, as the filter leaves it.
Filtered(filter, kind, e) ==
    IF filter = "trusted" THEN e
    ELSE [e EXCEPT !.mode = DataMode(kind, @), !.target = DataTarget(kind, @)]
AsFiltered(filter, members) ==
    [k \in DOMAIN members |-> Filtered(filter, members[k].type, members[k])]

\* SpecialFileError and AbsoluteLinkError end the extraction.
IsRefused(filter, members) ==
    /\ filter = "data"
    /\ \E m \in ToSet(members) :
         m.type = "special" \/ (m.type = "symlink" /\ m.target.base # "rel")

(***************************************************************************)
(* Properties.  The exit status of a success vouches for the selection.    *)
(***************************************************************************)

Vouched == status = "success"

\* A hard link as tar.add writes it: to an earlier file of the same inode.
LinkedAsCreated(members) ==
    \A k \in DOMAIN members :
        members[k].type = "link" =>
            \E j \in 1 .. k - 1 :
                /\ members[j].name = members[k].link
                /\ members[j].type = "file" /\ members[j].mode = members[k].mode

\* When the audit succeeds, installing an archive gives exactly the tree that
\* was built, whatever was added to it or taken from it since, if its hard
\* links are such as pup create writes: the entries themselves where every
\* member is trusted, else with the modes and targets that the data filter
\* leaves them.  The filter refuses no archive but of a package with an absolute
\* link (_archive_payload, _compare_payloads).
InstallsWhatWasBuilt ==
    Vouched => \A p \in Selected, filter \in Filters :
        LinkedAsCreated(archive[p]) =>
            IF IsRefused(filter, archive[p])
            THEN filter = "data" /\ \E path \in Links(root[p]) : root[p][path].target.base = "abs"
            ELSE Installed(AsFiltered(filter, archive[p]))
                   = [path \in DOMAIN root[p] |->
                           Filtered(filter, root[p][path].kind, root[p][path])]

\* An archive nobody has touched is never refused for what is in it: pup
\* create writes what the audit reads, whatever the order of the directory
\* and the links of the tree, and the builder's check has let through no
\* script that the audit's refuses.
OwnArchivePasses ==
    \A p \in Selected :
        reason[p] \in {"marker", "archive", "compare", "scripts"} => edits > 0

\* The directory that a target is taken from, and where it leads by its text.
From(path, target) == IF target.base = "rel" THEN DirOf(path) ELSE <<>>
ByText(path, target, k) == Resolved(From(path, target), SubSeq(target.parts, 1, k)).dir

\* Does a target go back by ".." after it went through a link of the package?
ReturnsFromLink(tree, path) ==
    LET target == tree[path].target
    IN  \E k \in DOMAIN target.parts :
          /\ ByText(path, target, k) \in Links(tree)
          /\ \E i \in k + 1 .. Len(target.parts) : target.parts[i] = ".."

LeadsIntoFhs(tree, path) ==
    Physical(tree, path) # Loop =>
        /\ Physical(tree, path) # <<>>
        /\ Physical(tree, path)[1] \in FhsTop

\* When the audit succeeds, every symbolic link of a package leads to a path of
\* the FHS, as the kernel follows it and the links on its way, or nowhere; if no
\* target goes back by ".." after it went through another link
\* (_check_symlinks).
LinkStaysInFhs ==
    Vouched => \A p \in Selected :
        (\A path \in Links(root[p]) : ~ ReturnsFromLink(root[p], path)) =>
            \A path \in Links(root[p]) : LeadsIntoFhs(root[p], path)

\* What env itself runs: the first word that is neither an option, an
\* option's argument nor an assignment.
Expects(before, word) ==
    IF before = "word" /\ word.kind = "argflag" THEN "argument" ELSE "word"
FirstName(args, places) ==
    IF places = {} THEN None
    ELSE args[CHOOSE k \in places : \A i \in places : k <= i].name
EnvRuns(args) ==
    LET expects[i \in 0 .. Len(args)] ==
          IF i = 0 THEN "word" ELSE Expects(expects[i - 1], args[i])
    IN  FirstName(args, {k \in DOMAIN args : /\ args[k].kind = "path"
                                             /\ expects[k - 1] = "word"})

\* When the audit succeeds, what an executable script outside the
\* documentation runs is a shell of the base system or comes with the package
\* or one it depends on (check_script_runtime).
ScriptsFindInterpreters ==
    Vouched => \A p \in Selected : \A path \in Files(root[p]) :
        LET file == root[p][path].data
            runs == IF file.words[1].name = "env" THEN EnvRuns(Tail(file.words))
                    ELSE file.words[1].name
        IN  /\ file.magic = "script" /\ Executable(root[p][path])
            /\ ~ IsPrefix(<<"usr", "share", "doc">>, path)
            => \/ runs \in BaseInterpreters
               \/ runs \in DOMAIN ProviderOf
                  /\ ProviderOf[runs] \in {p} \cup RuntimeDeps[p]

\* When the audit succeeds, an ELF file without links beside it is searched
\* for libraries in the library directories of the target only, as the loader
\* finds them from the file's own place; a program that needs libraries names
\* the loader of the target; no stack is executable (_check_dynamic,
\* _check_program_headers).
ProgramsLoadFromTarget ==
    Vouched => \A p \in Selected : \A path \in Files(root[p]) :
        LET elf == root[p][path].data.elf
            searched(component) ==
                Walk(root[p], IF component.base = "origin" THEN DirOf(path) ELSE <<>>,
                     component.parts)
        IN  root[p][path].data.magic = "elf" =>
                /\ Links(root[p]) = {} =>
                     \A k \in DOMAIN elf.paths : InRuntimeTree(searched(elf.paths[k]))
                /\ elf.types \cap {"DYN", "EXEC"} # {} => elf.stack # "executable"
                /\ "EXEC" \in elf.types /\ elf.needed # <<>> => elf.interps = <<"musl">>
=============================================================================
