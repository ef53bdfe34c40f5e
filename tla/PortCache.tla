------------------------------ MODULE PortCache ------------------------------
(***************************************************************************)
(* The persistent cache that scripts/build-codex-app-server.py keeps, with *)
(* the toolchain provisioner of scripts/build-rust.py it is built on.      *)
(* Downloads are verified and renamed into place; extracted trees, the     *)
(* compiler prefix and the vendored crates carry a marker file that says   *)
(* which pin they were made from, and a later run trusts the marker.  The  *)
(* helper may be killed between any two file operations, and another state *)
(* of the repository, newer or older, may be checked out between two runs. *)
(* The components (app server, cli, code mode host) share one cache and    *)
(* run one at a time (docs/codex-cli.md:38); each has a source tree of its *)
(* own, and the patches give each a Cargo.lock of its own.                 *)
(***************************************************************************)
EXTENDS Naturals, Sequences

CONSTANTS
    Components,     \* the executables: app-server, cli, code-mode-host
    Checkouts,      \* states of the repository that may be checked out
    Stamp,          \* Stamp[t][k]: digest that checkout k pins for tree t
    Lock,           \* Lock[c][k]: digest of the Cargo.lock of component c
    CratesOf,       \* CratesOf[l]: the crates of the locked workspace l
    Files, FilesOf, \* files of a tree; FilesOf[s]: those of the archive of pin s
    None, Junk, Unpatched

Trees == {"component", "prefix", "headers"} \cup Components
Stamps == UNION {{Stamp[t][k] : k \in Checkouts} : t \in Trees}
Locks == UNION {{Lock[c][k] : k \in Checkouts} : c \in Components}
Crates == UNION {CratesOf[l] : l \in Locks}
Libraries == {"libgcc.a", "libstdc++.a"}

\* The marker of the prefix lists the digests of the components it was made
\* from.
ASSUME CacheAssumption ==
    /\ Components \cap {"component", "prefix", "headers"} = {}
    /\ {None, Junk, Unpatched} \cap (Stamps \cup Locks) = {}
    /\ None \notin {"ok", "refused", "part", "whole"}
    /\ Stamp["prefix"] = Stamp["component"]
    /\ FilesOf \in [Stamps -> SUBSET Files]

VARIABLES
    checkout,   \* the repository the helpers run from
    download,   \* cache/downloads: what each archive's final name holds
    partial,    \* what its ".partial" name holds while it is received; what
                \* a killed run leaves there is truncated by the next one
    tree, mark, \* extracted trees and the marker inside each
    native,     \* cache/native-runtime
    vendor, lockMark, config,   \* vendored crates, their marker, vendor.toml
    stage,      \* the package root of the running helper's component
    run,        \* the running helper: its arguments and where it is
    last,       \* how the last helper of this checkout ended
    interrupted \* history: the trees under whose marker a helper that was
                \* removing or replacing them ended

archives == <<download, partial>>
trees == <<tree, mark, interrupted>>
closure == <<native, vendor, lockMark, config>>
cache == <<archives, trees, closure, stage>>
vars == <<checkout, cache, run, last>>

Idle == [pc |-> "idle"]
Nothing == [result |-> None]
Wanted(t) == Stamp[t][checkout]
WantedLock == Lock[run.component][checkout]
HoldsPin(contents, stamp) == \A f \in FilesOf[stamp] : contents[f] = stamp

Init ==
    /\ checkout \in Checkouts /\ interrupted = {}
    /\ download = [t \in Trees |-> None] /\ partial = None
    /\ tree = [t \in Trees |-> [f \in Files |-> None]]
    /\ mark = [t \in Trees |-> None]
    /\ native = [l \in Libraries |-> None]
    /\ vendor = {} /\ lockMark = None /\ config = None
    /\ stage = <<>>
    /\ run = Idle /\ last = Nothing

At(place) == run.pc = place
Goto(place) == run' = [run EXCEPT !.pc = place]
GotoTree(place, t) == run' = [run EXCEPT !.pc = place, !.tree = t]

End(result) ==
    /\ run' = Idle
    /\ last' = IF result = "failed" THEN Nothing
               ELSE [result |-> result, component |-> run.component,
                     repeated |-> run.repeated]

Start(c, offline) ==
    /\ At("idle")
    /\ run' = [pc |-> "provision", tree |-> "prefix", component |-> c,
               offline |-> offline, exe |-> None,
               repeated |-> last.result = "ok" /\ last.component = c]
    /\ last' = Nothing
    /\ stage' \in {<<>>, <<"of an earlier run">>}
    /\ UNCHANGED <<checkout, archives, trees, closure>>

\* provision: trust a prefix whose marker names these pins; otherwise remove
\* the marker before the first component is copied over the prefix.
Provision ==
    /\ At("provision")
    /\ IF mark["prefix"] = Wanted("prefix")
       THEN GotoTree("fetch", "headers") /\ UNCHANGED <<mark, interrupted>>
       ELSE /\ mark' = [mark EXCEPT !["prefix"] = None]
            /\ interrupted' = interrupted \ {"prefix"}
            /\ GotoTree("fetch", "component")
    /\ UNCHANGED <<checkout, archives, tree, closure, stage, last>>

\* fetch: a cached archive counts only with the pinned digest.
FetchCached ==
    /\ At("fetch") /\ download[run.tree] = Wanted(run.tree)
    /\ Goto("check")
    /\ UNCHANGED <<checkout, cache, last>>

FetchOffline ==
    /\ At("fetch") /\ download[run.tree] # Wanted(run.tree) /\ run.offline
    /\ End("refused")
    /\ UNCHANGED <<checkout, cache>>

FetchReceive ==
    /\ At("fetch") /\ download[run.tree] # Wanted(run.tree) /\ ~run.offline
    /\ \E received \in {Wanted(run.tree), Junk} :
           partial' = received
    /\ Goto("verify")
    /\ UNCHANGED <<checkout, download, trees, closure, stage, last>>

\* Digest, rename, and the finally clause that removes the partial file.
FetchVerify ==
    /\ At("verify")
    /\ partial' = None
    /\ IF partial = Wanted(run.tree)
       THEN /\ download' = [download EXCEPT ![run.tree] = partial]
            /\ Goto("check") /\ UNCHANGED last
       ELSE End("failed") /\ UNCHANGED download
    /\ UNCHANGED <<checkout, trees, closure, stage>>

\* Where build() goes when a tree is there: the components are copied into
\* the prefix; then come the headers, the source and the native runtime.
TreeDone(t) ==
    CASE t = "component" -> GotoTree("copy", "prefix")
      [] t = "prefix" -> GotoTree("fetch", "headers")
      [] t = "headers" -> GotoTree("fetch", run.component)
      [] OTHER -> Goto("native")

\* Mutant: any marker vouches for the tree.
TreeCheckAnyMarker ==
    /\ At("check")
    /\ IF mark[run.tree] # None THEN TreeDone(run.tree)
                                            ELSE Goto("clear")
    /\ UNCHANGED <<checkout, cache, last>>

\* component, build (headers) and source_tree share one discipline: look at
\* the marker, remove the tree, extract, patch the source, write the marker.
TreeCheck ==
    /\ At("check")
    /\ IF mark[run.tree] = Wanted(run.tree) THEN TreeDone(run.tree)
                                            ELSE Goto("clear")
    /\ UNCHANGED <<checkout, cache, last>>

\* rmtree removes the files and the marker in the directory's order, and its
\* errors are ignored: what is left stays, except that the headers' directory
\* must be made anew.
TreeClear ==
    /\ At("clear")
    /\ \/ \E f \in Files :
            /\ tree[run.tree][f] # None
            /\ tree' = [tree EXCEPT ![run.tree][f] = None]
            /\ UNCHANGED <<mark, interrupted, run>>
       \/ /\ mark[run.tree] # None
          /\ mark' = [mark EXCEPT ![run.tree] = None]
          /\ interrupted' = interrupted \ {run.tree}
          /\ UNCHANGED <<tree, run>>
       \/ /\ run.tree = "headers" =>
                mark[run.tree] = None /\ \A f \in Files : tree[run.tree][f] = None
          /\ Goto("extract") /\ UNCHANGED trees
    /\ UNCHANGED <<checkout, archives, closure, stage, last>>

\* What the archive holds of a file: the source is yet to be patched.
Extracted == IF run.tree \in Components THEN Unpatched ELSE download[run.tree]

\* Every file of the archive is written, over one that is still there.
TreeExtract ==
    /\ At("extract")
    /\ \/ \E f \in FilesOf[Wanted(run.tree)] :
            /\ tree[run.tree][f] # Extracted
            /\ tree' = [tree EXCEPT ![run.tree][f] = Extracted]
            /\ UNCHANGED run
       \/ /\ \A f \in FilesOf[Wanted(run.tree)] : tree[run.tree][f] = Extracted
          /\ Goto("patch") /\ UNCHANGED tree
    /\ UNCHANGED <<checkout, archives, mark, interrupted, closure, stage, last>>

\* Each patch rewrites files of the source tree; the other trees have none.
TreePatch ==
    /\ At("patch")
    /\ \E f \in FilesOf[Wanted(run.tree)] :
        /\ tree[run.tree][f] = Unpatched
        /\ tree' = [tree EXCEPT ![run.tree][f] = Wanted(run.tree)]
    /\ UNCHANGED <<checkout, archives, mark, interrupted, closure, stage, run, last>>

TreeMark ==
    /\ At("patch")
    /\ \A f \in FilesOf[Wanted(run.tree)] : tree[run.tree][f] # Unpatched
    /\ mark' = [mark EXCEPT ![run.tree] = Wanted(run.tree)]
    /\ interrupted' = interrupted \ {run.tree}
    /\ TreeDone(run.tree)
    /\ UNCHANGED <<checkout, archives, tree, closure, stage, last>>

\* copytree of the components over whatever the prefix holds, which keeps the
\* files they do not have, then its marker.
PrefixCopy ==
    /\ At("copy")
    /\ LET copied == {f \in Files : tree["component"][f] # None}
       IN  \/ \E f \in copied :
                /\ tree["prefix"][f] # tree["component"][f]
                /\ tree' = [tree EXCEPT !["prefix"][f] = tree["component"][f]]
                /\ UNCHANGED <<mark, interrupted, run>>
           \/ /\ \A f \in copied : tree["prefix"][f] = tree["component"][f]
              /\ mark' = [mark EXCEPT !["prefix"] = Wanted("prefix")]
              /\ interrupted' = interrupted \cup {t \in {"prefix"} : "component" \in interrupted}
              /\ TreeDone("prefix") /\ UNCHANGED tree
    /\ UNCHANGED <<checkout, archives, closure, stage, last>>

\* The isolated libgcc and libstdc++: removed, then copied one after the other.
NativeClear ==
    /\ At("native")
    /\ native' = [l \in Libraries |-> None]
    /\ Goto("native copy")
    /\ UNCHANGED <<checkout, archives, trees, vendor, lockMark, config, stage, last>>

NativeCopy(l) ==
    /\ At("native copy") /\ native[l] # "whole"
    /\ l = "libstdc++.a" => native["libgcc.a"] = "whole"
    /\ native' = [native EXCEPT ![l] = IF @ = None THEN "part" ELSE "whole"]
    /\ UNCHANGED <<checkout, archives, trees, vendor, lockMark, config, stage, run, last>>

VendorCheck ==
    /\ At("native copy") /\ \A l \in Libraries : native[l] = "whole"
    /\ IF lockMark = WantedLock /\ config # None
       THEN Goto("compile") /\ UNCHANGED <<config, last>>
       ELSE IF run.offline
            THEN End("refused") /\ UNCHANGED config
            ELSE config' = "part" /\ Goto("vendor") /\ UNCHANGED last
    /\ UNCHANGED <<checkout, archives, trees, native, vendor, lockMark, stage>>

\* cargo vendor removes the crates the lock does not name, keeps the hidden
\* marker file, adds the others and at the end prints its configuration.
CargoVendor ==
    /\ At("vendor")
    /\ \/ \E r \in vendor \ CratesOf[WantedLock] : vendor' = vendor \ {r}
       \/ \E r \in CratesOf[WantedLock] \ vendor : vendor' = vendor \cup {r}
    /\ UNCHANGED <<checkout, archives, trees, native, lockMark, config, stage, run, last>>

\* Mutant: the vendored crates get no marker.
VendorMarkForgotten ==
    /\ At("vendor") /\ vendor = CratesOf[WantedLock]
    /\ IF config = "part"
       THEN config' = "whole" /\ UNCHANGED <<lockMark, run>>
       ELSE lockMark' = lockMark /\ Goto("compile") /\ UNCHANGED config
    /\ UNCHANGED <<checkout, archives, trees, native, vendor, stage, last>>

VendorMark ==
    /\ At("vendor") /\ vendor = CratesOf[WantedLock]
    /\ IF config = "part"
       THEN config' = "whole" /\ UNCHANGED <<lockMark, run>>
       ELSE lockMark' = WantedLock /\ Goto("compile") /\ UNCHANGED config
    /\ UNCHANGED <<checkout, archives, trees, native, vendor, stage, last>>

\* cargo build --offline --locked verifies the vendored crates.
CargoBuild ==
    /\ At("compile")
    /\ IF config = "whole" /\ CratesOf[WantedLock] \subseteq vendor
       THEN Goto("link") /\ UNCHANGED last
       ELSE End("failed")
    /\ UNCHANGED <<checkout, cache>>

CargoBuildLink ==
    /\ At("link")
    /\ run' = [run EXCEPT !.pc = "stage",
                   !.exe = [prefix |-> tree["prefix"],
                            source |-> tree[run.component]]]
    /\ UNCHANGED <<checkout, cache, last>>

\* Mutant: the package root is filled over what it holds.
StageClearSkipped ==
    /\ At("stage")
    /\ stage' = stage
    /\ Goto("stage binary")
    /\ UNCHANGED <<checkout, archives, trees, closure, last>>

\* The package root is removed, then filled: the executable, the licence
\* notices (those of the extracted component must be there), build.json.
StageClear ==
    /\ At("stage")
    /\ stage' = <<>>
    /\ Goto("stage binary")
    /\ UNCHANGED <<checkout, archives, trees, closure, last>>

StageBinary ==
    /\ At("stage binary")
    /\ stage' = Append(stage, run.exe)
    /\ Goto("stage notices")
    /\ UNCHANGED <<checkout, archives, trees, closure, last>>

StageNotices ==
    /\ At("stage notices")
    /\ IF \E f \in FilesOf[Wanted("component")] : tree["component"][f] = None
       THEN End("failed") /\ UNCHANGED stage
       ELSE /\ stage' = Append(stage, [lock |-> WantedLock,
                                       patches |-> Wanted(run.component)])
            /\ End("ok")
    /\ UNCHANGED <<checkout, archives, trees, closure>>

\* A compiler error, a full disk or a lost process at any step.  What it
\* leaves in partial, native and stage is overwritten unread (Start chooses the
\* stage).
Killed ==
    /\ ~At("idle") /\ End("failed")
    /\ partial' = None /\ native' = [l \in Libraries |-> None] /\ stage' = <<>>
    /\ interrupted' = interrupted \cup
          {t \in {run.tree} : /\ run.pc \in {"clear", "extract", "patch"}
                              /\ mark[t] # None}
    /\ UNCHANGED <<checkout, download, tree, mark, vendor, lockMark, config>>

\* Another state of the repository, newer or older, is checked out between
\* two runs.
Update ==
    /\ At("idle")
    /\ checkout' \in Checkouts \ {checkout}
    /\ last' = Nothing /\ stage' = <<>>
    /\ UNCHANGED <<archives, trees, closure, run>>

Next ==
    \/ \E c \in Components, offline \in BOOLEAN : Start(c, offline)
    \/ Provision \/ FetchCached \/ FetchOffline \/ FetchReceive \/ FetchVerify
    \/ TreeCheck \/ TreeClear \/ TreeExtract \/ TreePatch \/ TreeMark
    \/ PrefixCopy \/ NativeClear \/ \E l \in Libraries : NativeCopy(l)
    \/ VendorCheck \/ CargoVendor \/ VendorMark
    \/ CargoBuild \/ CargoBuildLink
    \/ StageClear \/ StageBinary \/ StageNotices
    \/ Killed \/ Update

Spec == Init /\ [][Next]_vars

-----------------------------------------------------------------------------
\* The trees a helper compiles from.
Inputs(c) == {"prefix", "headers", c}

\* cargo compiles with the compiler, the headers and the patched source that
\* the checkout pins, whatever helpers of this and of other checkouts left in
\* the cache under the same names, in whatever order the checkouts came.  The
\* one exception is a tree under whose marker a helper of another checkout
\* ended while it removed or replaced the tree, and a prefix copied from one.
CompilesFromPinnedInputs ==
    run.pc \in {"compile", "link"} =>
        \A t \in Inputs(run.component) \ interrupted : HoldsPin(tree[t], Wanted(t))

\* A helper that returns success leaves a package root with one executable,
\* linked from what its build.json names, with the same exception.
StagedIsPinned ==
    last.result = "ok" =>
        /\ Len(stage) = 2
        /\ stage[2].lock = Lock[last.component][checkout]
        /\ stage[2].patches = Wanted(last.component)
        /\ last.component \notin interrupted => HoldsPin(stage[1].source, stage[2].patches)
        /\ "prefix" \notin interrupted => HoldsPin(stage[1].prefix, Wanted("prefix"))

\* A build that succeeded can be repeated at once with --offline
\* (docs/codex-app-server.md:35): nothing it needs is missing from the cache.
OfflineRepeatWorks == last.result = "refused" => ~last.repeated

=============================================================================
