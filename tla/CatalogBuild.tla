----------------------------- MODULE CatalogBuild -----------------------------
(***************************************************************************)
(* One run of the builder on a whole catalogue, with the images that are   *)
(* made from what it built.  load_packages may lose a file that cannot be  *)
(* imported; main orders the recipes, or the part of them --only-depends   *)
(* asks for; build_all gives each a sysroot with the roots of its build    *)
(* requirements and nothing else, and skips what depends on a failure;     *)
(* what was built is uploaded in the order of its runtime dependencies,    *)
(* the base image is assembled, and a user asks pup for a package.         *)
(* PortsBuilder has the files and markers of one build; here is what is in *)
(* them.                                                                   *)
(*                                                                         *)
(* The catalogue is that of packages/ or any other graph, with cycles      *)
(* and names nobody has.  Linking follows ld: a library whose shared       *)
(* object is in the sysroot is needed at run time, an archive is not, and  *)
(* the shared objects that a linked one needs are looked up in the sysroot *)
(* too (-rpath-link).                                                      *)
(***************************************************************************)
EXTENDS DependencyWalks, FiniteSets

CONSTANTS
    Catalogue,   \* the recipes of packages/, as RecipeCatalog has them
    Unloadable,  \* recipe files of which one may fail to import, or none
    Graphs,      \* other catalogues
    Sorted,      \* all names in the order Python's sorted() gives
    Selections,  \* what --only-depends may ask of those; <<>>: not given
    Nobody       \* no recipe, no request; as graph: Catalogue

IsList(s) == s \in Seq(Range(s))

ASSUME CatalogAssumption ==
    /\ \A c \in Graphs \cup {Catalogue} :
          /\ IsFiniteSet(DOMAIN c) /\ DOMAIN c \subseteq Range(Sorted)
          /\ \A n \in DOMAIN c : IsList(c[n].requires) /\ IsList(c[n].installs)
    /\ IsList(Sorted) /\ \A names \in Selections : IsList(names)
    /\ Nobody \notin Graphs /\ Nobody \notin Range(Sorted)

Base == <<"bash", "coreutils">>

VARIABLES
    graph, only,      \* the catalogue; the names given to --only-depends
    stage,            \* how far the run is
    catalog,          \* what load_packages returned
    walk,             \* the walk under way
    ordered,          \* what main has to build, in order
    selected, todo,   \* names --only-depends takes so far, and has to look at
    queue,            \* recipes build_all has not come to
    work,             \* the recipe being built: its place and its sysroot
    roots,            \* built recipe -> the shared objects its files need
    failed, blocked,  \* the sets build_all keeps
    accidents,        \* recipes whose build failed for a reason of the day
    image, plan,      \* packages in the image; packages pup has still to add
    asked             \* the package the user asked for

given == <<graph, only, catalog>>
order == <<ordered, selected, todo>>
progress == <<queue, work, roots, failed, blocked, accidents>>
vars == <<given, stage, walk, order, progress, image, plan, asked>>

\* A name of its own: TLC evaluates a definition once, a constant's value in
\* every use of it.
Packages == Catalogue

Shelf == IF graph = Nobody THEN Packages ELSE graph
Recipe(n) == Shelf[n]
Names == DOMAIN Shelf
BaseNames == IF graph = Nobody THEN Range(Base) ELSE {}

Idle == [recipe |-> Nobody, pc |-> "idle", sysroot |-> {}]
Wanted == Head(queue)
BuildGraph(names) == [n \in names |-> Recipe(n).requires]
InstallGraph(names) == [n \in names |-> Recipe(n).installs]
SharedIn(names) == UNION {Recipe(n).shared : n \in names}
LibrariesIn(names) == SharedIn(names) \cup UNION {Recipe(n).static : n \in names}
FilesIn(names) == UNION {Recipe(n).files : n \in names}

\* One file has two recipes, the others one.
FileOf(n) == IF n = "libpcre2" THEN "libpcre" ELSE n

\* load_packages logs an import that fails and goes on.
Init ==
    /\ \/ /\ graph = Nobody /\ only = <<>>
          /\ catalog \in {{n \in DOMAIN Packages : FileOf(n) # file} :
                             file \in Unloadable \cup {Nobody}}
       \/ graph \in Graphs /\ only \in Selections /\ catalog = DOMAIN graph
    /\ stage = "sort" /\ walk = NewWalk(Among(Sorted, catalog))
    /\ ordered = <<>> /\ selected = {} /\ todo = <<>>
    /\ queue = <<>> /\ work = Idle /\ roots = <<>>
    /\ failed = {} /\ blocked = {} /\ accidents = {}
    /\ image = {} /\ plan = <<>> /\ asked = Nobody

-----------------------------------------------------------------------------
(* main puts the recipes in order.                                         *)

SortStep ==
    /\ stage = "sort" /\ ~Ended(walk)
    /\ walk' = Visit(BuildGraph(catalog), walk)
    /\ UNCHANGED <<given, stage, order, progress, image, plan, asked>>

\* sort_dependencies raises when recipes require each other or somebody
\* requires one that was not loaded: nothing is built then.
SortDone ==
    /\ stage = "sort" /\ Ended(walk)
    /\ IF walk.error # "none"
       THEN stage' = "refused" /\ UNCHANGED <<walk, order, queue>>
       ELSE /\ walk' = NewWalk(<<>>) /\ ordered' = walk.out
            /\ todo' = only /\ UNCHANGED selected
            /\ IF only = <<>> THEN stage' = "build" /\ queue' = walk.out
               ELSE stage' = "select" /\ UNCHANGED queue
    /\ UNCHANGED <<given, work, roots, failed, blocked, accidents, image, plan,
                   asked>>

\* select_with_dependencies collects what one requested recipe needs after
\* the other.
SelectStep ==
    /\ stage = "select" /\ ~Ended(walk)
    /\ walk' = Collect(BuildGraph(catalog), walk)
    /\ UNCHANGED <<given, stage, order, progress, image, plan, asked>>

SelectNext ==
    /\ stage = "select" /\ Ended(walk) /\ todo # <<>>
    /\ todo' = Tail(todo)
    /\ selected' = selected \cup Range(walk.out) \cup {Head(todo)}
    /\ IF walk.error = "none" /\ Head(todo) \in catalog
       THEN walk' = NewWalk(Recipe(Head(todo)).requires) /\ UNCHANGED stage
       ELSE stage' = "refused" /\ UNCHANGED walk
    /\ UNCHANGED <<given, ordered, progress, image, plan, asked>>

\* A second sort_dependencies finds the order of the first.
SelectDone ==
    /\ stage = "select" /\ Ended(walk) /\ todo = <<>>
    /\ selected' = selected \cup Range(walk.out)
    /\ IF walk.error = "none"
       THEN /\ stage' = "build" /\ walk' = NewWalk(<<>>)
            /\ ordered' = Among(ordered, selected') /\ queue' = ordered'
       ELSE stage' = "refused" /\ UNCHANGED <<walk, ordered, queue>>
    /\ UNCHANGED <<given, todo, work, roots, failed, blocked, accidents, image,
                   plan, asked>>

-----------------------------------------------------------------------------
(* build_all.                                                              *)

\* Mutant: what a recipe needs at run time blocks its build too.
HasFailedRequirementOrDep(n) ==
    (Range(Recipe(n).requires) \cup Range(Recipe(n).installs))
        \cap (failed \cup blocked) # {}

HasFailedRequirement(n) ==
    Range(Recipe(n).requires) \cap (failed \cup blocked) # {}

Block ==
    /\ queue # <<>> /\ work = Idle /\ HasFailedRequirement(Wanted)
    /\ blocked' = blocked \cup {Wanted} /\ queue' = Tail(queue)
    /\ UNCHANGED <<given, stage, walk, order, work, roots, failed, accidents,
                   image, plan, asked>>

Fail ==
    /\ failed' = failed \cup {work.recipe}
    /\ work' = Idle /\ walk' = NewWalk(<<>>) /\ queue' = Tail(queue)
    /\ UNCHANGED <<given, stage, order, roots, blocked, image, plan, asked>>

\* prepare_sysroot copies the root of every requirement of a requirement.
PrepareSysroot ==
    /\ queue # <<>> /\ work = Idle /\ ~HasFailedRequirement(Wanted)
    /\ work' = [recipe |-> Wanted, pc |-> "sysroot", sysroot |-> {}]
    /\ walk' = NewWalk(Recipe(Wanted).requires)
    /\ UNCHANGED <<given, stage, order, queue, roots, failed, blocked, accidents,
                   image, plan, asked>>

SysrootStep ==
    /\ work.pc = "sysroot" /\ ~Ended(walk)
    /\ walk' = Collect(BuildGraph(catalog), walk)
    /\ UNCHANGED <<given, stage, order, progress, image, plan, asked>>

SysrootDone ==
    /\ work.pc = "sysroot" /\ Ended(walk)
    /\ IF walk.error = "none" /\ Range(walk.out) \subseteq DOMAIN roots
       THEN /\ work' = [work EXCEPT !.pc = "configure", !.sysroot = Range(walk.out)]
            /\ walk' = NewWalk(<<>>)
            /\ UNCHANGED <<given, stage, order, queue, roots, failed, blocked,
                           image, plan, asked>>
       ELSE Fail
    /\ UNCHANGED accidents

Linked == Recipe(work.recipe).links \cap SharedIn(work.sysroot)

\* What its steps look for in the sysroot and do not find.
Lacks ==
    (Recipe(work.recipe).links \ LibrariesIn(work.sysroot))
    \cup (Recipe(work.recipe).reads \ FilesIn(work.sysroot))
    \cup ((UNION {roots[n] : n \in {m \in work.sysroot :
                                      Recipe(m).shared \cap Linked # {}}})
             \ SharedIn(work.sysroot))

\* The recipe's own phases, up to deploy and postdeploy.
Build ==
    /\ work.pc = "configure"
    /\ IF Lacks = {}
       THEN /\ work' = [work EXCEPT !.pc = "check"]
            /\ UNCHANGED <<given, stage, walk, order, queue, roots, failed, blocked,
                           image, plan, asked>>
       ELSE Fail
    /\ UNCHANGED accidents

\* check_script_runtime: the recipe itself installs the interpreters of its
\* scripts or lists their providers.
CheckScripts ==
    /\ work.pc = "check"
    /\ IF Recipe(work.recipe).scripts
             \subseteq Range(Recipe(work.recipe).installs) \cup {work.recipe}
       THEN /\ roots' = [n \in DOMAIN roots \cup {work.recipe} |->
                            IF n = work.recipe THEN Linked ELSE roots[n]]
            /\ work' = Idle /\ queue' = Tail(queue)
            /\ UNCHANGED <<given, stage, walk, order, failed, blocked, image, plan,
                           asked>>
       ELSE Fail
    /\ UNCHANGED accidents

\* A download, a compiler or the disk fails, once and in a whole catalogue.
Accident ==
    /\ work # Idle /\ accidents = {} /\ catalog = Names
    /\ accidents' = {work.recipe}
    /\ Fail

-----------------------------------------------------------------------------
(* upload_all, run on what was built when every build went well.           *)

StartUpload ==
    /\ stage = "build" /\ queue = <<>> /\ failed \cup blocked = {}
    /\ stage' = "upload" /\ walk' = NewWalk(ordered)
    /\ UNCHANGED <<given, order, progress, image, plan, asked>>

UploadStep ==
    /\ stage = "upload" /\ ~Ended(walk)
    /\ walk' = Visit(UploadGraph(InstallGraph(Names), Range(ordered)), walk)
    /\ UNCHANGED <<given, stage, order, progress, image, plan, asked>>

\* order_uploads refuses a cycle before anything is uploaded.
UploadDone ==
    /\ stage = "upload" /\ Ended(walk)
    /\ stage' = IF walk.error = "none" THEN "published" ELSE "refused"
    /\ UNCHANGED <<given, walk, order, progress, image, plan, asked>>

-----------------------------------------------------------------------------
(* The images.  pup resolves a plan first and then installs it.            *)

AssembleBase ==
    /\ stage = "published" /\ plan = <<>> /\ ~(BaseNames \subseteq image)
    /\ stage' = "resolve" /\ walk' = NewWalk(Base)
    /\ UNCHANGED <<given, order, progress, image, plan, asked>>

\* Nobody installs a package before the base image is assembled.
Request(n) ==
    /\ stage = "published" /\ BaseNames \subseteq image
    /\ plan = <<>> /\ asked = Nobody
    /\ asked' = n /\ stage' = "resolve" /\ walk' = NewWalk(<<n>>)
    /\ UNCHANGED <<given, order, progress, image, plan>>

ResolveStep ==
    /\ stage = "resolve" /\ ~Ended(walk)
    /\ walk' = Visit(InstallGraph(DOMAIN roots), walk)
    /\ UNCHANGED <<given, stage, order, progress, image, plan, asked>>

ResolveDone ==
    /\ stage = "resolve" /\ Ended(walk)
    /\ IF walk.error = "none"
       THEN stage' = "published" /\ plan' = walk.out
       ELSE stage' = "refused" /\ UNCHANGED plan
    /\ UNCHANGED <<given, walk, order, progress, image, asked>>

Install ==
    /\ plan # <<>>
    /\ image' = image \cup {Head(plan)} /\ plan' = Tail(plan)
    /\ UNCHANGED <<given, stage, walk, order, progress, asked>>

Next ==
    \/ SortStep \/ SortDone \/ SelectStep \/ SelectNext \/ SelectDone
    \/ Block \/ PrepareSysroot \/ SysrootStep \/ SysrootDone
    \/ Build \/ CheckScripts \/ Accident
    \/ StartUpload \/ UploadStep \/ UploadDone
    \/ AssembleBase \/ ResolveStep \/ ResolveDone \/ Install
    \/ \E n \in Names : Request(n)

Spec == Init /\ [][Next]_vars

-----------------------------------------------------------------------------
(* The reference, which knows nothing of walks and has sets for lists.     *)

BuildNeeds(names) == [n \in names |-> Range(Recipe(n).requires)]
InstallNeeds(names) == [n \in names |-> Range(Recipe(n).installs)]

Children(h, S) == UNION {h[n] : n \in S \cap DOMAIN h}
Grown(h, S) == S \cup Children(h, S)

\* What S leads to.
Closure(h, S) ==
    LET reach[i \in 0..(Cardinality(DOMAIN h) + 1)] ==
            IF i = 0 THEN S ELSE Grown(h, reach[i - 1])
    IN reach[Cardinality(DOMAIN h) + 1]

OnCycle(h, n) == n \in Closure(h, Children(h, {n}))

Resolvable(h, S) == \A n \in Closure(h, S) : n \in DOMAIN h /\ ~OnCycle(h, n)

\* Each member of S once, and after what it needs.
IsPlan(h, out, S) ==
    /\ Range(out) = S /\ Len(out) = Cardinality(S)
    /\ \A i \in 1..Len(out) : h[out[i]] \subseteq {out[j] : j \in 1..(i - 1)}

PackagesBelow ==
    LET needs == [n \in DOMAIN Packages |-> Range(Packages[n].requires)]
    IN [n \in DOMAIN Packages |-> Closure(needs, needs[n])]

\* What the build of n needs, directly or not.
Below(n) ==
    IF graph = Nobody THEN PackagesBelow[n]
    ELSE Closure(BuildNeeds(Names), BuildNeeds(Names)[n])

-----------------------------------------------------------------------------
(* Properties.                                                             *)

\* main builds nothing exactly if a recipe it has to order, or one it was
\* asked for, is unknown or on a cycle, and otherwise takes every recipe, or
\* the closure of those it was asked for and no more, once and after its
\* build requirements.
BuildOrderIsAPlan ==
    [][stage' \notin {"sort", "select"} /\ stage \in {"sort", "select"} =>
          LET h == BuildNeeds(catalog) IN
          /\ stage' = "build" <=> Resolvable(h, catalog) /\ Range(only) \subseteq catalog
          /\ stage' = "build" =>
                IsPlan(h, queue', IF only = <<>> THEN catalog
                                  ELSE Closure(h, Range(only)))]_vars

\* order_uploads refuses a runtime cycle among what was built, and only that,
\* and otherwise orders exactly what was built by the dependencies inside it.
UploadsFollowDependencies ==
    [][stage = "upload" /\ stage' # "upload" =>
          LET wave == DOMAIN roots
              inside == [n \in wave |-> InstallNeeds(wave)[n] \cap wave]
          IN /\ stage' = "published" <=> Resolvable(inside, wave)
             /\ stage' = "published" => IsPlan(inside, walk.out, wave)]_vars

\* Of the base image and of `pup install`: a missing package or a cycle
\* anywhere below what was asked for is refused before anything is installed,
\* and otherwise the closure is planned, dependencies first.
InstallPlanIsComplete ==
    [][stage = "resolve" /\ stage' # "resolve" =>
          LET h == InstallNeeds(DOMAIN roots)
              wish == IF asked = Nobody THEN Range(Base) ELSE {asked}
          IN /\ stage' = "refused" <=> ~Resolvable(h, wish)
             /\ stage' # "refused" => IsPlan(h, plan', Closure(h, wish))]_vars

\* A recipe finds everything its steps name in the sysroot made for it, with
\* what the shared objects it is linked with need, and lists the interpreters
\* of its scripts: a build fails by accident only.  No other part of the
\* builder compares options with build_requires.
BuildsLackNothing == failed \subseteq accidents

\* A failure costs the recipes that are built on it and no other.
OnlyDependentsAreBlocked ==
    /\ \A n \in blocked : Below(n) \cap failed # {}
    /\ \A n \in DOMAIN roots : Below(n) \cap (failed \cup blocked) = {}

\* At every moment of an installation each package in the image has the
\* shared objects it was linked with: nothing that is statically linked today
\* is missing from install_deps if it is not, and pup's order is right.
LibrariesComeFirst == \A n \in image : roots[n] \subseteq SharedIn(image)

\* In the assembled base image, and whenever pup has done what it was asked,
\* every program finds the interpreters, programs and certificates it uses.
ProgramsFindWhatTheyUse ==
    plan = <<>> =>
        \A n \in image : /\ Recipe(n).runs \subseteq FilesIn(image)
                         /\ Recipe(n).scripts \subseteq image

\* What is installed runs: its shared objects are there before it at every
\* moment, and what it calls is there when pup is done.
InstalledProgramsRun == LibrariesComeFirst /\ ProgramsFindWhatTheyUse
=============================================================================
