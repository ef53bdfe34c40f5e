--------------------------- MODULE DependencyWalks ---------------------------
(***************************************************************************)
(* The dependency walks of the builder and of the package manager:         *)
(* sort_dependencies and collect_dependencies (support/deps.py),           *)
(* order_uploads (buildPackages.py) and _resolve_packages                  *)
(* (pup/pedigree_updater/commands/install.py), one turn of a loop at a     *)
(* time.  A graph maps the names of the known packages to their dependency *)
(* lists; a list may name a package nobody knows.                          *)
(*                                                                         *)
(* Each of them is a function visit that calls itself in a loop over a     *)
(* dependency list.  A walk is [out, seen, path, loops, error]: the        *)
(* packages emitted so far; the set that ends a visit at once (permanent,  *)
(* "resolved", visited); the visits under way (temporary, stack); what is  *)
(* left of the loop of each, the first one being the loop over the names   *)
(* the walk is for; and the exception that ended it.                       *)
(***************************************************************************)
EXTENDS Naturals, Sequences, SequencesExt

NewWalk(names) ==
    [out |-> <<>>, seen |-> {}, path |-> <<>>, loops |-> <<names>>, error |-> "none"]

Ended(w) == w.error # "none" \/ w.loops = << <<>> >>

Rest(w) == Last(w.loops)

\* The loop goes on behind its next name.
Pass(w) == [w EXCEPT !.loops = Append(Front(w.loops), Tail(Rest(w)))]

Enter(w, n, children) ==
    [w EXCEPT !.path = Append(w.path, n), !.loops = Append(Pass(w).loops, children)]

Raise(w, exception) == [w EXCEPT !.error = exception]

\* The innermost visit has gone through its list and emits its package.
Leave(w) ==
    [w EXCEPT !.out = Append(w.out, Last(w.path)), !.seen = w.seen \cup {Last(w.path)},
              !.path = Front(w.path), !.loops = Front(w.loops)]

\* Mutant: a package is emitted before its dependencies.
VisitPreOrder(g, w) ==
    LET n == Head(Rest(w)) IN
    IF Rest(w) = <<>> THEN [w EXCEPT !.path = Front(@), !.loops = Front(@)]
    ELSE IF n \in w.seen THEN Pass(w)
    ELSE IF n \notin DOMAIN g THEN Raise(w, "unknown")
    ELSE [Enter(w, n, g[n]) EXCEPT !.out = Append(@, n), !.seen = @ \cup {n}]

\* visit of sort_dependencies, order_uploads and _resolve_packages, with its
\* two exceptions.
Visit(g, w) ==
    LET n == Head(Rest(w)) IN
    IF Rest(w) = <<>> THEN Leave(w)
    ELSE IF n \in w.seen THEN Pass(w)
    ELSE IF n \in Range(w.path) THEN Raise(w, "cycle")
    ELSE IF n \notin DOMAIN g THEN Raise(w, "unknown")
    ELSE Enter(w, n, g[n])

\* Mutant: only the direct dependencies are collected.
CollectDirect(g, w) ==
    LET n == Head(Rest(w)) IN
    IF Rest(w) = <<>> THEN Leave(w)
    ELSE IF n \in w.seen THEN Pass(w)
    ELSE IF n \notin DOMAIN g THEN Raise(w, "unknown")
    ELSE [Enter(w, n, <<>>) EXCEPT !.seen = w.seen \cup {n}]

\* visit of collect_dependencies, which has no notion of a cycle.
Collect(g, w) ==
    LET n == Head(Rest(w)) IN
    IF Rest(w) = <<>> THEN Leave(w)
    ELSE IF n \in w.seen THEN Pass(w)
    ELSE IF n \notin DOMAIN g THEN Raise(w, "unknown")
    ELSE [Enter(w, n, g[n]) EXCEPT !.seen = w.seen \cup {n}]

\* The elements of s that are in set, in their order.
Among(s, set) ==
    LET kept[i \in 0..Len(s)] ==
            IF i = 0 THEN <<>>
            ELSE IF s[i] \in set THEN Append(kept[i - 1], s[i]) ELSE kept[i - 1]
    IN kept[Len(s)]

\* Mutant: dependencies outside the selection are followed too.
WholeUploadGraph(g, selected) == g

\* Only the dependencies between the selected packages count.
UploadGraph(g, selected) == [n \in selected |-> Among(g[n], selected)]
=============================================================================
