----------------------------- MODULE WalkResults -----------------------------
(***************************************************************************)
(* What whole walks return, for instances that take an order or a plan as  *)
(* a constant.                                                             *)
(***************************************************************************)
EXTENDS DependencyWalks

CONSTANT Sorted   \* the known names in the order Python's sorted() gives

RECURSIVE Walked(_, _)
Walked(g, w) == IF Ended(w) THEN w ELSE Walked(g, Visit(g, w))

SortDependencies(g) == Walked(g, NewWalk(Among(Sorted, DOMAIN g)))

OrderUploads(g, selected) ==
    Walked(UploadGraph(g, Range(selected)), NewWalk(selected))

\* The plan of `pup install`; --nodeps drops the dependency lists.
ResolvePackages(g, names, nodeps) ==
    Walked(IF nodeps THEN [n \in DOMAIN g |-> <<>>] ELSE g, NewWalk(names))
=============================================================================
