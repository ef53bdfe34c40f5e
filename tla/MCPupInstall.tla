---------------------------- MODULE MCPupInstall ----------------------------
(***************************************************************************)
(* PupInstall for a database in which app needs lib and broken needs a     *)
(* package that is not listed.  Plans are those of WalkResults.            *)
(***************************************************************************)
EXTENDS PupInstall, TLC

CONSTANTS c1, c2, app, lib, broken, ghost, soname

W == INSTANCE WalkResults WITH Sorted <- <<app, broken, lib>>

Database ==
    [p \in {app, lib, broken} |->
        CASE p = app -> <<lib>> [] p = lib -> <<>> [] p = broken -> <<ghost>>]

MCPackages == {app, lib}
MCDeps == [p \in MCPackages |-> Range(Database[p])]
MCLinks == [p \in MCPackages |-> IF p = lib THEN {soname} ELSE {}]

MCCommands ==
    {[names |-> <<app>>, nodeps |-> FALSE], [names |-> <<app, lib>>, nodeps |-> TRUE],
     [names |-> <<broken>>, nodeps |-> FALSE]}
MCPlan ==
    [m \in Commands |->
        LET walk == W!ResolvePackages(Database, m.names, m.nodeps)
        IN IF walk.error = "none" THEN walk.out ELSE Failed]

\* What one process does when a source or a plan fails is explored while the
\* other has not started.
FailuresAlone ==
    ~Alone => \A c \in Clients :
        /\ command[c].names # <<broken>>
        /\ pc[c] \in {"copy", "verify", "reject"} => repo[c] = 1

ClientSymmetry == Permutations(Clients)
=============================================================================
