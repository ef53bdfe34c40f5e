--------------------------- MODULE MCPortsBuilder ---------------------------
(***************************************************************************)
(* PortsBuilder on three ports: app is built with tool, which is built     *)
(* with lib, and lib needs app's data at run time, so that the build order *)
(* and the upload order differ.  Both orders are computed by the walks of  *)
(* WalkResults.                                                            *)
(***************************************************************************)
EXTENDS PortsBuilder

CONSTANTS lib, tool, app

W == INSTANCE WalkResults WITH Sorted <- <<app, lib, tool>>

BuildRequires ==
    [p \in {lib, tool, app} |->
        CASE p = app -> <<tool>> [] p = tool -> <<lib>> [] p = lib -> <<>>]
RuntimeDeps ==
    [p \in {lib, tool, app} |->
        CASE p = app -> <<>> [] p = tool -> <<lib>> [] p = lib -> <<app>>]

MCPorts == {lib, tool, app}
MCRequires == [p \in MCPorts |-> Range(BuildRequires[p])]
MCInstallDeps == [p \in MCPorts |-> Range(RuntimeDeps[p])]
\* The whole catalogue, a closed selection, and two of --only.
MCSelections == {MCPorts, {lib, tool}, {app}, {lib, app}}
MCBuildOrder ==
    [S \in MCSelections |->
        SelectSeq(W!SortDependencies(BuildRequires).out, LAMBDA p : p \in S)]
MCUploadOrder ==
    [S \in MCSelections |-> W!OrderUploads(RuntimeDeps, MCBuildOrder[S]).out]

BuilderPlans ==
    {<<"build">>, <<"build", "upload">>, <<"audit", "upload">>, <<"upload">>}
BuildPlans == {<<"build">>}
=============================================================================
