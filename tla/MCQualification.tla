--------------------------- MODULE MCQualification ---------------------------
(***************************************************************************)
(* Qualification for TLC: two cases that print and need some of the same   *)
(* lines, so that a marker of one case is found in the other's section,    *)
(* and a file to install besides the hook.                                 *)
(***************************************************************************)
EXTENDS Qualification, TLC

MCCases == <<"hello", "tls">>
MCLines == {"ok", "noise"}
MCMarkers == "hello" :> {"ok"} @@ "tls" :> {"ok"}
MCPayload == {"/bin/rustc", "hook"}
=============================================================================
