-------------------------- MODULE MCCodexIntegration --------------------------
(***************************************************************************)
(* CodexIntegration for TLC: three requests, one more than are expected,   *)
(* each the first or the second of the script (both advertise the tool) or *)
(* broken.                                                                 *)
(***************************************************************************)
EXTENDS CodexIntegration

CONSTANTS c1, c2, c3

MCSendable ==
    {[intact |-> TRUE, advertises |-> TRUE, hasResult |-> FALSE],
     [intact |-> TRUE, advertises |-> TRUE, hasResult |-> TRUE],
     [intact |-> FALSE, advertises |-> FALSE, hasResult |-> FALSE]}
=============================================================================
