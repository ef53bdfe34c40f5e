---------------------------- MODULE MCPortCache ----------------------------
(***************************************************************************)
(* PortCache for one component and two checkouts with different toolchains,*)
(* patches and locks, and the same headers.  The archives do not have the  *)
(* same files, so that some of one are left under the other.               *)
(***************************************************************************)
EXTENDS PortCache, TLC

MCComponents == {"app-server"}
MCCheckouts == 1..2
MCStamp ==
    [t \in {"component", "prefix", "headers"} \cup MCComponents |->
        [k \in MCCheckouts |->
            CASE t = "headers" -> 5 [] t = "app-server" -> 2 + k [] OTHER -> k]]
MCFilesOf ==
    [s \in 1..5 |->
        CASE s = 3 -> {"a", "b"} [] s \in {1, 5} -> {"a"} [] s \in {2, 4} -> {"b"}]
MCLock == [c \in MCComponents |-> [k \in MCCheckouts |-> 10 + k]]
MCCratesOf == (11 :> {"tokio"}) @@ (12 :> {"tokio", "tui"})
=============================================================================
