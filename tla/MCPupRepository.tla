--------------------------- MODULE MCPupRepository ---------------------------
(***************************************************************************)
(* PupRepository for TLC: one name that is new and one that a legacy       *)
(* package has, two archives of the same size, two dependency lists, and   *)
(* the forms that lead to each outcome.                                    *)
(***************************************************************************)
EXTENDS PupRepository, TLC

CONSTANTS r1, r2, new, old

MCFullnames == {new, old}
MCContents == {"zlib-a", "zlib-b", "zlib-c"}
\* d0 is the digest of no archive.
MCDigests == {"da", "db", "dc", "d0"}
MCSha1 == "zlib-a" :> "da" @@ "zlib-b" :> "db" @@ "zlib-c" :> "dc"
MCSize == "zlib-a" :> 7 @@ "zlib-b" :> 7 @@ "zlib-c" :> 8
MCDepLists == {<<>>, <<"gcc">>}
MCNoDeps == <<>>
MCLegacy == old :> [bytes |-> "zlib-a", dependencies |-> <<"gcc">>]

Upload(n, bytes, sha1, deps) ==
    [authorised |-> TRUE, files |-> "one", complete |-> TRUE,
     fullname |-> n, bytes |-> bytes, sha1 |-> sha1, dependencies |-> deps]

\* Uploads that are well formed: the same package again, with other contents,
\* with other dependencies, with a SHA-1 that is not the archive's.
GoodForms ==
    {Upload(new, "zlib-a", "da", Absent),
     Upload(new, "zlib-a", "da", <<"gcc">>),
     Upload(new, "zlib-b", "db", <<>>),
     Upload(new, "zlib-b", "da", <<>>),
     Upload(old, "zlib-a", "da", Absent),
     Upload(old, "zlib-b", "db", Absent),
     Upload(old, "zlib-b", "da", <<"gcc">>),
     Upload(old, "zlib-c", "da", <<"gcc">>)}

\* Requests that are refused before the repository is asked anything.
BadForms ==
    LET good == Upload(new, "zlib-a", "da", <<>>) IN
    {[good EXCEPT !.authorised = FALSE], [good EXCEPT !.complete = FALSE],
     [good EXCEPT !.dependencies = Malformed]}
    \cup {[good EXCEPT !.files = f] : f \in {"none", "several", "unreadable"}}

AllForms == GoodForms \cup BadForms
=============================================================================
