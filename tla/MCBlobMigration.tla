--------------------------- MODULE MCBlobMigration ---------------------------
(***************************************************************************)
(* BlobMigration for TLC: two legacy packages, each mirrored already or    *)
(* not, a new name, and uploads while the migration runs, is killed and is *)
(* started again.                                                          *)
(***************************************************************************)
EXTENDS BlobMigration, TLC

CONSTANTS r1, new, old, old2

MCFullnames == {new, old, old2}
MCContents == {"zlib-a", "zlib-b"}
MCDigests == {"da", "db"}
MCSha1 == "zlib-a" :> "da" @@ "zlib-b" :> "db"
\* The two archives have one size, so that only a digest tells them apart.
MCSize == "zlib-a" :> 7 @@ "zlib-b" :> 7
MCDepLists == {<<>>, <<"gcc">>}
MCNoDeps == <<>>
MCLegacy == [n \in {old, old2} |-> [bytes |-> "zlib-a", dependencies |-> <<"gcc">>]]

Upload(n, bytes, sha1) ==
    [authorised |-> TRUE, files |-> "one", complete |-> TRUE,
     fullname |-> n, bytes |-> bytes, sha1 |-> sha1, dependencies |-> Absent]

\* A new package, the legacy one again, and the legacy one with other bytes.
MCForms ==
    {Upload(new, "zlib-b", "db"), Upload(old, "zlib-a", "da"),
     Upload(old, "zlib-b", "db")}
=============================================================================
