------------------------- MODULE MCPackagePublication -------------------------
(***************************************************************************)
(* PackagePublication for TLC: a wave of a library and of a program that   *)
(* needs it, a new version of the library, and rivals for one version.     *)
(***************************************************************************)
EXTENDS PackagePublication, TLC

CONSTANTS r1, r2, c1, c2, lib1, lib2, app1

MCFullnames == {lib1, lib2, app1}
MCContents == {"lib-1", "lib-2", "app-1"}
MCDigests == {"d-lib-1", "d-lib-2", "d-app-1"}
MCSha1 == "lib-1" :> "d-lib-1" @@ "lib-2" :> "d-lib-2" @@ "app-1" :> "d-app-1"
MCSize == "lib-1" :> 7 @@ "lib-2" :> 7 @@ "app-1" :> 8
MCDepLists == {<<>>, <<"lib">>}
MCNoDeps == <<>>
MCNameOf == lib1 :> "lib" @@ lib2 :> "lib" @@ app1 :> "app"
MCRank == lib1 :> 1 @@ lib2 :> 2 @@ app1 :> 1
MCKeysOf == <<>> :> {} @@ <<"lib">> :> {"lib"}

FormFor(n, bytes, deps) ==
    [authorised |-> TRUE, files |-> "one", complete |-> TRUE,
     fullname |-> n, bytes |-> bytes, sha1 |-> MCSha1[bytes], dependencies |-> deps]

FormLib1 == FormFor(lib1, "lib-1", <<>>)
FormLib2 == FormFor(lib2, "lib-2", <<>>)
FormApp1 == FormFor(app1, "app-1", <<"lib">>)

\* A wave, a new version of its library, and rivals that publish other bytes
\* or other dependencies under the same names.
MCWaves ==
    {<<FormLib1, FormApp1>>, <<FormLib2>>,
     <<FormFor(lib1, "lib-2", <<>>)>>, <<FormFor(app1, "app-1", <<>>)>>}
MCForms == UNION {Range(w) : w \in MCWaves}

PublisherSymmetry == Permutations(Publishers)

NoLegacy == [n \in {} |-> n]
=============================================================================
