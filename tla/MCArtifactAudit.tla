--------------------------- MODULE MCArtifactAudit ---------------------------
(***************************************************************************)
(* Roots and archives to audit: a package "tool" whose root varies, and    *)
(* "lib" after it in the selection.  Payloads are changed after the build, *)
(* the roots that vary in a link or in the format of a file are not.       *)
(***************************************************************************)
EXTENDS ArtifactAudit

NoElf == [machines |-> <<>>, types |-> {}, soname |-> <<>>, needed |-> <<>>,
          paths |-> <<>>, stack |-> None, interps |-> <<>>]
NoLa == [leaks |-> FALSE, deps |-> <<>>, paths |-> {}]
Plain == [magic |-> "other", suffix |-> None, elf |-> NoElf, la |-> NoLa,
          words |-> <<>>, leaks |-> FALSE]
Other == [Plain EXCEPT !.suffix = "conf"]

Dir == [kind |-> "directory", mode |-> "x", data |-> None, target |-> None]
File(data, mode) == [kind |-> "file", mode |-> mode, data |-> data, target |-> None]
Rel(parts) == [base |-> "rel", parts |-> parts]
Abs(parts) == [base |-> "abs", parts |-> parts]
Link(target) == [kind |-> "symlink", mode |-> "x", data |-> None, target |-> target]

usr == <<"usr">>
d == <<"usr", "d">>
f == <<"usr", "d", "f">>
g == <<"usr", "g">>

\* The trees of the runs about payloads: a file below a directory, and
\* beside them a file, a second name of the first file, or a link.
Tree(entry) == (usr :> Dir) @@ (d :> Dir) @@ (f :> File(Plain, "r")) @@ (g :> entry)
PayloadStages ==
    {[tree |-> Tree(File(data, mode)), twins |-> {}] :
        data \in {Plain, Other}, mode \in {"r", "x"}}
    \cup {[tree |-> Tree(File(Plain, mode)), twins |-> {}] :
        mode \in {"setid", "readonly", "others"}}
    \cup {[tree |-> Tree(File(Plain, "r")), twins |-> {{f, g}}],
          [tree |-> Tree(Link(Rel(<<"d", "f">>))), twins |-> {}],
          [tree |-> Tree(Link(Rel(<<"d", "..", "g">>))), twins |-> {}],
          [tree |-> Tree(Link(Abs(<<"usr", "d">>))), twins |-> {}],
          [tree |-> Tree([Dir EXCEPT !.mode = "r"]), twins |-> {}]}

MemberOf(name, type, mode, data, target, link) ==
    [name |-> name, type |-> type, link |-> link, mode |-> mode, data |-> data,
     target |-> target, owner |-> "root"]
PayloadStrangers ==
    {MemberOf(name, "file", mode, data, None, <<>>) :
        name \in {f, g}, mode \in {"r", "x"}, data \in {Plain, Other}}
    \cup {MemberOf(g, "link", mode, None, None, f) : mode \in {"r", "x"}}
    \cup {MemberOf(g, "link", "r", None, None, <<"usr", "s">>),
          MemberOf(f, "file", "r", Plain, None, <<>>) @@ [owner |-> "root"],
          [MemberOf(f, "file", "r", Plain, None, <<>>) EXCEPT !.owner = "builder"],
          MemberOf(d, "symlink", "x", None, Abs(<<"etc">>), <<>>),
          MemberOf(g, "symlink", "x", None, Rel(<<"d", "f">>), <<>>),
          MemberOf(<<"usr", "..", "x">>, "file", "r", Plain, None, <<>>),
          MemberOf(<<".">>, "directory", "x", None, None, <<>>)}

\* Targets a link may have, from several places.
Targets == {Rel(<<"..", "x">>), Rel(<<"..", "..", "usr">>), Rel(<<"..", "usr", "d">>),
            Rel(<<"d", "..", "..", "etc">>), Rel(<<"..", "..", "..", "etc">>),
            Rel(<<"..">>), Rel(<<"h", "..", "x">>), Rel(<<"etc">>), Rel(<<>>),
            Rel(<<"g", "x">>), Rel(<<"..", "usr", "g", "..", "..">>), Abs(<<"usr", "g">>),
            Abs(<<"etc">>), Abs(<<"x">>), Abs(<<"usr", "..", "x">>), Abs(<<>>),
            [base |-> "build", parts |-> <<"usr">>],
            [base |-> "builddir", parts |-> <<"usr">>],
            [base |-> "host", parts |-> <<"tmp">>]}
Base == (usr :> Dir) @@ (d :> Dir)
LoneLinkStages ==
    {[tree |-> Base @@ (path :> Link(t)), twins |-> {}] :
        path \in {g, <<"usr", "d", "g">>, <<"g">>, <<"lib">>}, t \in Targets}
    \cup {[tree |-> t, twins |-> {}] :
        t \in {Base @@ (<<"usr", "man">> :> Dir), Base @@ (<<"doc">> :> Dir),
               Base @@ (<<"bin">> :> File(Plain, "r")), <<>>,
               Base @@ (g :> [Dir EXCEPT !.kind = "special"])}}

\* Links that go through links: on from them, back from them, and round.
Through == {Abs(<<"lib">>), Abs(<<"usr", "g">>), Rel(<<"g", "x">>), Rel(<<"..", "etc">>),
            Rel(<<"..", "lib", "x">>), Rel(<<"g", "..", "x">>),
            Rel(<<"..", "g", "..", "x">>), Rel(<<"..", "..", "lib", "..", "etc">>)}
ManyLinkStages ==
    {[tree |-> Base @@ (g :> Link(t)) @@ (<<"usr", "d", "h">> :> Link(u))
               @@ (<<"lib">> :> Link(v)), twins |-> {}] :
        t \in Through, u \in Through, v \in {Abs(<<"etc">>), Rel(<<"usr", "g">>)}}
(***************************************************************************)
(* Formats.                                                                *)
(***************************************************************************)

Word(kind, dir, name) == [kind |-> kind, dir |-> dir, name |-> name]
Sh == Word("path", "fhs", "sh")
Env == Word("path", "fhs", "env")
Words == {Word("path", "fhs", "perl"), Word("path", "bare", "python3"),
          Word("path", "foreign", "perl"), Word("path", "bare", "awk"),
          Word("argflag", "bare", "-u"), Word("flag", "bare", "-i"),
          Word("split", "bare", "-S"), Word("end", "bare", "--"),
          Word("assign", "bare", "A=1")}
Script(words) == [Plain EXCEPT !.magic = "script", !.words = words]
Scripts ==
    {Script(<<Sh>>), Script(<<Word("path", "foreign", "sh")>>), Script(<<Env>>),
     Script(<<Word("path", "fhs", "ruby")>>),
     [Script(<<Sh>>) EXCEPT !.leaks = TRUE]}
    \cup {Script(<<Env>> \o args) : args \in BoundedSeq(Words, 3) \ {<<>>}}

Component(base, parts) == [base |-> base, parts |-> parts]
Components ==
    {Component("origin", parts) : parts \in BoundedSeq({"..", "lib", "x", "."}, 3)}
    \cup {Component("abs", <<"usr", "lib">>), Component("abs", <<"lib", "..", "x">>),
          Component("abs", <<"opt", "lib">>), Component("abs", <<"lib64", "x">>),
          Component("build", <<"usr", "lib">>), Component("rel", <<"lib">>)}
Elfs ==
    {[NoElf EXCEPT !.machines = <<"target">>, !.types = {"DYN"}, !.soname = <<"lib">>,
                   !.paths = <<c>>] : c \in Components}
    \cup {[NoElf EXCEPT !.machines = <<"target">>, !.types = {type}, !.needed = needed,
                        !.interps = interps, !.stack = stack, !.soname = soname] :
            type \in {"DYN", "EXEC", "REL"}, needed \in {<<>>, <<"safe">>, <<"unsafe">>},
            interps \in {<<>>, <<"musl">>, <<"glibc">>, <<"musl", "musl">>},
            stack \in {None, "executable"},
            soname \in {<<>>, <<"safe">>, <<"safe", "safe">>}}
    \cup {[NoElf EXCEPT !.machines = machines, !.types = {"REL"}] :
            machines \in {<<>>, <<"target", "foreign">>}}
Binaries == {[Plain EXCEPT !.magic = "elf", !.elf = elf, !.suffix = suffix] :
                elf \in Elfs, suffix \in {None, "so"}}
Archives == {[Plain EXCEPT !.magic = magic, !.elf.machines = machines, !.suffix = suffix] :
                magic \in {"ar", "thin", "host", "other"},
                machines \in {<<>>, <<"target">>, <<"foreign">>},
                suffix \in {None, "a", "exe"}}
Libtools == {[Plain EXCEPT !.suffix = "la", !.leaks = leaks,
                           !.la = [leaks |-> leaks, deps |-> deps, paths |-> paths]] :
                leaks \in BOOLEAN,
                deps \in {<<tokens>> : tokens \in
                              BoundedSeq({"-L", "-L/", "/", "="}, 3)}
                         \cup {<<>>, <<<<>>, <<>>>>, <<<<"unparsed">>>>},
                paths \in SUBSET {"target", "host"}}

FormatStages ==
    {[tree |-> (usr :> Dir) @@ (<<"usr", "lib">> :> Dir)
               @@ (<<"usr", "lib", "x">> :> File(data, mode)), twins |-> {}] :
        data \in Scripts \cup Binaries \cup Archives \cup Libtools, mode \in {"r", "x"}}
    \cup {[tree |-> (usr :> Dir) @@ (<<"usr", "share">> :> Dir)
               @@ (<<"usr", "share", "doc">> :> Dir)
               @@ (<<"usr", "share", "doc", "x">> :> File(Script(<<Env>>), "x")),
           twins |-> {}]}

(***************************************************************************)
(* Constants.                                                              *)
(***************************************************************************)

MCPackages == <<"tool", "lib">>
MCDepends == [p \in {"tool", "lib"} |-> {"perl"}]
Small == (usr :> Dir) @@ (g :> File(Plain, "r"))
MCStagings ==
    {"tool" :> staged @@ "lib" :> [tree |-> Small, twins |-> {}] :
        staged \in PayloadStages \cup LoneLinkStages \cup ManyLinkStages
                   \cup FormatStages}
MCAccidents == {"members", "torn", "marker"}
=============================================================================
