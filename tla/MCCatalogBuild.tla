--------------------------- MODULE MCCatalogBuild ---------------------------
(***************************************************************************)
(* The catalogue as it is, with the recipes in the order of their names;   *)
(* any one file may be impossible to import, or one build may fail.  And   *)
(* all graphs on three names whose lists have up to two entries, one of    *)
(* them possibly unknown, as build requirements or as runtime dependencies.*)
(***************************************************************************)
EXTENDS CatalogBuild, RecipeCatalog

MCSorted == <<
    "a", "b", "c",
    "abseil-cpp", "apache2", "apr", "apr-util", "atk", "autoconf", "bash",
    "bind", "binutils", "bsdtar", "ca-certificates", "cairo", "cmake",
    "codex", "codex-app-server", "codex-cli", "codex-code-mode-host",
    "coreutils", "curl", "dialog", "diffutils", "dropbear", "e2fsprogs",
    "expat", "fontconfig", "fribidi", "gawk", "gcc", "gdbm", "gettext",
    "git", "git-lfs", "glib", "gnumake", "go", "grep", "gzip", "harfbuzz",
    "inetutils", "less", "libffi", "libfreetype", "libgmp", "libiconv",
    "libmpc", "libmpfr", "libpcre", "libpcre2", "libpipeline", "libpng",
    "libtool", "lua", "lynx", "m4", "man-db", "mandoc", "mesa", "mtools",
    "musl", "nano", "nasm", "ncurses", "openssh-client",
    "openssh-sftp-server", "openssl", "pango", "patch", "perl", "pixman",
    "protobuf", "pup", "python3", "readline", "ripgrep", "rust", "sdl2",
    "sed", "slang", "sqlite", "v8", "vim", "vttest", "wget", "zlib">>

\* Any file may be the one that cannot be imported.
MCUnloadable == {FileOf(n) : n \in DOMAIN Recipes}

MCLists ==
    {<<>>} \cup {<<n>> : n \in {"a", "b", "c", "ghost"}}
    \cup {<<m, n>> : m, n \in {"a", "b", "c"}}

MCGraphs ==
    UNION {{[n \in {"a", "b", "c"} |-> [Plain EXCEPT !.requires = g[n]]],
            [n \in {"a", "b", "c"} |-> [Plain EXCEPT !.installs = g[n]]]} :
              g \in [{"a", "b", "c"} -> MCLists]}

MCSelections == {<<>>, <<"b">>, <<"c", "a">>, <<"ghost">>}
=============================================================================
