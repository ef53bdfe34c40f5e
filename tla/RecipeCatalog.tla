---------------------------- MODULE RecipeCatalog ----------------------------
(***************************************************************************)
(* The recipes of packages/, one record each: what its methods             *)
(* build_requires and install_deps return, and what the options of its     *)
(* configure, build and deploy steps, with the checks of postdeploy, say   *)
(* of the files it takes, installs and calls.                              *)
(*                                                                         *)
(*   links    libraries it is linked with: the ones its options name, and  *)
(*            those configure is left to find in the sysroot of its        *)
(*            requirements; an option that turns a library off removes it  *)
(*   reads    other files of its sysroot that its steps name               *)
(*   shared   libraries it installs as shared objects                      *)
(*   static   libraries it installs as archives                            *)
(*   files    programs and data it installs that other recipes name        *)
(*   scripts  providers of the interpreters of its executable scripts,      *)
(*            other than sh                                                *)
(*   runs     programs and data that what it installs uses when it runs    *)
(***************************************************************************)
EXTENDS TLC

Plain ==
    [requires |-> <<>>, installs |-> <<>>, links |-> {}, reads |-> {},
     shared |-> {}, static |-> {}, files |-> {}, scripts |-> {}, runs |-> {}]

CaBundle == "/etc/ssl/cert.pem"

-----------------------------------------------------------------------------
(* Libraries.                                                              *)

Zlib == [shared |-> {"z"}, static |-> {"z"}] @@ Plain
Expat == [shared |-> {"expat"}, static |-> {"expat"}] @@ Plain
Libffi == [shared |-> {"ffi"}, static |-> {"ffi"}] @@ Plain
Gdbm == [shared |-> {"gdbm"}, static |-> {"gdbm"}] @@ Plain
Sqlite == [shared |-> {"sqlite3"}, static |-> {"sqlite3"}] @@ Plain
Fribidi == [shared |-> {"fribidi"}, static |-> {"fribidi"}] @@ Plain
Pixman == [shared |-> {"pixman"}, static |-> {"pixman"}] @@ Plain
Libpipeline == [shared |-> {"pipeline"}, static |-> {"pipeline"}] @@ Plain
Libpcre == [shared |-> {"pcre"}, static |-> {"pcre"}] @@ Plain
Libpcre2 ==
    [shared |-> {"pcre2"}, static |-> {"pcre2"},
     files |-> {"pcre2-config"}] @@ Plain
AbseilCpp == [shared |-> {"absl"}] @@ Plain
E2fsprogs == [shared |-> {"ext2fs"}, static |-> {"ext2fs"}] @@ Plain
Mesa == [shared |-> {"OSMesa"}] @@ Plain
Musl == [shared |-> {"c"}, static |-> {"c"}] @@ Plain
Lua == [static |-> {"lua"}, files |-> {"lua"}] @@ Plain
V8 == [static |-> {"v8"}] @@ Plain

\* --disable-shared: what is linked with these needs nothing at run time.
Libiconv == [static |-> {"iconv"}] @@ Plain

Gettext == [static |-> {"intl"}] @@ Plain
Libtool == [static |-> {"ltdl"}] @@ Plain

\* The wide build with its terminfo half in a library of its own.
Ncurses ==
    [shared |-> {"ncursesw", "tinfow"},
     static |-> {"ncursesw", "tinfow"}] @@ Plain
Readline ==
    [requires |-> <<"ncurses">>, installs |-> <<"ncurses">>,
     links |-> {"ncursesw", "tinfow"},
     shared |-> {"readline"}, static |-> {"readline"}] @@ Plain
Slang ==
    [requires |-> <<"ncurses">>, installs |-> <<"ncurses">>,
     shared |-> {"slang"}, static |-> {"slang"}, files |-> {"slsh"}] @@ Plain

Libgmp == [shared |-> {"gmp"}, static |-> {"gmp"}] @@ Plain
Libmpfr ==
    [requires |-> <<"libgmp">>, installs |-> <<"libgmp">>,
     links |-> {"gmp"}, shared |-> {"mpfr"}, static |-> {"mpfr"}] @@ Plain
Libmpc ==
    [requires |-> <<"libgmp", "libmpfr">>,
     installs |-> <<"libgmp", "libmpfr">>,
     links |-> {"gmp", "mpfr"},
     shared |-> {"mpc"}, static |-> {"mpc"}] @@ Plain

Libpng ==
    [requires |-> <<"zlib">>, installs |-> <<"zlib">>, links |-> {"z"},
     shared |-> {"png"}, static |-> {"png"}] @@ Plain
Libfreetype ==
    [requires |-> <<"zlib", "libpng">>, installs |-> <<"zlib", "libpng">>,
     links |-> {"z", "png"},
     shared |-> {"freetype"}, static |-> {"freetype"}] @@ Plain
Fontconfig ==
    [requires |-> <<"expat", "libfreetype">>,
     installs |-> <<"expat", "libfreetype">>,
     links |-> {"expat", "freetype"},
     shared |-> {"fontconfig"}, static |-> {"fontconfig"}] @@ Plain
Glib ==
    [requires |-> <<"libffi", "libpcre2", "zlib">>,
     installs |-> <<"libffi", "libpcre2", "zlib", "python3">>,
     links |-> {"ffi", "pcre2", "z"}, scripts |-> {"python3"},
     shared |-> {"glib"}, static |-> {"glib"}] @@ Plain
Atk ==
    [requires |-> <<"glib">>, installs |-> <<"glib">>, links |-> {"glib"},
     shared |-> {"atk"}, static |-> {"atk"}] @@ Plain
Cairo ==
    [requires |-> <<"libpng", "zlib", "libfreetype", "fontconfig", "pixman",
                    "glib">>,
     installs |-> <<"libpng", "zlib", "libfreetype", "fontconfig", "pixman",
                    "glib">>,
     links |-> {"png", "z", "freetype", "fontconfig", "pixman", "glib"},
     shared |-> {"cairo"}, static |-> {"cairo"}] @@ Plain
Harfbuzz ==
    [requires |-> <<"glib", "libfreetype", "cairo", "libpng", "zlib">>,
     installs |-> <<"glib", "libfreetype", "cairo", "libpng", "zlib">>,
     links |-> {"glib", "freetype", "cairo", "png", "z"},
     shared |-> {"harfbuzz"}, static |-> {"harfbuzz"}] @@ Plain
Pango ==
    [requires |-> <<"glib", "harfbuzz", "libfreetype", "cairo", "fontconfig",
                    "fribidi">>,
     installs |-> <<"glib", "harfbuzz", "libfreetype", "cairo", "fontconfig",
                    "fribidi">>,
     links |-> {"glib", "harfbuzz", "freetype", "cairo", "fontconfig",
                "fribidi"},
     shared |-> {"pango"}, static |-> {"pango"}] @@ Plain
Protobuf ==
    [requires |-> <<"abseil-cpp">>, installs |-> <<"abseil-cpp">>,
     links |-> {"absl"}, shared |-> {"protobuf"}] @@ Plain
\* sdl2-config filters its options with sed.
Sdl2 ==
    [installs |-> <<"sed">>, static |-> {"SDL2"}, runs |-> {"sed"}] @@ Plain

CaCertificates == [files |-> {CaBundle}] @@ Plain
Openssl ==
    [requires |-> <<"zlib">>, installs |-> <<"zlib", "perl">>,
     links |-> {"z"}, scripts |-> {"perl"},
     shared |-> {"ssl"}, static |-> {"ssl"}] @@ Plain
Curl ==
    [requires |-> <<"ca-certificates", "zlib", "openssl">>,
     installs |-> <<"ca-certificates", "zlib", "openssl">>,
     links |-> {"z", "ssl"}, runs |-> {CaBundle},
     shared |-> {"curl"}, static |-> {"curl"},
     files |-> {"curl-config"}] @@ Plain

\* Apache's portable runtime hands on the libtool it was built with.
Apr ==
    [installs |-> <<"sed">>, runs |-> {"sed"},
     shared |-> {"apr"}, static |-> {"apr"},
     files |-> {"apr-1-config", "apr-1/build/libtool"}] @@ Plain
AprUtil ==
    [requires |-> <<"apr", "expat">>, installs |-> <<"apr", "expat", "sed">>,
     links |-> {"apr", "expat"},
     reads |-> {"apr-1-config", "apr-1/build/libtool"}, runs |-> {"sed"},
     shared |-> {"aprutil"}, static |-> {"aprutil"},
     files |-> {"apu-1-config"}] @@ Plain
-----------------------------------------------------------------------------
(* The base image: bash and coreutils, which supply sh, env and the basic  *)
(* utilities.                                                              *)

Bash ==
    [requires |-> <<"readline", "libiconv", "gettext">>,
     installs |-> <<"readline">>,
     links |-> {"tinfow", "readline", "iconv", "intl"},
     files |-> {"sh"}] @@ Plain
Coreutils ==
    [requires |-> <<"gettext", "libgmp">>, installs |-> <<"libgmp">>,
     links |-> {"intl", "gmp"}, files |-> {"env", "cat", "tr"}] @@ Plain

-----------------------------------------------------------------------------
(* Programs.                                                               *)

Gzip == [files |-> {"gzip"}] @@ Plain
Mtools == Plain
Nasm == Plain
Patch == Plain
Vttest == Plain
Gnumake == Plain
Ripgrep == Plain
OpensshSftpServer == [files |-> {"sftp-server"}] @@ Plain
Perl ==
    [shared |-> {"perl"}, files |-> {"perl"}, scripts |-> {"perl"}] @@ Plain
Autoconf ==
    [installs |-> <<"m4", "perl">>, scripts |-> {"perl"},
     runs |-> {"m4"}] @@ Plain
Diffutils == [requires |-> <<"gettext">>, links |-> {"intl"}] @@ Plain
Gawk ==
    [requires |-> <<"gettext">>, links |-> {"intl"}, files |-> {"awk"},
     scripts |-> {"gawk"}] @@ Plain
Grep ==
    [requires |-> <<"gettext", "libiconv">>, links |-> {"intl", "iconv"},
     files |-> {"grep"}] @@ Plain
M4 ==
    [requires |-> <<"gettext", "libiconv">>, links |-> {"intl", "iconv"},
     files |-> {"m4"}] @@ Plain
Sed ==
    [requires |-> <<"gettext", "libiconv">>, links |-> {"intl", "iconv"},
     files |-> {"sed"}] @@ Plain
Inetutils ==
    [requires |-> <<"readline">>, installs |-> <<"readline">>,
     links |-> {"readline"}] @@ Plain
Dialog ==
    [requires |-> <<"ncurses">>, installs |-> <<"ncurses">>,
     links |-> {"ncursesw", "tinfow"}, shared |-> {"dialog"}] @@ Plain
Less ==
    [requires |-> <<"gettext", "ncurses">>, installs |-> <<"ncurses">>,
     links |-> {"ncursesw", "tinfow"}, files |-> {"less"}] @@ Plain
Nano ==
    [requires |-> <<"gettext", "libiconv", "ncurses">>,
     installs |-> <<"ncurses">>,
     links |-> {"intl", "iconv", "ncursesw", "tinfow"}] @@ Plain
Vim ==
    [requires |-> <<"ncurses">>, installs |-> <<"ncurses", "perl">>,
     links |-> {"tinfow"}, scripts |-> {"perl"}] @@ Plain

\* The formatter of man pages, and man itself, with the programs it is
\* configured to call.
Mandoc ==
    [requires |-> <<"zlib">>, installs |-> <<"less", "zlib">>,
     links |-> {"z"}, files |-> {"mandoc"}, runs |-> {"less"}] @@ Plain

\* Mutant: nothing installs the programs man calls.
ManDbLibrariesOnly ==
    [requires |-> <<"gdbm", "libpipeline", "mandoc", "zlib">>,
     installs |-> <<"gdbm", "libpipeline", "mandoc", "zlib">>,
     links |-> {"gdbm", "pipeline", "z"},
     runs |-> {"mandoc", "less", "gzip", "grep", "cat", "tr"}] @@ Plain

ManDb ==
    [requires |-> <<"gdbm", "libpipeline", "mandoc", "zlib">>,
     installs |-> <<"gdbm", "grep", "gzip", "less", "libpipeline", "mandoc",
                    "zlib">>,
     links |-> {"gdbm", "pipeline", "z"},
     runs |-> {"mandoc", "less", "gzip", "grep", "cat", "tr"}] @@ Plain

Bind ==
    [requires |-> <<"zlib">>, installs |-> <<"zlib">>,
     links |-> {"z"}] @@ Plain
Bsdtar ==
    [requires |-> <<"zlib", "openssl", "expat">>,
     installs |-> <<"zlib", "openssl", "expat">>,
     links |-> {"z", "ssl", "expat"},
     shared |-> {"archive"}, static |-> {"archive"}] @@ Plain
Cmake ==
    [requires |-> <<"ca-certificates", "openssl">>,
     installs |-> <<"ca-certificates", "openssl">>,
     links |-> {"ssl"}, runs |-> {CaBundle}] @@ Plain
Dropbear ==
    [requires |-> <<"zlib">>, installs |-> <<"zlib", "openssh-sftp-server">>,
     links |-> {"z"}, runs |-> {"sftp-server"}] @@ Plain
OpensshClient ==
    [requires |-> <<"openssl", "zlib">>, installs |-> <<"openssl", "zlib">>,
     links |-> {"ssl", "z"}] @@ Plain
Lynx ==
    [requires |-> <<"ca-certificates", "ncurses", "openssl", "zlib">>,
     installs |-> <<"ca-certificates", "ncurses", "openssl", "zlib">>,
     links |-> {"ncursesw", "tinfow", "ssl", "z"},
     runs |-> {CaBundle}] @@ Plain
Wget ==
    [requires |-> <<"ca-certificates", "openssl", "zlib">>,
     installs |-> <<"ca-certificates", "openssl", "zlib">>,
     links |-> {"ssl", "z"}, runs |-> {CaBundle}] @@ Plain
\* make is told the curl-config of the sysroot.
Git ==
    [requires |-> <<"zlib", "libiconv", "curl", "openssl", "expat">>,
     installs |-> <<"zlib", "libiconv", "curl", "openssl", "expat">>,
     links |-> {"z", "iconv", "curl", "ssl", "expat"},
     reads |-> {"curl-config"}, files |-> {"git"}] @@ Plain
GitLfs ==
    [installs |-> <<"git", "ca-certificates", "dropbear">>,
     runs |-> {"git", CaBundle}] @@ Plain
\* Mutant: the configured pcre2-config belongs to nothing it requires.
Apache2NoPcre ==
    [requires |-> <<"apr", "apr-util", "expat">>,
     installs |-> <<"apr", "apr-util", "expat", "libpcre2">>,
     links |-> {"apr", "aprutil", "expat", "pcre2"},
     reads |-> {"apr-1-config", "apu-1-config", "pcre2-config",
                "apr-1/build/libtool"}] @@ Plain

\* An absolute config script for each of its libraries, and apr's libtool.
Apache2 ==
    [requires |-> <<"apr", "apr-util", "expat", "libpcre2">>,
     installs |-> <<"apr", "apr-util", "expat", "libpcre2">>,
     links |-> {"apr", "aprutil", "expat", "pcre2"},
     reads |-> {"apr-1-config", "apu-1-config", "pcre2-config",
                "apr-1/build/libtool"}] @@ Plain

-----------------------------------------------------------------------------
(* Compilers, languages and their programs.                                *)

Binutils ==
    [requires |-> <<"zlib">>, installs |-> <<"zlib">>, links |-> {"z"},
     files |-> {"as", "ld"}] @@ Plain
\* The driver calls /usr/bin/as and /usr/bin/ld.
Gcc ==
    [requires |-> <<"binutils", "libgmp", "libmpfr", "libmpc", "zlib">>,
     installs |-> <<"binutils", "libgmp", "libmpfr", "libmpc", "zlib">>,
     links |-> {"gmp", "mpfr", "mpc", "z"},
     shared |-> {"gcc_s", "stdc++"}, runs |-> {"as", "ld"}] @@ Plain
Python3 ==
    [requires |-> <<"ca-certificates", "gdbm", "libffi", "ncurses",
                    "openssl", "readline", "sqlite", "zlib">>,
     installs |-> <<"ca-certificates", "gdbm", "libffi", "ncurses",
                    "openssl", "readline", "sqlite", "zlib">>,
     links |-> {"gdbm", "ffi", "ncursesw", "tinfow", "ssl", "readline",
                "sqlite3", "z"},
     runs |-> {CaBundle}, shared |-> {"python3"}, files |-> {"python3"},
     scripts |-> {"python3"}] @@ Plain
Pup ==
    [requires |-> <<"ca-certificates", "python3">>,
     installs |-> <<"ca-certificates", "python3">>,
     scripts |-> {"python3"}, runs |-> {"python3", CaBundle}] @@ Plain
Go == [installs |-> <<"ca-certificates">>, runs |-> {CaBundle}] @@ Plain
Rust ==
    [requires |-> <<"ca-certificates">>, installs |-> <<"ca-certificates">>,
     runs |-> {CaBundle}] @@ Plain

CodexAppServer ==
    [installs |-> <<"ca-certificates">>, runs |-> {CaBundle}] @@ Plain
CodexCli ==
    [installs |-> <<"ca-certificates">>, runs |-> {CaBundle},
     files |-> {"usr/libexec/codex"}] @@ Plain
CodexCodeModeHost ==
    [installs |-> <<"ca-certificates">>, runs |-> {CaBundle},
     files |-> {"usr/libexec/codex-code-mode-host"}] @@ Plain
\* Its deploy merges the roots of the two into one payload.
Codex ==
    [requires |-> <<"codex-cli", "codex-code-mode-host">>,
     installs |-> <<"ca-certificates">>, runs |-> {CaBundle},
     reads |-> {"usr/libexec/codex",
                "usr/libexec/codex-code-mode-host"}] @@ Plain

-----------------------------------------------------------------------------
\* Every recipe that is not disabled, by the name it gives itself.
Recipes ==
    "abseil-cpp" :> AbseilCpp @@ "apache2" :> Apache2 @@ "apr" :> Apr @@
    "apr-util" :> AprUtil @@ "atk" :> Atk @@ "autoconf" :> Autoconf @@
    "bash" :> Bash @@ "bind" :> Bind @@ "binutils" :> Binutils @@
    "bsdtar" :> Bsdtar @@ "ca-certificates" :> CaCertificates @@
    "cairo" :> Cairo @@ "cmake" :> Cmake @@ "codex" :> Codex @@
    "codex-app-server" :> CodexAppServer @@ "codex-cli" :> CodexCli @@
    "codex-code-mode-host" :> CodexCodeModeHost @@
    "coreutils" :> Coreutils @@ "curl" :> Curl @@ "dialog" :> Dialog @@
    "diffutils" :> Diffutils @@ "dropbear" :> Dropbear @@
    "e2fsprogs" :> E2fsprogs @@ "expat" :> Expat @@
    "fontconfig" :> Fontconfig @@ "fribidi" :> Fribidi @@ "gawk" :> Gawk @@
    "gcc" :> Gcc @@ "gdbm" :> Gdbm @@ "gettext" :> Gettext @@
    "git" :> Git @@ "git-lfs" :> GitLfs @@ "glib" :> Glib @@
    "gnumake" :> Gnumake @@ "go" :> Go @@ "grep" :> Grep @@
    "gzip" :> Gzip @@ "harfbuzz" :> Harfbuzz @@ "inetutils" :> Inetutils @@
    "less" :> Less @@ "libffi" :> Libffi @@ "libfreetype" :> Libfreetype @@
    "libgmp" :> Libgmp @@ "libiconv" :> Libiconv @@ "libmpc" :> Libmpc @@
    "libmpfr" :> Libmpfr @@ "libpcre" :> Libpcre @@
    "libpcre2" :> Libpcre2 @@ "libpipeline" :> Libpipeline @@
    "libpng" :> Libpng @@ "libtool" :> Libtool @@ "lua" :> Lua @@
    "lynx" :> Lynx @@ "m4" :> M4 @@ "man-db" :> ManDb @@
    "mandoc" :> Mandoc @@ "mesa" :> Mesa @@ "mtools" :> Mtools @@
    "musl" :> Musl @@ "nano" :> Nano @@ "nasm" :> Nasm @@
    "ncurses" :> Ncurses @@ "openssh-client" :> OpensshClient @@
    "openssh-sftp-server" :> OpensshSftpServer @@ "openssl" :> Openssl @@
    "pango" :> Pango @@ "patch" :> Patch @@ "perl" :> Perl @@
    "pixman" :> Pixman @@ "protobuf" :> Protobuf @@ "pup" :> Pup @@
    "python3" :> Python3 @@ "readline" :> Readline @@
    "ripgrep" :> Ripgrep @@ "rust" :> Rust @@ "sdl2" :> Sdl2 @@
    "sed" :> Sed @@ "slang" :> Slang @@ "sqlite" :> Sqlite @@ "v8" :> V8 @@
    "vim" :> Vim @@ "vttest" :> Vttest @@ "wget" :> Wget @@ "zlib" :> Zlib
=============================================================================
