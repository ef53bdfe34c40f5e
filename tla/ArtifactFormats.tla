--------------------------- MODULE ArtifactFormats ---------------------------
(***************************************************************************)
(* What one file of a package root may be, according to support/audit.py   *)
(* and to the check of support/buildsystem.py that runs before a root is   *)
(* packed: executable scripts, ELF files, ar archives, libtool metadata.   *)
(*                                                                         *)
(* A path is the sequence of its parts.  The contents of a file are        *)
(* abstracted to what the checks read from it; names and paths inside it   *)
(* are records of the features the code looks at.                          *)
(***************************************************************************)
EXTENDS Integers, Sequences

CONSTANT None

LibraryRoots == {"lib", "lib64"}

InRuntimeTree(parts) ==
    /\ parts # <<>>
    /\ \/ parts[1] \in LibraryRoots
       \/ /\ Len(parts) > 1
          /\ parts[1] = "usr" /\ parts[2] \in LibraryRoots

DirOf(path) == SubSeq(path, 1, Len(path) - 1)

(***************************************************************************)
(* Scripts.  A word of a #! line is [kind, dir, name]: a "path" whose      *)
(* directory is FHS, foreign or absent ("bare"); "flag", an option of env; *)
(* "argflag", one that takes the next word; "split" (-S); "end" (--);      *)
(* "assign" (NAME=VALUE).                                                  *)
(***************************************************************************)

BaseInterpreters == {"bash", "sh"}

ProviderOf ==
    [awk |-> "gawk", gawk |-> "gawk", lua |-> "lua", perl |-> "perl",
     python |-> "python3", python3 |-> "python3", slsh |-> "slang",
     python3_minor |-> "python3"]

\* Mutant: the argument of -u and -C is not skipped.
AfterWordNoArgument(before, word) ==
    CASE before = "argument" -> "word"
      [] before \in {"command", "found"} -> "found"
      [] before = "word" /\ word.kind \in {"end", "split"} -> "command"
      [] before = "word" /\ word.kind \in {"argflag", "flag", "assign"} -> "word"
      [] OTHER -> "found"

\* What the loop over the words after env expects next: another word, the
\* argument of an option, the command, or nothing since it has found that.
AfterWord(before, word) ==
    CASE before = "argument" -> "word"
      [] before \in {"command", "found"} -> "found"
      [] before = "word" /\ word.kind \in {"end", "split"} -> "command"
      [] before = "word" /\ word.kind = "argflag" -> "argument"
      [] before = "word" /\ word.kind \in {"flag", "assign"} -> "word"
      [] OTHER -> "found"

\* The position of the command that the words after env name, Len(args) + 1
\* when they name none.
EnvCommand(args) ==
    LET scan[i \in 0 .. Len(args)] ==
          IF i = 0 THEN "word" ELSE AfterWord(scan[i - 1], args[i])
    IN  CHOOSE k \in 1 .. Len(args) + 1 :
            scan[k - 1] # "found" /\ (k \in DOMAIN args => scan[k] = "found")

\* _interpreter_name: the name, or None when it raises.
InterpreterName(words) ==
    LET args == Tail(words)
        k == EnvCommand(args)
    IN  IF words[1].kind # "path" \/ words[1].dir # "fhs" THEN None
        ELSE IF words[1].name # "env" THEN words[1].name
        ELSE IF k > Len(args) THEN None
        ELSE IF args[k].dir = "foreign" THEN None
        ELSE args[k].name

\* Does the package bring, or depend on, what its script needs?
ScriptRuntimeOk(words, name, deps) ==
    /\ words # <<>>
    /\ InterpreterName(words) # None
    /\ \/ InterpreterName(words) \in BaseInterpreters
       \/ /\ InterpreterName(words) \in DOMAIN ProviderOf
          /\ ProviderOf[InterpreterName(words)] \in {name} \cup deps

(***************************************************************************)
(* ELF.  An object is [machines: what readelf says of each header, types,  *)
(* soname, needed, paths, stack, interps].  paths is the concatenation of  *)
(* RPATH and RUNPATH, one [base, parts] per component.                     *)
(***************************************************************************)

ElfHeadersOk(elf, allowEmpty) ==
    /\ elf.machines = <<>> => allowEmpty
    /\ \A k \in DOMAIN elf.machines : elf.machines[k] = "target"

IsSharedLibrary(path, file) ==
    /\ \/ Len(path) = 2 /\ path[1] \in LibraryRoots
       \/ Len(path) = 3 /\ path[1] = "usr" /\ path[2] \in LibraryRoots
    /\ file.suffix = "so"
    /\ "DYN" \in file.elf.types

\* The loop over the parts of a relative path that the audit has in two
\* places: where they lead from dir, and whether ".." ever left the root.
AfterPart(at, part) ==
    CASE part = ".." /\ at.dir = <<>> -> [at EXCEPT !.ok = FALSE]
      [] part = ".." /\ at.dir # <<>> -> [at EXCEPT !.dir = DirOf(at.dir)]
      [] part = "." -> at
      [] OTHER -> [at EXCEPT !.dir = Append(at.dir, part)]

Resolved(dir, parts) ==
    LET walk[i \in 0 .. Len(parts)] ==
          IF i = 0 THEN [ok |-> TRUE, dir |-> dir] ELSE AfterPart(walk[i - 1], parts[i])
    IN  walk[Len(parts)]

\* Mutant: the parts of an $ORIGIN entry are not resolved.
RuntimeComponentOkLexical(dir, component) ==
    CASE component.base = "origin" ->
            /\ \A k \in DOMAIN component.parts : component.parts[k] \notin {"", "."}
            /\ InRuntimeTree(dir \o component.parts)
      [] component.base = "abs" ->
            /\ \A k \in DOMAIN component.parts :
                 component.parts[k] \notin {"", ".", ".."}
            /\ InRuntimeTree(component.parts)
      [] OTHER -> FALSE

\* _check_runtime_component, with the two tests of the whole value that
\* precede it ("build", "host") and the test for an empty entry.
RuntimeComponentOk(dir, component) ==
    CASE component.base = "origin" ->
            /\ \A k \in DOMAIN component.parts : component.parts[k] \notin {"", "."}
            /\ Resolved(dir, component.parts).ok
            /\ InRuntimeTree(Resolved(dir, component.parts).dir)
      [] component.base = "abs" ->
            /\ \A k \in DOMAIN component.parts :
                 component.parts[k] \notin {"", ".", ".."}
            /\ InRuntimeTree(component.parts)
      [] OTHER -> FALSE

\* _check_dynamic.  A dynamic name is "safe", "unsafe" or the name of a
\* library.
DynamicOk(path, file) ==
    /\ IsSharedLibrary(path, file) => file.elf.soname # <<>>
    /\ Len(file.elf.soname) <= 1
    /\ \A k \in DOMAIN file.elf.soname : file.elf.soname[k] # "unsafe"
    /\ \A k \in DOMAIN file.elf.needed : file.elf.needed[k] # "unsafe"
    /\ \A k \in DOMAIN file.elf.paths :
         RuntimeComponentOk(DirOf(path), file.elf.paths[k])

\* _check_program_headers.
ProgramHeadersOk(file, executable) ==
    LET libraryLike == file.elf.soname # <<>> \/ file.suffix = "so"
        program == "EXEC" \in file.elf.types \/ (executable /\ ~libraryLike)
    IN  \/ file.elf.types \cap {"DYN", "EXEC"} = {}
        \/ /\ file.elf.stack \notin {"executable", "malformed"}
           /\ Len(file.elf.interps) <= 1
           /\ \A k \in DOMAIN file.elf.interps : file.elf.interps[k] = "musl"
           /\ program /\ file.elf.needed # <<>> => file.elf.interps # <<>>

(***************************************************************************)
(* libtool.  Metadata is [leaks: names a build path?, deps: the            *)
(* assignments to dependency_libs, each a sequence of tokens or Unparsed,  *)
(* paths: the kinds of absolute paths in its assignments].  A token is     *)
(* "-L" or "-R" alone, "-L/" or "-R/" with an absolute directory, "/", an  *)
(* absolute file, or "=", anything that names no absolute path.            *)
(***************************************************************************)

\* The loop over dependency_tokens.
TokensOk(tokens) ==
    \A k \in DOMAIN tokens :
        /\ tokens[k] \notin {"-L/", "-R/", "/"}
        /\ ~ (/\ tokens[k] \in {"-L", "-R"}
              /\ k < Len(tokens) /\ tokens[k + 1] = "/")

\* _check_libtool_archive.
LibtoolOk(la) ==
    /\ ~la.leaks
    /\ Len(la.deps) <= 1
    /\ \A k \in DOMAIN la.deps : la.deps[k] # <<"unparsed">> /\ TokensOk(la.deps[k])
    /\ la.paths \subseteq {"target"}

(***************************************************************************)
(* A file is [magic, suffix, elf, la, words, leaks]; executable is one of  *)
(* its mode's x bits.                                                      *)
(***************************************************************************)

\* One turn of the loop of _check_artifact_formats.
FormatOk(path, file, executable) ==
    /\ file.suffix = "la" => LibtoolOk(file.la)
    /\ CASE file.magic = "thin" -> FALSE
         [] file.magic = "ar" -> ElfHeadersOk(file.elf, TRUE)
         [] file.magic = "elf" ->
              /\ ElfHeadersOk(file.elf, FALSE)
              /\ DynamicOk(path, file)
              /\ ProgramHeadersOk(file, executable)
         [] OTHER ->
              /\ file.magic = "host" =>
                     ~executable /\ file.suffix # "exe"
              /\ file.suffix # "a"

\* One turn of the loop of check_script_runtime.
ScriptOk(path, file, executable, name, deps) ==
    \/ ~executable
    \/ file.magic # "script"
    \/ Len(path) > 3 /\ SubSeq(path, 1, 3) = <<"usr", "share", "doc">>
    \/ ScriptRuntimeOk(file.words, name, deps)

\* One turn of the loop of Package.check: build paths in the text of
\* metadata and scripts, and in the run paths of ELF files.
NoLeak(file) ==
    /\ file.magic = "script" \/ file.suffix \in {"la", "pc"} => ~file.leaks
    /\ file.magic = "elf" =>
         \A k \in DOMAIN file.elf.paths : file.elf.paths[k].base # "build"

=============================================================================
