------------------------------ MODULE PupInstall ------------------------------
(***************************************************************************)
(* `pup install` (pup/pedigree_updater/commands/install.py): several       *)
(* processes that share one package cache and one install root.            *)
(*                                                                         *)
(* The cache file of a package is opened by its path each time: to be      *)
(* hashed, to be written, to be hashed again, to be extracted.  Between    *)
(* two of these any other process may do the same, and a process may be    *)
(* killed at any point.  Hashing a file is one step; writing and           *)
(* extracting one are not, and the file may change meanwhile.              *)
(*                                                                         *)
(* A regular file is written aside and renamed into its place.  Symbolic   *)
(* and hard links are not: tarfile.makelink, which InstallTarFile does not *)
(* override, unlinks the one that is there and then makes the new one, so  *)
(* that an extraction has each link in its hand for a moment.              *)
(***************************************************************************)
EXTENDS Naturals, Sequences, FiniteSets, SequencesExt

CONSTANTS
    Clients,     \* pup processes; each runs one command after the other
    Packages,    \* the packages of the database, at its versions
    Deps,        \* package -> the set of its dependencies in the database
    Links,       \* package -> the symbolic and hard links of its archive
    Commands,    \* what users run: [names, nodeps]
    Plan,        \* command -> the sequence _resolve_packages returns, or Failed
    Failed,      \* _resolve_packages raised
    Repos        \* the number of configured repositories

ASSUME InstallAssumption ==
    /\ Deps \in [Packages -> SUBSET Packages]
    /\ DOMAIN Links = Packages
    /\ DOMAIN Plan = Commands
    /\ \A m \in Commands : Plan[m] = Failed \/ Plan[m] \in Seq(Packages)
    /\ \A m \in Commands : Plan[m] # Failed /\ ~m.nodeps =>
          \A i \in 1..Len(Plan[m]) : \A d \in Deps[Plan[m][i]] :
              \E j \in 1..(i - 1) : Plan[m][j] = d
    /\ Repos \in Nat

VARIABLES
    pc,          \* client -> what it does next
    queue,       \* client -> the packages of its plan still to install
    command,     \* client -> the command it runs
    repo,        \* client -> the repository it asks next
    banned,      \* client -> banned_repos
    archive,     \* client -> what it has open for extraction
    cache,       \* package -> its file in local_cache
    left,        \* client -> the links its extraction has still to make
    hand,        \* client -> the link it has removed and not yet made, if any
    root,        \* package -> its regular files under the install root
    links,       \* package -> those of its links that are there
    dropped,     \* history: package -> links in hand when an extraction ended
    forced       \* history: the packages somebody installed with --nodeps

extraction == <<left, hand, root, links, dropped>>
vars == <<pc, queue, command, repo, banned, archive, cache, extraction, forced>>

\* "good" is the archive whose SHA-1 the database lists; "bad" another whole
\* archive; "partial" anything else.
Data == {"none", "partial", "good", "bad"}

\* A cache file (the inode its path names) and the processes that have it
\* open: to write it while they copy, to read it while they extract.
File == [data : Data, open : SUBSET Clients]
NoFile == [data |-> "none", open |-> {}]

\* What the install root has of a package's regular files: "none", "torn" (some
\* of the good archive, or links only), "good" (all), "unverified" (another's).

Ended == {"idle", "ok", "failed", "killed"}

\* Earlier runs, killed ones included, may have left anything in the cache.
Init ==
    /\ pc = [c \in Clients |-> "idle"]
    /\ queue = [c \in Clients |-> <<>>]
    /\ command \in [Clients -> Commands]
    /\ repo = [c \in Clients |-> 1]
    /\ banned = [c \in Clients |-> {}]
    /\ archive = [c \in Clients |-> "none"]
    /\ cache \in [Packages -> [data : Data, open : {{}}]]
    /\ left = [c \in Clients |-> {}]
    /\ hand = [c \in Clients |-> {}]
    /\ root = [p \in Packages |-> "none"]
    /\ links = [p \in Packages |-> {}]
    /\ dropped = [p \in Packages |-> {}]
    /\ forced = {}

-----------------------------------------------------------------------------

Goto(c, to) == pc' = [pc EXCEPT ![c] = to]
Package(c) == Head(queue[c])
CacheBecomes(c, file) == cache' = [cache EXCEPT ![Package(c)] = file]

\* The command line is read and the plan made from the client's database.
Start(c) ==
    /\ pc[c] \in Ended
    /\ \E m \in Commands :
          /\ command' = [command EXCEPT ![c] = m]
          /\ IF Plan[m] = Failed
             THEN Goto(c, "failed") /\ UNCHANGED <<queue, forced>>
             ELSE /\ Goto(c, "check")
                  /\ queue' = [queue EXCEPT ![c] = Plan[m]]
                  /\ forced' = IF m.nodeps THEN forced \cup Range(Plan[m])
                                           ELSE forced
    /\ repo' = [repo EXCEPT ![c] = 1]
    /\ banned' = [banned EXCEPT ![c] = {}]
    /\ archive' = [archive EXCEPT ![c] = "none"]
    /\ UNCHANGED <<cache, extraction>>

\* A cached file is used if its SHA-1 is the listed one.  Nothing catches an
\* error while it is read, or a file that goes away after isfile().
CheckCache(c) ==
    /\ pc[c] = "check" /\ queue[c] # <<>>
    /\ \/ cache[Package(c)].data = "good" /\ Goto(c, "archive")
       \/ cache[Package(c)].data # "good" /\ Goto(c, "unlink")
       \/ cache[Package(c)].data # "none" /\ Goto(c, "failed")
    /\ UNCHANGED <<queue, command, repo, banned, archive, cache, extraction, forced>>

Unlink(c) ==
    /\ pc[c] = "unlink"
    /\ Goto(c, "open")
    /\ CacheBecomes(c, NoFile)
    /\ repo' = [repo EXCEPT ![c] = 1]
    /\ UNCHANGED <<queue, command, banned, archive, extraction, forced>>

SkipBanned(c) ==
    /\ pc[c] = "open" /\ repo[c] \in banned[c]
    /\ repo' = [repo EXCEPT ![c] = @ + 1]
    /\ UNCHANGED <<pc, queue, command, banned, archive, cache, extraction, forced>>

Users(c, what) == {q \in cache[Package(c)].open : pc[q] = what}

Askable(c) == repo[c] <= Repos /\ repo[c] \notin banned[c]

\* open(package_file, "wb") truncates the file that is there, also under those
\* who have it open, or creates one.
OpenTarget(c) ==
    /\ pc[c] = "open" /\ Askable(c)
    /\ \/ /\ CacheBecomes(c, [data |-> "partial",
                              open |-> cache[Package(c)].open \cup {c}])
          /\ archive' = [q \in Clients |-> IF q \in Users(c, "extract")
                                           THEN "changing" ELSE archive[q]]
          /\ Goto(c, "copy")
       \/ UNCHANGED <<cache, archive>> /\ Goto(c, "reject")
    /\ UNCHANGED <<queue, command, repo, banned, extraction, forced>>

\* What the path shows once copy_url has written and closed: nothing new if
\* somebody unlinked the file meanwhile, perhaps a mixture if another process
\* writes into it.
Written(c, served) ==
    LET file == cache[Package(c)] IN
    IF c \notin file.open THEN {file}
    ELSE {[data |-> d, open |-> file.open \ {c}] :
             d \in IF Users(c, "copy") = {c} THEN {served} ELSE {served, "partial"}}

\* A repository may serve anything.  RequestError and OSError are caught, and
\* other exceptions (http.client.IncompleteRead) end the process.
Download(c) ==
    /\ pc[c] = "copy"
    /\ \/ /\ \E served \in {"good", "bad", "partial"} :
                \E file \in Written(c, served) : CacheBecomes(c, file)
          /\ Goto(c, "verify")
       \/ /\ \E file \in Written(c, "partial") : CacheBecomes(c, file)
          /\ Goto(c, "reject") \/ Goto(c, "failed")
    /\ UNCHANGED <<queue, command, repo, banned, archive, extraction, forced>>

\* Mutant: what was downloaded is not hashed.
SkipVerify(c) ==
    /\ pc[c] = "verify"
    /\ Goto(c, "archive")
    /\ UNCHANGED <<queue, command, repo, banned, archive, cache, extraction, forced>>

\* The file is opened again to be hashed; it may be gone, or not be read
\* (OSError).
Verify(c) ==
    /\ pc[c] = "verify"
    /\ \/ cache[Package(c)].data = "good" /\ Goto(c, "archive")
       \/ Goto(c, "reject")
    /\ UNCHANGED <<queue, command, repo, banned, archive, cache, extraction, forced>>

Reject(c) ==
    /\ pc[c] = "reject"
    /\ CacheBecomes(c, NoFile)
    /\ banned' = [banned EXCEPT ![c] = @ \cup {repo[c]}]
    /\ repo' = [repo EXCEPT ![c] = @ + 1]
    /\ Goto(c, "open")
    /\ UNCHANGED <<queue, command, archive, extraction, forced>>

\* A verified file, or whatever is there when no repository is left.  tarfile
\* opens it by its path and reads it as it extracts.
OpenArchive(c) ==
    LET file == cache[Package(c)] IN
    /\ pc[c] = "archive" \/ (pc[c] = "open" /\ repo[c] = Repos + 1)
    /\ IF file.data = "none"
       THEN Goto(c, "failed") /\ UNCHANGED <<cache, archive, left>>
       ELSE /\ Goto(c, "extract")
            /\ CacheBecomes(c, [data |-> file.data, open |-> file.open \cup {c}])
            /\ archive' = [archive EXCEPT ![c] =
                              IF Users(c, "copy") = {} THEN file.data ELSE "changing"]
            /\ left' = [left EXCEPT ![c] = Links[Package(c)]]
    /\ UNCHANGED <<queue, command, repo, banned, hand, root, links, dropped, forced>>

RootBecomes(p, state) == root' = [root EXCEPT ![p] = state]

\* All regular files of an archive were extracted.
Whole(p, data) ==
    IF data = "good" /\ root[p] # "unverified" THEN "good" ELSE "unverified"

\* Mutant: files are written in place.
TornInPlace(p, data) ==
    IF data = "good" /\ root[p] # "unverified" THEN "torn" ELSE "unverified"

\* Some members of an archive were extracted.  A regular file is written aside
\* and renamed (InstallTarFile.makefile), so that none that was there is lost.
Torn(p, data) ==
    IF data # "good" THEN "unverified"
    ELSE IF root[p] = "none" THEN "torn" ELSE root[p]

\* makelink: the link that is at the path is removed ...
TakeLink(c) ==
    /\ pc[c] = "extract" /\ hand[c] = {}
    /\ \E l \in left[c] :
          /\ hand' = [hand EXCEPT ![c] = {l}]
          /\ left' = [left EXCEPT ![c] = @ \ {l}]
          /\ links' = [links EXCEPT ![Package(c)] = @ \ {l}]
    /\ UNCHANGED <<pc, queue, command, repo, banned, archive, cache, root, dropped,
                   forced>>

\* Mutant: an error of a single member is ignored (errorlevel=0).
PutLinkOrNot(c) ==
    /\ pc[c] = "extract" /\ hand[c] # {} /\ hand[c] \cap links[Package(c)] = {}
    /\ hand' = [hand EXCEPT ![c] = {}]
    /\ \/ /\ links' = [links EXCEPT ![Package(c)] = @ \cup hand[c]]
          /\ dropped' = [dropped EXCEPT ![Package(c)] = @ \ hand[c]]
       \/ links' = links /\ dropped' = [dropped EXCEPT ![Package(c)] = @ \cup hand[c]]
    /\ RootBecomes(Package(c), Torn(Package(c), archive[c]))
    /\ UNCHANGED <<pc, queue, command, repo, banned, archive, cache, left, forced>>

\* ... and made again, unless another process has made one by now.
PutLink(c) ==
    /\ pc[c] = "extract" /\ hand[c] # {} /\ hand[c] \cap links[Package(c)] = {}
    /\ hand' = [hand EXCEPT ![c] = {}]
    /\ links' = [links EXCEPT ![Package(c)] = @ \cup hand[c]]
    /\ dropped' = [dropped EXCEPT ![Package(c)] = @ \ hand[c]]
    /\ RootBecomes(Package(c), Torn(Package(c), archive[c]))
    /\ UNCHANGED <<pc, queue, command, repo, banned, archive, cache, left, forced>>

\* The archive is closed, after all of it or not; a link in hand stays away.
CloseArchive(c) ==
    /\ archive' = [archive EXCEPT ![c] = "none"]
    /\ cache' = [p \in Packages |->
                 [data |-> cache[p].data, open |-> cache[p].open \ {c}]]
    /\ left' = [left EXCEPT ![c] = {}]
    /\ hand' = [hand EXCEPT ![c] = {}]
    /\ dropped' = IF hand[c] = {} THEN dropped
                  ELSE [dropped EXCEPT ![Package(c)] =
                           @ \cup (hand[c] \ links[Package(c)])]
    /\ UNCHANGED links

\* extractall got through.
Extracted(c) ==
    /\ archive[c] # "partial" /\ hand[c] = {}
    /\ archive[c] = "good" => left[c] = {}
    /\ RootBecomes(Package(c), Whole(Package(c), archive[c]))

\* It did not, and some members may be in the root.
CutShort(c) ==
    root' = root \/ RootBecomes(Package(c), Torn(Package(c), archive[c]))

\* Mutant: a package that could not be extracted is skipped.
ExtractLeniently(c) ==
    /\ pc[c] = "extract"
    /\ Extracted(c) \/ CutShort(c)
    /\ Goto(c, "check") /\ queue' = [queue EXCEPT ![c] = Tail(@)]
    /\ CloseArchive(c)
    /\ UNCHANGED <<command, repo, banned, forced>>

\* extractall ends.  A partial archive, a full disk, or another process that
\* handles the same link (FileExistsError, FileNotFoundError) is an exception,
\* which ends the process.
Extract(c) ==
    /\ pc[c] = "extract"
    /\ \/ /\ Extracted(c)
          /\ Goto(c, "check") /\ queue' = [queue EXCEPT ![c] = Tail(@)]
       \/ CutShort(c) /\ Goto(c, "failed") /\ queue' = queue
    /\ CloseArchive(c)
    /\ UNCHANGED <<command, repo, banned, forced>>

Finish(c) ==
    /\ pc[c] = "check" /\ queue[c] = <<>>
    /\ Goto(c, "ok")
    /\ UNCHANGED <<queue, command, repo, banned, archive, cache, extraction, forced>>

\* The process dies; its open files are closed as they are.
Kill(c) ==
    /\ pc[c] \notin Ended
    /\ Goto(c, "killed")
    /\ IF pc[c] = "extract" THEN CutShort(c) ELSE root' = root
    /\ CloseArchive(c)
    /\ UNCHANGED <<queue, command, repo, banned, forced>>

Run(c) ==
    \/ CheckCache(c) \/ Unlink(c) \/ SkipBanned(c) \/ OpenTarget(c)
    \/ Download(c) \/ Verify(c) \/ Reject(c) \/ OpenArchive(c) \/ TakeLink(c)
    \/ PutLink(c) \/ Extract(c) \/ Finish(c)

Next == \E c \in Clients : Start(c) \/ Run(c) \/ Kill(c)

Spec == Init /\ [][Next]_vars

-----------------------------------------------------------------------------
(* Properties.                                                             *)

\* Nobody but one process has run so far.
Alone == \E c \in Clients : \A d \in Clients \ {c} : pc[d] = "idle"

\* README.md:221-224: the client "verifies the legacy SHA-1 catalog digest
\* before extracting an archive": no file of any other archive reaches the
\* install root, whatever earlier runs left in the cache and the repositories
\* serve.  (A second process may replace the file between the verification
\* and the extraction.)
OnlyVerifiedIsExtracted ==
    Alone => \A p \in Packages : root[p] # "unverified"

\* The links of a package that some process has in its hand.
InHand(p) ==
    {l \in Links[p] : \E c \in Clients :
        pc[c] = "extract" /\ Package(c) = p /\ l \in hand[c]}

\* Nothing of a package is in the root before its dependencies are all there:
\* after a kill, a failed download or a full disk, with any number of
\* processes, what is installed can run.  (--nodeps asks for the opposite.)  A
\* dependency that is installed again misses a link while the extraction makes
\* it, or since one ended at that point; nothing else takes a link.
DependenciesComeFirst ==
    \A p \in Packages \ forced : root[p] # "none" =>
        \A d \in Deps[p] :
            /\ root[d] \in {"good", "unverified"}
            /\ root[d] = "good" =>
                  Links[d] \subseteq links[d] \cup InHand(d) \cup dropped[d]

\* Installing a package again, however that ends and whoever else does so,
\* takes no regular file from it ("Running programs retain the old inode",
\* install.py:43), and a link only to make it again; a process that is alone
\* replaces no file by another's either.
InstalledSurvives ==
    [][\A p \in Packages : root[p] = "good" =>
          /\ root'[p] \in {"good", "unverified"}
          /\ Alone' => root'[p] = "good"
          /\ links[p] \subseteq links'[p] \cup InHand(p)']_vars

\* As long as nobody else runs, a command that ends well has put every file and
\* every link of its plan in place, whatever killed and failed commands before
\* it left in the root.
OkIsInstalled ==
    Alone => \A c \in Clients : pc[c] = "ok" =>
        \A p \in Range(Plan[command[c]]) : root[p] = "good" /\ Links[p] \subseteq links[p]
=============================================================================
