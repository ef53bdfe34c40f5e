-------------------------- MODULE PackagePublication --------------------------
(***************************************************************************)
(* Publishers and the repository service: PupRepository composed with the  *)
(* upload processes of the ports builder (upload_all in buildPackages.py), *)
(* which run `pup register` (pup/pedigree_updater/commands/register.py)    *)
(* for one package of a wave after the other.                              *)
(*                                                                         *)
(* A publisher may be killed and any exchange with the service may fail,   *)
(* before or after the service has acted: it goes on with a request nobody *)
(* waits for any more, while the publisher, or another one, tries again.   *)
(***************************************************************************)
EXTENDS PupRepository, Sequences, SequencesExt

CONSTANTS
    Publishers,  \* upload processes
    Waves,       \* sequences of forms, as order_uploads orders the packages
    NameOf,      \* fullname -> "<name>-<arch>", the key of packages.pupdb
    Rank,        \* fullname -> the place of its version in version_cmp
    KeysOf,      \* dependency list -> the keys of the packages it names
    VerifyAttempts  \* VERIFY_ATTEMPTS

ASSUME PublicationAssumption ==
    /\ Waves \subseteq Seq(Forms) \ {<<>>}
    /\ NameOf \in [Fullnames -> Range(NameOf)]
    /\ Rank \in [Fullnames -> Nat]
    /\ \A n, o \in Fullnames : NameOf[n] = NameOf[o] /\ Rank[n] = Rank[o] => n = o
    /\ KeysOf \in [DepLists -> SUBSET Range(NameOf)]
    /\ VerifyAttempts \in Nat \ {0}

\* What is published together: the packages a form names.
Needs(f) == IF f.dependencies \in DepLists THEN KeysOf[f.dependencies] ELSE {}

\* order_uploads orders a wave by the dependencies inside it.  That a wave has
\* all it needs, as the whole catalogue has, is up to who selects it.
WavesAreClosed ==
    /\ KeysOf[NoDeps] = {}
    /\ \A w \in Waves : \A i \in 1..Len(w) : \A key \in Needs(w[i]) :
          \E j \in 1..(i - 1) : NameOf[w[j].fullname] = key
    /\ \A n \in DOMAIN Legacy : \A key \in KeysOf[Legacy[n].dependencies] :
          \E o \in DOMAIN Legacy : NameOf[o] = key

\* `pup register` sends an archive with its digest, and no wave publishes a
\* legacy package again with other contents.
WavesAreGenuine ==
    \A w \in Waves : \A i \in 1..Len(w) :
        /\ Acceptable(w[i]) /\ Sha1[w[i].bytes] = w[i].sha1
        /\ w[i].fullname \in DOMAIN Legacy =>
              LET legacy == Legacy[w[i].fullname]
              IN  w[i].bytes = legacy.bytes /\ w[i].dependencies \in {Absent, legacy.dependencies}

VARIABLES
    doing,       \* publisher -> what it does next
    wave,        \* publisher -> the forms it has still to register
    awaited,     \* publisher -> the request it waits for
    attempt,     \* publisher -> attempts of verify_upload that failed
    sent,        \* requests whose form was posted
    registered   \* the forms some publisher has reported as registered

publisherVars == <<doing, wave, awaited, attempt, sent, registered>>
publicationVars == <<vars, publisherVars>>

PublicationTypeOK ==
    /\ doing \in [Publishers -> {"off", "ask", "post", "answer", "catalog", "archive"}]
    /\ wave \in [Publishers -> Seq(Forms)]
    /\ awaited \in [Publishers -> Requests \cup {None}]
    /\ attempt \in [Publishers -> 0..(VerifyAttempts - 1)]
    /\ sent \subseteq Requests
    /\ registered \subseteq Forms

PublicationInit ==
    /\ Init
    /\ doing = [c \in Publishers |-> "off"]
    /\ wave = [c \in Publishers |-> <<>>]
    /\ awaited = [c \in Publishers |-> None]
    /\ attempt = [c \in Publishers |-> 0]
    /\ sent = {}
    /\ registered = {}

-----------------------------------------------------------------------------
(* The process.                                                            *)

Enter(c, to) == doing' = [doing EXCEPT ![c] = to]
Current(c) == Head(wave[c])

\* upload_all: somebody uploads a wave, for the first time or again.
Begin(c) ==
    /\ doing[c] = "off"
    /\ \E w \in Waves : wave' = [wave EXCEPT ![c] = w]
    /\ Enter(c, "ask")
    /\ UNCHANGED <<vars, awaited, attempt, sent, registered>>

Off(c) ==
    /\ Enter(c, "off")
    /\ wave' = [wave EXCEPT ![c] = <<>>]
    /\ awaited' = [awaited EXCEPT ![c] = None]
    /\ attempt' = [attempt EXCEPT ![c] = 0]

\* The next package of the wave, or the end of the process.
Proceed(c) ==
    IF Len(wave[c]) = 1 THEN Off(c)
    ELSE /\ wave' = [wave EXCEPT ![c] = Tail(@)]
         /\ awaited' = [awaited EXCEPT ![c] = None]
         /\ attempt' = [attempt EXCEPT ![c] = 0]
         /\ Enter(c, "ask")

\* Mutant: a package that fails is skipped.
FailOnward(c) ==
    /\ doing[c] # "off"
    /\ Proceed(c)
    /\ UNCHANGED <<vars, sent, registered>>

\* The process is killed, or `pup register` gives up: no archive, no support
\* for dependencies, no upload URL, no answer, an answer other than "ok".  The
\* first failure ends the wave.
Fail(c) ==
    /\ doing[c] # "off"
    /\ Off(c)
    /\ UNCHANGED <<vars, sent, registered>>

-----------------------------------------------------------------------------
(* pup register.                                                           *)

NextRequest == CHOOSE r \in Requests : pc[r] = "idle"

\* GET /upload for the form of the current package.
Ask(c) ==
    /\ doing[c] = "ask"
    /\ \E r \in Requests : pc[r] = "idle"
    /\ UploadUrl(NextRequest)
    /\ form' = [form EXCEPT ![NextRequest] = Current(c)]
    /\ awaited' = [awaited EXCEPT ![c] = NextRequest]
    /\ Enter(c, "post")
    /\ UNCHANGED <<wave, attempt, sent, registered>>

\* post_multipart.
Post(c) ==
    /\ doing[c] = "post" /\ pc[awaited[c]] = "upload"
    /\ sent' = sent \cup {awaited[c]}
    /\ Enter(c, "answer")
    /\ UNCHANGED <<vars, wave, awaited, attempt, registered>>

\* "ok" is verified; any other answer is one of the cases of Fail.
Answer(c) ==
    /\ doing[c] = "answer"
    /\ pc[awaited[c]] = "done" /\ status[awaited[c]] = "ok"
    /\ Enter(c, "catalog")
    /\ UNCHANGED <<vars, wave, awaited, attempt, sent, registered>>

\* dedup_packages: one of the records of the newest version that is known.
Listed(key) ==
    {p \in records :
        /\ NameOf[p.fullname] = key
        /\ \A q \in records : NameOf[q.fullname] = key => Rank[q.fullname] <= Rank[p.fullname]}

\* What _verify_catalog_entry compares.
EntryMatches(p, f) ==
    /\ p.fullname = f.fullname
    /\ p.sha1 = f.sha1
    /\ p.dependencies = f.dependencies

\* One attempt of verify_upload failed: there are Attempts of them.
Again(c) ==
    IF attempt[c] + 1 < VerifyAttempts
    THEN /\ attempt' = [attempt EXCEPT ![c] = @ + 1]
         /\ Enter(c, "catalog")
         /\ UNCHANGED <<wave, awaited>>
    ELSE Off(c)

\* GET /packages.pupdb, which may fail.
CheckCatalog(c) ==
    /\ doing[c] = "catalog"
    /\ \/ /\ \E p \in Listed(NameOf[Current(c).fullname]) : EntryMatches(p, Current(c))
          /\ Enter(c, "archive")
          /\ UNCHANGED <<wave, awaited, attempt>>
       \/ Again(c)
    /\ UNCHANGED <<vars, sent, registered>>

\* download_package: the blob of one of the records of that name.
Served(n) == {blobs[p.blob] : p \in {q \in records : q.fullname = n}}

\* _verify_archive, and what `pup register` reports.
CheckArchive(c) ==
    /\ doing[c] = "archive"
    /\ \/ /\ \E bytes \in Served(Current(c).fullname) \ {None} :
                 Sha1[bytes] = Current(c).sha1
          /\ registered' = registered \cup {Current(c)}
          /\ Proceed(c)
       \/ Again(c) /\ UNCHANGED registered
    /\ UNCHANGED <<vars, sent>>

Publisher(c) ==
    \/ Ask(c) \/ Post(c) \/ Answer(c) \/ CheckCatalog(c) \/ CheckArchive(c)
    \/ Fail(c)

\* The service as PupRepository has it; a form it handles was posted.
Service ==
    /\ \E r \in Requests :
          \/ pc[r] # "idle" /\ (pc[r] = "upload" => r \in sent) /\ Handler(r)
          \/ Crash(r)
          \/ ExpireStaging(r)
    /\ UNCHANGED publisherVars

PublicationNext ==
    Service \/ \E c \in Publishers : Begin(c) \/ Publisher(c)

PublicationSpec == PublicationInit /\ [][PublicationNext]_publicationVars

-----------------------------------------------------------------------------
(* Properties.                                                             *)

\* `pup register` says "registered and verified" only of packages that are
\* recorded with their digest and dependencies and whose archive can be
\* fetched under its name, from then on and whatever is published later.
RegisteredIsPublished ==
    \A f \in registered :
        /\ \E p \in records : /\ p.fullname = f.fullname
                              /\ p.sha1 = f.sha1
                              /\ p.dependencies = f.dependencies
        /\ \A bytes \in Served(f.fullname) : bytes # None /\ Sha1[bytes] = f.sha1
        /\ bucket[f.fullname] # None /\ bucket[f.fullname].sha1 = f.sha1

\* If waves are closed, the catalogue lists at no moment a package without its
\* dependencies, although records appear one by one, requests go on after their
\* publisher has given up, and waves are interrupted and started again.
CatalogueIsClosed == WavesAreClosed =>
    \A p \in records : \A key \in KeysOf[p.dependencies] :
        \E q \in records : NameOf[q.fullname] = key

\* A request is refused only if another one, really sent, wants something else
\* under the same name: what publishers and handlers that were killed leave
\* behind refuses nobody, so that an interrupted wave can be run again.
RetriesAreNotRefused == WavesAreGenuine =>
    \A r \in Requests : status[r] \in {"400", "409"} =>
        \E q \in sent : /\ form[q].fullname = form[r].fullname
                       /\ form[q] # form[r]
=============================================================================
