---------------------------- MODULE BlobMigration ----------------------------
(***************************************************************************)
(* The migration of legacy packages to Cloud Storage, scripts/             *)
(* migrate_package_blobs.py, composed with the upload handlers of          *)
(* PupRepository, which go on publishing to the same bucket and Datastore. *)
(*                                                                         *)
(* The queries are paged and no snapshot: the entities are read one after  *)
(* the other, in any order.  A worker's calls interleave with those of the *)
(* others; an upload is what UploadContract promises, so that it may still *)
(* create its object after the migration was killed and started again.     *)
(***************************************************************************)
EXTENDS PupRepository, FiniteSets

CONSTANTS
    Workers,     \* --workers
    Runs         \* bound: how often somebody starts the migration

ASSUME MigrationAssumption == Workers \in Nat \ {0} /\ Runs \in Nat

\* A SHA-1 names one archive.  The mirror compares SHA-1 values, the migration
\* MD5 values as well: two archives with one SHA-1 would be a mismatch.
ASSUME DigestAssumption == \A a, b \in Contents : Sha1[a] = Sha1[b] => a = b

VARIABLES
    phase,       \* what main does
    apply,       \* --apply
    unread,      \* keys the current query has still to read
    packages,    \* the Package entities it, or the one before, has read
    infos,       \* the __BlobInfo__ entities: <<key, size>>
    initial,     \* initial_manifest
    present,     \* history: records when the last worker ended
    step,        \* name -> the call its worker makes next, or its result
    downloaded,  \* name -> the bytes in its temporary file
    session,     \* name -> the bytes an upload session holds
    runs

mainVars == <<phase, apply, unread, packages, infos, initial, present, runs>>
workerVars == <<step, downloaded, session>>
migrationVars == <<mainVars, workerVars>>
allVars == <<vars, migrationVars>>

Results == {"uploaded", "verified-existing", "would-upload", "mismatch", "failed"}
Running == {"download", "look", "begin", "finish", "confirm-uploaded", "confirm-existing"}

Artifact == [fullname : Fullnames, sha1 : Digests, blob : BlobKeys, size : Nat]
Manifest == [artifacts : SUBSET Artifact, keys : SUBSET BlobKeys,
             inventory : SUBSET (BlobKeys \X Nat)]

MigrationInit ==
    /\ Init
    /\ phase = "off" /\ apply = FALSE /\ runs = 0
    /\ unread = {} /\ packages = {} /\ infos = {} /\ present = {}
    /\ initial = None
    /\ step = [n \in Fullnames |-> "none"]
    /\ downloaded = [n \in Fullnames |-> None]
    /\ session = [n \in Fullnames |-> None]

-----------------------------------------------------------------------------
(* main.                                                                   *)

\* Somebody runs the migration, for the first time or again.
Start ==
    /\ phase \in {"off", "complete", "failed"} /\ runs < Runs
    /\ runs' = runs + 1
    /\ apply' \in BOOLEAN
    /\ phase' = "packages" /\ unread' = BlobKeys
    /\ packages' = {} /\ infos' = {} /\ initial' = None
    /\ present' = {}
    /\ step' = [n \in Fullnames |-> "none"]
    /\ downloaded' = [n \in Fullnames |-> None]
    /\ UNCHANGED <<vars, session>>

\* query_all("Package"): every record has one blob, which stands for its key.
ReadPackage ==
    /\ phase \in {"packages", "final packages"}
    /\ \E k \in unread :
          /\ unread' = unread \ {k}
          /\ packages' = packages \cup {p \in records : p.blob = k}
    /\ UNCHANGED <<vars, phase, apply, infos, initial, present, runs, workerVars>>

\* query_all("__BlobInfo__").
ReadInfo ==
    /\ phase \in {"infos", "final infos"}
    /\ \E k \in unread :
          /\ unread' = unread \ {k}
          /\ infos' = IF blobs[k] = None THEN infos
                      ELSE infos \cup {<<k, Size[blobs[k]]>>}
    /\ UNCHANGED <<vars, phase, apply, packages, initial, present, runs, workerVars>>

\* build_manifest refuses two records of one name, whether they agree or not,
\* and a record whose blob is not in the inventory.
Buildable(ps, is) ==
    /\ \A p, q \in ps : p.fullname = q.fullname => p = q
    /\ \A p \in ps : \E i \in is : i[1] = p.blob

\* snapshot_manifest.
Snapshot(ps, is) ==
    [artifacts |->
        {[fullname |-> p.fullname, sha1 |-> p.sha1, blob |-> p.blob,
          size |-> (CHOOSE i \in is : i[1] = p.blob)[2]] : p \in ps},
     keys |-> {p.blob : p \in ps},
     inventory |-> is]

\* The next query begins when one has read everything.
Requery ==
    /\ unread = {}
    /\ \/ phase = "packages" /\ phase' = "infos" /\ infos' = {}
          /\ UNCHANGED packages
       \/ phase = "final infos" /\ phase' = "final packages"
          /\ packages' = {}
          /\ UNCHANGED infos
    /\ unread' = BlobKeys
    /\ UNCHANGED <<vars, apply, initial, present, runs, workerVars>>

\* The preflight: the manifest, and migrate_all with one future an artifact.
Preflight ==
    /\ phase = "infos" /\ unread = {}
    /\ IF Buildable(packages, infos)
       THEN /\ phase' = "work"
            /\ initial' = Snapshot(packages, infos)
            /\ step' = [n \in Fullnames |->
                          IF \E p \in packages : p.fullname = n THEN "queued" ELSE "none"]
       ELSE phase' = "failed" /\ UNCHANGED <<initial, step>>
    /\ UNCHANGED <<vars, apply, unread, packages, infos, present, runs, downloaded, session>>

\* Mutant: the migration is complete when its workers are.
CollectAndComplete ==
    /\ phase = "work"
    /\ \A n \in Fullnames : step[n] \in {"none"} \cup Results
    /\ phase' = IF \A n \in Fullnames : step[n] \notin {"mismatch", "failed"}
                THEN "complete" ELSE "failed"
    /\ present' = records
    /\ UNCHANGED <<vars, apply, unread, packages, infos, initial, runs, workerVars>>

\* migrate_all waits for every future; any failure ends the migration.
Collect ==
    /\ phase = "work"
    /\ \A n \in Fullnames : step[n] \in {"none"} \cup Results
    /\ IF \E n \in Fullnames : step[n] \in {"mismatch", "failed"}
       THEN phase' = "failed" /\ UNCHANGED <<unread, infos>>
       ELSE phase' = "final infos" /\ unread' = BlobKeys /\ infos' = {}
    /\ present' = records
    /\ UNCHANGED <<vars, apply, packages, initial, runs, workerVars>>

\* The final manifest, read in the opposite order, is the initial one.
VerifyStable ==
    /\ phase = "final packages" /\ unread = {}
    /\ phase' = IF Buildable(packages, infos) /\ Snapshot(packages, infos) = initial
                THEN "complete" ELSE "failed"
    /\ UNCHANGED <<vars, apply, unread, packages, infos, initial, present, runs, workerVars>>

\* A query that fails for good, or the process is killed.
Abort ==
    /\ phase \notin {"off", "complete", "failed"}
    /\ phase' = "failed"
    /\ UNCHANGED <<vars, apply, unread, packages, infos, initial, present, runs, workerVars>>

-----------------------------------------------------------------------------
(* migrate_one, for the artifact of one name.                              *)

Goes(n, to) == step' = [step EXCEPT ![n] = to]

ArtifactOf(n) == CHOOSE a \in initial.artifacts : a.fullname = n

\* The executor has a thread for the next artifact.
Take(n) ==
    /\ phase = "work" /\ step[n] = "queued"
    /\ Cardinality({o \in Fullnames : step[o] \in Running}) < Workers
    /\ Goes(n, "download")
    /\ UNCHANGED <<vars, mainVars, downloaded, session>>

\* Mutant: only the length of the download is compared.
SourceSizeMatches(bytes, a) == Size[bytes] = a.size

SourceMatches(bytes, a) == Sha1[bytes] = a.sha1 /\ Size[bytes] = a.size

\* download_and_verify: whatever arrives under the name is hashed.
Download(n) ==
    /\ phase = "work" /\ step[n] = "download"
    /\ \/ \E bytes \in Contents :
             /\ SourceMatches(bytes, ArtifactOf(n))
             /\ downloaded' = [downloaded EXCEPT ![n] = bytes]
             /\ Goes(n, "look")
       \/ Goes(n, "failed") /\ UNCHANGED downloaded
    /\ UNCHANGED <<vars, mainVars, session>>

\* verify_gcs_metadata: md5Hash and size are those of the bytes.
MetadataMatches(n) ==
    /\ bucket[n].bytes = downloaded[n]
    /\ bucket[n].sha1 = Sha1[downloaded[n]]

\* get_metadata before anything is written.
Look(n) ==
    /\ phase = "work" /\ step[n] = "look"
    /\ \/ bucket[n] # None
          /\ Goes(n, IF MetadataMatches(n) THEN "verified-existing" ELSE "mismatch")
       \/ bucket[n] = None /\ Goes(n, IF apply THEN "begin" ELSE "would-upload")
       \/ Goes(n, "failed")
    /\ UNCHANGED <<vars, mainVars, downloaded, session>>

\* GcsClient.upload hands the bytes to a session, some or all of them.
BeginUpload(n) ==
    /\ phase = "work" /\ step[n] = "begin"
    /\ session' \in {session, [session EXCEPT ![n] = downloaded[n]]}
    /\ Goes(n, "finish")
    /\ UNCHANGED <<vars, mainVars, downloaded>>

\* Mutant: an upload that returned, or met an object, is not looked at again.
FinishUploadUnverified(n) ==
    /\ phase = "work" /\ step[n] = "finish"
    /\ \/ session[n] # None /\ Goes(n, "uploaded")
       \/ bucket[n] # None /\ Goes(n, "verified-existing")
       \/ Goes(n, "failed")
    /\ UNCHANGED <<vars, mainVars, downloaded, session>>

\* It returns, raises PreconditionFailed, or fails.
FinishUpload(n) ==
    /\ phase = "work" /\ step[n] = "finish"
    /\ \/ session[n] # None /\ Goes(n, "confirm-uploaded")
       \/ bucket[n] # None /\ Goes(n, "confirm-existing")
       \/ Goes(n, "failed")
    /\ UNCHANGED <<vars, mainVars, downloaded, session>>

\* get_metadata after the upload.
ConfirmUpload(n) ==
    /\ phase = "work" /\ step[n] \in {"confirm-uploaded", "confirm-existing"}
    /\ \/ bucket[n] # None /\ ~MetadataMatches(n) /\ Goes(n, "mismatch")
       \/ /\ bucket[n] # None /\ MetadataMatches(n)
          /\ Goes(n, IF step[n] = "confirm-uploaded" THEN "uploaded" ELSE "verified-existing")
       \/ Goes(n, "failed")
    /\ UNCHANGED <<vars, mainVars, downloaded, session>>

Worker(n) ==
    Take(n) \/ Download(n) \/ Look(n) \/ BeginUpload(n) \/ FinishUpload(n) \/ ConfirmUpload(n)

\* Cloud Storage creates the object of a session that holds every byte, if the
\* name is free: UploadContract!Create.
CreateObject(n) ==
    /\ session[n] # None /\ bucket[n] = None
    /\ bucket' = [bucket EXCEPT ![n] = [sha1 |-> Sha1[session[n]], bytes |-> session[n]]]
    /\ UNCHANGED <<pc, form, known, status, blobs, staging, records, migrationVars>>

Main == ReadPackage \/ ReadInfo \/ Requery \/ Preflight \/ Collect \/ VerifyStable

MigrationNext ==
    \/ Next /\ UNCHANGED migrationVars
    \/ Start \/ Main \/ Abort
    \/ \E n \in Fullnames : Worker(n) \/ CreateObject(n)

MigrationSpec == MigrationInit /\ [][MigrationNext]_allVars

-----------------------------------------------------------------------------

IsMirrored(p) ==
    /\ bucket[p.fullname] # None
    /\ bucket[p.fullname].sha1 = p.sha1
    /\ Sha1[bucket[p.fullname].bytes] = p.sha1

\* "Migration complete": every package of the catalogue is in the bucket with
\* the bytes of its SHA-1, those published since included, however often the
\* migration was interrupted and whichever handlers raced with it.
CompletedIsMirrored ==
    phase = "complete" /\ apply => \A p \in records : IsMirrored(p)

\* What main reports covers the catalogue: a package published before the last
\* worker ended, also between two pages of a query, is in the manifest that
\* was verified, or the migration says that it must be run again.
ManifestIsCatalogue ==
    phase = "complete" => {p.blob : p \in present} \subseteq initial.keys

\* Neither an upload handler nor an earlier run leaves an object that the
\* migration refuses: it can always be run again.
RerunsAgree == \A n \in Fullnames : step[n] # "mismatch"
=============================================================================
