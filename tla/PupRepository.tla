---------------------------- MODULE PupRepository ----------------------------
(***************************************************************************)
(* Package publication in the PUP repository service: the upload handler   *)
(* of pup/http/pup_http/views.py and the Cloud Storage mirror it calls,    *)
(* pup/http/pup_http/gcs_mirror.py.                                        *)
(*                                                                         *)
(* Several handlers run at once (two gunicorn workers on up to two         *)
(* instances, app.yaml).  Every call to Datastore, Blobstore or Cloud      *)
(* Storage is one step, so handlers interleave between any two calls; each *)
(* call may fail, with or without having taken effect, and a handler may   *)
(* be killed between any two calls.                                        *)
(***************************************************************************)
EXTENDS Naturals

CONSTANTS
    Requests,    \* upload requests; each is made once
    Fullnames,   \* package file names, "<name>-<version>-<arch>.pup"
    Contents,    \* archive contents
    Digests,     \* SHA-1 values, those of no archive included
    Sha1,        \* Contents -> Digests
    Size,        \* Contents -> Nat
    DepLists,    \* normalised dependency lists
    NoDeps,      \* the empty dependency list
    Absent,      \* the form has no "dependencies" field
    Malformed,   \* the field does not parse
    Forms,       \* the upload forms clients send
    Legacy,      \* packages published before there was a mirror:
                 \*   fullname -> [bytes, dependencies]
    None         \* no object, no blob, no record

Form ==
    [authorised : BOOLEAN,
     files : {"none", "one", "several", "unreadable"},
     complete : BOOLEAN,           \* name, arch, vers and sha1 are all given
     fullname : Fullnames,
     bytes : Contents,
     sha1 : Digests,               \* what the client claims
     dependencies : DepLists \cup {Absent, Malformed}]

\* A Blobstore key: the upload of a request, or of a legacy package.
BlobKeys == Requests \cup Fullnames

Package ==
    [fullname : Fullnames, sha1 : Digests, dependencies : DepLists,
     blob : BlobKeys]

\* A Cloud Storage object: its bytes and the "sha1" entry of its metadata.
Object == [sha1 : Digests, bytes : Contents]

ASSUME ConstantsAssumption ==
    /\ Sha1 \in [Contents -> Digests]
    /\ Size \in [Contents -> Nat]
    /\ NoDeps \in DepLists
    /\ Absent \notin DepLists /\ Malformed \notin DepLists /\ Absent # Malformed
    /\ Forms \subseteq Form
    /\ DOMAIN Legacy \subseteq Fullnames
    /\ Legacy \in [DOMAIN Legacy -> [bytes : Contents, dependencies : DepLists]]
    /\ Requests \cap Fullnames = {}
    /\ None \notin Contents /\ None \notin Object /\ None \notin Package
    /\ None \notin Form /\ None \notin Digests

VARIABLES
    pc,          \* request -> the call its handler makes next
    form,        \* request -> the form it sent
    known,       \* request -> known_package, the record its query returned
    status,      \* request -> the response decided on
    blobs,       \* Blobstore: key -> contents
    staging,     \* Cloud Storage, ".pup-incoming/<uuid>" of each request
    bucket,      \* Cloud Storage, the package names
    records      \* Datastore: the Package entities

handlerVars == <<pc, form, known, status>>
storeVars == <<blobs, staging, bucket, records>>
vars == <<pc, form, known, status, blobs, staging, bucket, records>>

Ended == {"done", "dead"}
Statuses == {"none", "ok", "400", "403", "409", "500", "503"}

TypeOK ==
    /\ pc \in [Requests -> {"idle", "upload", "validate", "lookup", "peek",
                            "stage", "copy", "confirm", "unstage", "put",
                            "cleanup"} \cup Ended]
    /\ form \in [Requests -> Forms \cup {None}]
    /\ known \in [Requests -> Package \cup {None}]
    /\ status \in [Requests -> Statuses]
    /\ blobs \in [BlobKeys -> Contents \cup {None}]
    /\ staging \in [Requests -> Object \cup {None}]
    /\ bucket \in [Fullnames -> Object \cup {None}]
    /\ records \subseteq Package

LegacyRecord(n) ==
    [fullname |-> n, sha1 |-> Sha1[Legacy[n].bytes],
     dependencies |-> Legacy[n].dependencies, blob |-> n]

\* Legacy packages are in Blobstore and Datastore; scripts/
\* migrate_package_blobs.py has mirrored some of them.
Init ==
    /\ pc = [r \in Requests |-> "idle"]
    /\ form = [r \in Requests |-> None]
    /\ known = [r \in Requests |-> None]
    /\ status = [r \in Requests |-> "none"]
    /\ staging = [r \in Requests |-> None]
    /\ blobs = [k \in BlobKeys |->
                   IF k \in DOMAIN Legacy THEN Legacy[k].bytes ELSE None]
    /\ records = {LegacyRecord(n) : n \in DOMAIN Legacy}
    /\ \E mirrored \in SUBSET DOMAIN Legacy :
          bucket = [n \in Fullnames |->
                       IF n \in mirrored
                       THEN [sha1 |-> Sha1[Legacy[n].bytes],
                             bytes |-> Legacy[n].bytes]
                       ELSE None]

-----------------------------------------------------------------------------
(* Control flow of one handler.                                            *)

Goto(r, to) == pc' = [pc EXCEPT ![r] = to]

Decide(r, s) == status' = [status EXCEPT ![r] = s]

\* delete_uploaded_blobs and then the response s.
Reject(r, s) == Goto(r, "cleanup") /\ Decide(r, s)

\* mirror_uploaded_package returned None: a known package is acknowledged
\* once its upload is deleted, a new one is still to be recorded.
Mirrored(r) ==
    IF known[r] # None
    THEN Goto(r, "cleanup") /\ Decide(r, "ok")
    ELSE Goto(r, "put") /\ UNCHANGED status

-----------------------------------------------------------------------------
(* GET /upload, and the Blobstore upload it leads to.                      *)

\* package_upload_url: an upload URL is only given to a valid key.
UploadUrl(r) ==
    /\ pc[r] = "idle"
    /\ \E f \in Forms :
           /\ form' = [form EXCEPT ![r] = f]
           /\ IF f.authorised
              THEN Goto(r, "upload") /\ UNCHANGED status
              ELSE Goto(r, "done") /\ Decide(r, "403")
           /\ UNCHANGED <<known, storeVars>>

\* App Engine stores the posted files and then calls the handler.
StoreUpload(r) ==
    /\ pc[r] = "upload"
    /\ Goto(r, "validate")
    /\ blobs' = [blobs EXCEPT ![r] =
                    IF form[r].files = "none" THEN None ELSE form[r].bytes]
    /\ UNCHANGED <<form, known, status, staging, bucket, records>>

-----------------------------------------------------------------------------
(* POST /blobstore.                                                        *)

Acceptable(f) ==
    f.files = "one" /\ f.complete /\ f.dependencies # Malformed

\* Upload information that cannot be parsed (BlobInfoParseError) is refused
\* without deleting what was uploaded.
Validate(r) ==
    /\ pc[r] = "validate"
    /\ \/ /\ Acceptable(form[r])
          /\ Goto(r, "lookup") /\ UNCHANGED status
       \/ /\ form[r].files = "unreadable"
          /\ Goto(r, "done") /\ Decide(r, "400")
       \/ /\ form[r].files # "unreadable" /\ ~Acceptable(form[r])
          /\ Reject(r, "400")
    /\ UNCHANGED <<form, known, storeVars>>

\* Mutant: the known package's digest is not compared.
SamePackageAnySha1(p, f) == f.dependencies \in {Absent, p.dependencies}

\* The upload says of a known package what its record says already.
SamePackage(p, f) ==
    /\ p.sha1 = f.sha1
    /\ f.dependencies \in {Absent, p.dependencies}

\* Package.query(fullname).get(): one of the matching records, in no
\* particular order when there are several.
Lookup(r) ==
    LET found == {p \in records : p.fullname = form[r].fullname} IN
    /\ pc[r] = "lookup"
    /\ \/ /\ found = {}
          /\ Goto(r, "stage")
          /\ UNCHANGED <<known, status>>
       \/ \E p \in found :
             /\ known' = [known EXCEPT ![r] = p]
             /\ IF SamePackage(p, form[r])
                THEN Goto(r, "peek") /\ UNCHANGED status
                ELSE Reject(r, "409")
    /\ UNCHANGED <<form, storeVars>>

\* Mutant: only the sizes are compared.
ObjectMatchesBySize(o, f) == Size[o.bytes] = Size[f.bytes]

\* _object_matches: the digest is the one in the object's metadata.
ObjectMatches(o, f) == o.sha1 = f.sha1 /\ Size[o.bytes] = Size[f.bytes]

\* mirror_package(verify_source=False): an existing object settles the matter.
Peek(r) ==
    LET existing == bucket[form[r].fullname] IN
    /\ pc[r] = "peek"
    /\ \/ existing = None /\ Goto(r, "stage") /\ UNCHANGED status
       \/ existing # None /\ ObjectMatches(existing, form[r])
                          /\ Mirrored(r)
       \/ existing # None /\ ~ObjectMatches(existing, form[r])
                          /\ Reject(r, "409")
       \/ Reject(r, "503")
    /\ UNCHANGED <<form, known, storeVars>>

\* The digest computed while reading the blob, against the one in the form.
DigestOk(bytes, f) == Sha1[bytes] = f.sha1

\* The upload is streamed to a staging object while it is hashed.  If the
\* call fails the object may still have been written, and staging_uploaded
\* is false, so that nobody deletes it.
Stage(r) ==
    LET object == [sha1 |-> form[r].sha1, bytes |-> blobs[r]] IN
    /\ pc[r] = "stage"
    /\ \/ /\ staging' = [staging EXCEPT ![r] = object]
          /\ IF DigestOk(blobs[r], form[r])
             THEN Goto(r, "copy") /\ UNCHANGED status
             ELSE Goto(r, "unstage") /\ Decide(r, "400")
       \/ /\ staging' \in {staging, [staging EXCEPT ![r] = object]}
          /\ Reject(r, "503")
    /\ UNCHANGED <<form, known, blobs, bucket, records>>

\* Mutant: the copy is not conditional on the name being free.
CopyOverwriting(r) ==
    /\ pc[r] = "copy"
    /\ bucket' = [bucket EXCEPT ![form[r].fullname] = staging[r]]
    /\ Goto(r, "unstage")
    /\ UNCHANGED <<form, known, status, blobs, staging, records>>

\* copy_blob with if_generation_match=0: it creates the package name or fails
\* with PreconditionFailed.  The client library repeats the call when an
\* answer is lost, and then meets the object it created itself.
Copy(r) ==
    LET n == form[r].fullname
        created == [bucket EXCEPT ![n] = staging[r]] IN
    /\ pc[r] = "copy"
    /\ \/ /\ bucket[n] = None
          /\ bucket' = created
          /\ Goto(r, "unstage") /\ UNCHANGED status
       \/ /\ bucket' = IF bucket[n] = None THEN created ELSE bucket
          /\ Goto(r, "confirm") /\ UNCHANGED status
       \/ /\ bucket' \in {bucket, IF bucket[n] = None THEN created ELSE bucket}
          /\ Goto(r, "unstage") /\ Decide(r, "503")
    /\ UNCHANGED <<form, known, blobs, staging, records>>

\* Mutant: PreconditionFailed is a conflict, whatever object is there.
ConfirmConflict(r) ==
    /\ pc[r] = "confirm"
    /\ Goto(r, "unstage")
    /\ Decide(r, "409")
    /\ UNCHANGED <<form, known, storeVars>>

\* After PreconditionFailed: is the object that is there the same package?
Confirm(r) ==
    LET existing == bucket[form[r].fullname] IN
    /\ pc[r] = "confirm"
    /\ Goto(r, "unstage")
    /\ \/ existing # None /\ ObjectMatches(existing, form[r]) /\ UNCHANGED status
       \/ ~(existing # None /\ ObjectMatches(existing, form[r])) /\ Decide(r, "409")
       \/ Decide(r, "503")
    /\ UNCHANGED <<form, known, storeVars>>

\* The finally clause of mirror_package, whose deletion may fail, and what
\* mirror_uploaded_package makes of the outcome.
Unstage(r) ==
    /\ pc[r] = "unstage"
    /\ staging' \in {staging, [staging EXCEPT ![r] = None]}
    /\ IF status[r] = "none"
       THEN Mirrored(r)
       ELSE Goto(r, "cleanup") /\ UNCHANGED status
    /\ UNCHANGED <<form, known, blobs, bucket, records>>

NewRecord(r) ==
    [fullname |-> form[r].fullname, sha1 |-> form[r].sha1,
     dependencies |-> IF form[r].dependencies = Absent
                      THEN NoDeps ELSE form[r].dependencies,
     blob |-> r]

\* Package(...).put().  When it raises, the entity may have been written and
\* the uploaded blob is kept.
Put(r) ==
    /\ pc[r] = "put"
    /\ Goto(r, "done")
    /\ \/ records' = records \cup {NewRecord(r)} /\ Decide(r, "ok")
       \/ records' \in {records, records \cup {NewRecord(r)}} /\ Decide(r, "500")
    /\ UNCHANGED <<form, known, blobs, staging, bucket>>

\* delete_uploaded_blobs, which swallows every failure, and the response.
Cleanup(r) ==
    /\ pc[r] = "cleanup"
    /\ Goto(r, "done")
    /\ blobs' \in {blobs, [blobs EXCEPT ![r] = None]}
    /\ UNCHANGED <<form, known, status, staging, bucket, records>>

Handler(r) ==
    \/ UploadUrl(r) \/ StoreUpload(r) \/ Validate(r) \/ Lookup(r) \/ Peek(r)
    \/ Stage(r) \/ Copy(r) \/ Confirm(r) \/ Unstage(r) \/ Put(r) \/ Cleanup(r)

\* The worker is killed (gunicorn --timeout 600, an instance shut down), or an
\* exception that nothing catches ends the handler (a query that fails).
Crash(r) ==
    /\ pc[r] \notin {"idle"} \cup Ended
    /\ pc' = [pc EXCEPT ![r] = "dead"]
    /\ UNCHANGED <<form, known, status, storeVars>>

\* Mutant: only the staging objects of requests that were answered expire.
ExpireAnswered(r) ==
    /\ pc[r] = "done"
    /\ staging[r] # None
    /\ staging' = [staging EXCEPT ![r] = None]
    /\ UNCHANGED <<handlerVars, blobs, bucket, records>>

\* gcs-lifecycle.json deletes staging objects that are a day old; no handler
\* lives as long as that.
ExpireStaging(r) ==
    /\ pc[r] \in Ended
    /\ staging[r] # None
    /\ staging' = [staging EXCEPT ![r] = None]
    /\ UNCHANGED <<handlerVars, blobs, bucket, records>>

Next == \E r \in Requests : Handler(r) \/ Crash(r) \/ ExpireStaging(r)

Spec == Init /\ [][Next]_vars

\* A handler that has begun ends: gunicorn kills one that takes longer than
\* its timeout.  Cloud Storage applies the lifecycle rule.
Fairness ==
    \A r \in Requests :
        /\ WF_vars((Handler(r) /\ pc[r] # "idle") \/ Crash(r))
        /\ WF_vars(ExpireStaging(r))

FairSpec == Spec /\ Fairness

-----------------------------------------------------------------------------
(* Safety.                                                                 *)

\* mirror_package writes a package name only after the digest of what it
\* streamed was checked, and publication follows the mirror: every record
\* made by this service has an object under its name whose metadata AND whose
\* bytes have the record's SHA-1, whatever handlers raced, failed or died.
PublishedIsMirrored ==
    \A p \in records : p.blob \in Requests =>
        /\ bucket[p.fullname] # None
        /\ bucket[p.fullname].sha1 = p.sha1
        /\ Sha1[bucket[p.fullname].bytes] = p.sha1

\* Datastore accepts two records of one name (package_upload_blobstore queries
\* and then puts, without a transaction); they never disagree on the SHA-1,
\* since the create-only copy admits one of the racing contents.
RecordsAgreeOnSha1 ==
    \A p, q \in records : p.fullname = q.fullname => p.sha1 = q.sha1

\* download_package answers for every record: no cleanup of a rejected or
\* repeated upload ever deletes the blob a record points to, and that blob
\* has the SHA-1 the record advertises.
RecordsAreServable ==
    \A p \in records : /\ blobs[p.blob] # None
                       /\ Sha1[blobs[p.blob]] = p.sha1

\* "ok" from package_upload_blobstore: a record with the SHA-1 and the
\* dependencies of the form exists, and the package is in the bucket.
OkMeansPublished ==
    \A r \in Requests : pc[r] = "done" /\ status[r] = "ok" =>
        /\ \E p \in records :
              /\ p.fullname = form[r].fullname
              /\ p.sha1 = form[r].sha1
              /\ form[r].dependencies \in {Absent, p.dependencies}
        /\ bucket[form[r].fullname] # None
        /\ bucket[form[r].fullname].sha1 = form[r].sha1

\* A request that was refused or told that storage is unavailable published
\* nothing, although the mirror may hold its bytes by then.
RefusedIsNotPublished ==
    \A r \in Requests :
        status[r] \in {"400", "403", "409", "503"} =>
            \A p \in records : p.blob # r

\* 409 is only said to a client whose package really differs from what is
\* stored: a record of that name disagrees, or the bucket holds other bytes.
\* What an interrupted upload leaves behind never refuses its own retry.
ConflictIsJustified ==
    \A r \in Requests : status[r] = "409" =>
        \/ \E p \in records :
              /\ p.fullname = form[r].fullname
              /\ \/ p.sha1 # form[r].sha1
                 \/ form[r].dependencies \notin {Absent, p.dependencies}
        \/ /\ bucket[form[r].fullname] # None
           /\ bucket[form[r].fullname].bytes # form[r].bytes

\* No step of any handler replaces or deletes an object under a package name
\* (copy_blob with if_generation_match=0; clients may cache it for a year).
MirrorIsImmutable ==
    [][\A n \in Fullnames : bucket[n] # None => bucket'[n] = bucket[n]]_vars

-----------------------------------------------------------------------------
(* Liveness.                                                               *)

\* Every staging object disappears, also one whose handler died, whose
\* deletion failed, or of which the handler never learnt that it was written.
StagingIsReclaimed ==
    \A r \in Requests : staging[r] # None ~> staging[r] = None

-----------------------------------------------------------------------------
(* Refinement of ImmutableCatalog: a name is bound to the digest of its    *)
(* object or, before it is mirrored, of its legacy record.                 *)

BoundDigest(n) ==
    IF bucket[n] # None THEN bucket[n].sha1
    ELSE IF n \in DOMAIN Legacy THEN Sha1[Legacy[n].bytes]
    ELSE None

Told == {r \in Requests : pc[r] = "done" /\ status[r] = "ok"}

Catalog == INSTANCE ImmutableCatalog WITH
    digest <- [n \in Fullnames |-> BoundDigest(n)],
    acked <- {<<form[r].fullname, form[r].sha1>> : r \in Told},
    Unbound <- None

\* The service implements ImmutableCatalog: names are bound once, and clients
\* are told "ok" of the bound contents only.
ImplementsCatalog == Catalog!CatalogSpec
=============================================================================
